----------------------------- MODULE OrderedMap -----------------------------
(***************************************************************************)
(* What a tree promises to the managers that are built on it: a map, in    *)
(* which adding a key replaces what the key had.                           *)
(***************************************************************************)
CONSTANTS Key, Data, None

VARIABLE store   \* what each key has, None if it is not in the map

vars == <<store>>

Init == store = [k \in Key |-> None]

Put(k, d) == store' = [store EXCEPT ![k] = d]
Drop(k) == store' = [store EXCEPT ![k] = None]
Clear == store' = [k \in Key |-> None]

Next == Clear \/ \E k \in Key : Drop(k) \/ \E d \in Data : Put(k, d)

Spec == Init /\ [][Next]_vars
=============================================================================
