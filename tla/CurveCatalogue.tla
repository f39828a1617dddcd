--------------------------- MODULE CurveCatalogue ---------------------------
(***************************************************************************)
(* What the bootstrap engine promises its client: a catalogue of curves    *)
(* that only grows while a request is being served, in which a curve       *)
(* appears only after the curves it needs, and an answer to every request  *)
(* that is either the requested curve, in the catalogue, or nothing.       *)
(***************************************************************************)
CONSTANTS Key, None

VARIABLES
    needs,    \* the curves each curve declares that it is made from
    have,     \* the curves of the catalogue
    request,  \* the curve that is requested, or None
    answer    \* what the last request got, a curve or None

vars == <<needs, have, request, answer>>

Init ==
    /\ needs = [k \in Key |-> {}]
    /\ have = {}
    /\ request = None
    /\ answer = None

\* Between requests the client does as it likes with the catalogue.
Arrange ==
    /\ request = None
    /\ needs' \in [Key -> SUBSET Key]
    /\ have' \subseteq Key
    /\ UNCHANGED <<request, answer>>

Ask(k) ==
    /\ request = None
    /\ request' = k
    /\ UNCHANGED <<needs, have, answer>>

Install(k) ==
    /\ request # None
    /\ k \notin have /\ needs[k] \subseteq have
    /\ have' = have \cup {k}
    /\ UNCHANGED <<needs, request, answer>>

Reply ==
    /\ request # None
    /\ request' = None
    /\ answer' \in {None} \cup ({request} \cap have)
    /\ UNCHANGED <<needs, have>>

Next == Arrange \/ Reply \/ \E k \in Key : Ask(k) \/ Install(k)

Spec == Init /\ [][Next]_vars

\* A request is not left without an answer.
FairSpec == Spec /\ WF_vars(Reply)
=============================================================================
