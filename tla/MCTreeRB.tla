------------------------------ MODULE MCTreeRB ------------------------------
(***************************************************************************)
(* Trees for TLC.                                                          *)
(***************************************************************************)
EXTENDS TreeRB

\* A node is as good as another: states are told apart by the keys the nodes have.
Name(n) == IF n \in used THEN <<tree.key[n]>> ELSE IF n = Nil THEN <<>> ELSE <<"freed">>
ByKey == <<{<<tree.key[n], tree.data[n], tree.red[n], Name(tree.parent[n]),
              Name(tree.child["left"][n]), Name(tree.child["right"][n])>> : n \in used},
           Cardinality(used), tree.size, Name(tree.head), pc, Name(cur)>>

CONSTANTS d1, d2    \* the data

\* A key is added with data of its own, and one key is later given other data.
Own(k) == IF k % 2 = 0 THEN d1 ELSE d2
Changed(n) ==
    /\ n \in used /\ tree.key[n] = 1
    /\ tree'.data[n] = tree.data[n] \/ Cardinality(used) = 3
Few == pc = "idle" /\ used \subseteq used' =>
           \A n \in used' : tree'.data[n] = Own(tree'.key[n]) \/ Changed(n)
FewSpec == Init /\ [][Next /\ Few]_vars
=============================================================================
