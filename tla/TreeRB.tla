------------------------------- MODULE TreeRB -------------------------------
(***************************************************************************)
(* rq_tree_rb: the red-black tree that every manager of the library is.    *)
(* Adding and removing are one step up to the loop that rebalances, and    *)
(* then one step for each of its iterations.                               *)
(*                                                                         *)
(* The code writes every case twice, for a node on the left and on the     *)
(* right of its parent.  The model writes it once, for a side: child[s] is *)
(* the field of that name.  Larger keys are on the left.                   *)
(***************************************************************************)
EXTENDS Integers, FiniteSets

CONSTANTS
    Node,     \* the memory: the nodes that may be allocated
    Key,      \* numbers, so that they are ordered
    Data,     \* what the keys are given
    Removing, \* whether the client removes
    Nil

ASSUME NilAssumption == Nil \notin Node \cup Data \cup Key
ASSUME KeyAssumption == Key \subseteq Int
ASSUME NodeAssumption == IsFiniteSet(Node)
ASSUME RemovingAssumption == Removing \in BOOLEAN

Side == {"left", "right"}
Other(s) == IF s = "left" THEN "right" ELSE "left"

VARIABLES
    tree,   \* head and size, and the fields of the nodes
    used,   \* the nodes that are allocated
    pc,     \* "idle", rebalancing after an "add" or a "remove", or "crashed"
    cur     \* where the rebalancing is: n of the one, x of the other

vars == <<tree, used, pc, cur>>

Link == Node \cup {Nil}
Tree == [head : Link, size : Nat, child : [Side -> [Node -> Link]],
         parent : [Node -> Link], red : [Node -> BOOLEAN],
         key : [Node -> Key \cup {Nil}], data : [Node -> Data \cup {Nil}]]
-----------------------------------------------------------------------------
\* Walking down.

\* Where a key is sought below n.
Toward(t, n, k) == IF t.key[n] < k THEN "left" ELSE "right"

\* The nodes from the head down to the key, or to where it would be.
Descent(t, k) ==
    LET below == [n \in Link |-> IF n = Nil THEN Nil
                                 ELSE IF t.key[n] = k THEN n
                                 ELSE t.child[Toward(t, n, k)][n]]
        at[i \in 0..Cardinality(Node)] == IF i = 0 THEN t.head ELSE below[at[i-1]]
    IN at

\* rq_tree_rb_find: the node that has the key, or Nil.
Find(t, k) == Descent(t, k)[Cardinality(Node)]

\* n is looked at on the way to the key.
OnPath(t, k, n) == \E i \in 0..Cardinality(Node) : Descent(t, k)[i] = n

\* The last node on one side below n: recurse_find_first and recurse_find_last.
End(t, n, s) ==
    LET below == [m \in Link |->
                     IF m = Nil \/ t.child[s][m] = Nil THEN m ELSE t.child[s][m]]
        at[i \in 0..Cardinality(Node)] == IF i = 0 THEN n ELSE below[at[i-1]]
    IN at[Cardinality(Node)]

\* Slip: the first ancestor is taken, whichever side n is on.
Above_Parent(t, n, s) == t.parent[n]

\* The first ancestor of n that n is below on side s, or Nil.
Above(t, n, s) ==
    LET up == [m \in Link |->
                  IF m = Nil \/ t.parent[m] = Nil THEN Nil
                  ELSE IF t.child[s][t.parent[m]] = m THEN m ELSE t.parent[m]]
        at[i \in 0..Cardinality(Node)] == IF i = 0 THEN n ELSE up[at[i-1]]
        under == at[Cardinality(Node)]
    IN IF under = Nil THEN Nil ELSE t.parent[under]

\* iter_incr and rq_tree_rb_next go on to the left, iter_decr to the right.
Step(t, n, s) ==
    IF t.child[s][n] # Nil THEN End(t, t.child[s][n], Other(s))
                           ELSE Above(t, n, Other(s))
-----------------------------------------------------------------------------
\* Turning.

SideOf(t, n) == IF t.child["left"][t.parent[n]] = n THEN "left" ELSE "right"

\* left_rotate is Rotate to the left, right_rotate to the right: n's child o on
\* the other side comes up, n goes down, and o's child moves over to n.
Rotate(t, n, s) ==
    LET o == t.child[Other(s)][n]
        moved == t.child[s][o]
        p == t.parent[n]
    IN [t EXCEPT
          !.head = IF p = Nil THEN o ELSE @,
          !.child = [z \in Side |-> [m \in Node |->
                CASE m = n /\ z = Other(s) -> moved
                  [] m = o /\ z = s -> n
                  [] p # Nil /\ m = p /\ z = SideOf(t, n) -> o
                  [] OTHER -> t.child[z][m]]],
          !.parent = [m \in Node |->
                CASE m = n -> o
                  [] m = o -> p
                  [] m = moved -> n
                  [] OTHER -> t.parent[m]]]

Blacken(t, N) == [t EXCEPT !.red = [m \in Node |-> m \notin N /\ t.red[m]]]
Redden(t, n) == [t EXCEPT !.red = [t.red EXCEPT ![n] = TRUE]]
-----------------------------------------------------------------------------
Init ==
    /\ tree = [head |-> Nil, size |-> 0,
               child |-> [s \in Side |-> [n \in Node |-> Nil]],
               parent |-> [n \in Node |-> Nil], red |-> [n \in Node |-> FALSE],
               key |-> [n \in Node |-> Nil], data |-> [n \in Node |-> Nil]]
    /\ used = {}
    /\ pc = "idle"
    /\ cur = Nil

Idle == pc = "idle"

\* rq_tree_rb_add for a key that is there: the old data is freed.
Replace(k, d) ==
    LET n == Find(tree, k) IN
    /\ Idle /\ n # Nil /\ tree.data[n] # d
    /\ tree' = [tree EXCEPT !.data[n] = d]
    /\ UNCHANGED <<used, pc, cur>>

\* For the first key: a black head, without any rebalancing.
AddFirst(k, d) ==
    /\ Idle /\ tree.head = Nil
    /\ \E n \in Node \ used :
        /\ tree' = [tree EXCEPT !.head = n, !.size = @ + 1,
                                !.key[n] = k, !.data[n] = d]
        /\ used' = used \cup {n}
    /\ UNCHANGED <<pc, cur>>

\* For a new key: a red leaf where the way to the key ends.
Add(k, d) ==
    /\ Idle /\ tree.head # Nil /\ Find(tree, k) = Nil
    /\ \E n \in Node \ used, p \in used :
        /\ OnPath(tree, k, p) /\ tree.child[Toward(tree, p, k)][p] = Nil
        /\ tree' = [tree EXCEPT !.size = @ + 1, !.child[Toward(tree, p, k)][p] = n,
                                !.parent[n] = p, !.red[n] = TRUE,
                                !.key[n] = k, !.data[n] = d]
        /\ used' = used \cup {n}
        /\ cur' = n
    /\ pc' = "add"

\* The condition of the loop: n has a red parent and a grandparent.
RedParent(t, n) ==
    LET p == t.parent[n] IN
    /\ n # t.head /\ p # Nil
    /\ t.parent[p] # Nil /\ t.red[p]

\* Case 1, the uncle is red: the colours flip, and n is now the grandparent.
Flip ==
    LET p == tree.parent[cur]
        g == tree.parent[p]
        o == tree.child[Other(SideOf(tree, p))][g]
    IN /\ pc = "add" /\ RedParent(tree, cur) /\ o # Nil /\ tree.red[o]
       /\ tree' = Redden(Blacken(tree, {p, o}), g)
       /\ cur' = g
       /\ UNCHANGED <<used, pc>>

\* Cases 2 and 3, the uncle is black: if n is an inner grandchild its parent is
\* turned first; then the grandparent is turned.
TurnAtBlackUncle ==
    LET p == tree.parent[cur]
        g == tree.parent[p]
        s == SideOf(tree, p)
        o == tree.child[Other(s)][g]
        inner == cur = tree.child[Other(s)][p]
        n == IF inner THEN p ELSE cur
        t == IF inner THEN Rotate(tree, p, s) ELSE tree
    IN /\ pc = "add" /\ RedParent(tree, cur) /\ o # Nil /\ ~tree.red[o]
       /\ tree' = Rotate(Redden(Blacken(t, {t.parent[n]}), g), g, Other(s))
       /\ cur' = n
       /\ UNCHANGED <<used, pc>>

\* Without an uncle the grandparent is turned at once, inner grandchild or not,
\* and n goes on at its parent.
TurnWithoutUncle ==
    LET p == tree.parent[cur]
        g == tree.parent[p]
        s == SideOf(tree, p)
    IN /\ pc = "add" /\ RedParent(tree, cur) /\ tree.child[Other(s)][g] = Nil
       /\ tree' = Rotate(Redden(Blacken(tree, {p}), g), g, Other(s))
       /\ cur' = tree'.parent[cur]
       /\ UNCHANGED <<used, pc>>

\* The loop is over: the head is painted black.
AddDone ==
    /\ pc = "add" /\ ~RedParent(tree, cur)
    /\ tree' = Blacken(tree, {tree.head})
    /\ pc' = "idle" /\ cur' = Nil
    /\ UNCHANGED used
-----------------------------------------------------------------------------
\* Node y leaves the tree and its only child x takes its place.
Bypass(t, y, x) ==
    LET p == t.parent[y] IN
    [t EXCEPT
        !.head = IF p = Nil THEN x ELSE @,
        !.child = [z \in Side |-> [m \in Node |->
            CASE m = y -> Nil
              [] p # Nil /\ m = p /\ z = SideOf(t, y) -> x
              [] OTHER -> t.child[z][m]]],
        !.parent = [m \in Node |-> CASE m = y -> Nil [] m = x -> p [] OTHER -> t.parent[m]],
        !.red[y] = FALSE]

\* Slip: the child's parent is not updated.
Unlink_KeepsParent(t, n, y, x) ==
    LET without(f) == [f EXCEPT ![n] = f[y], ![y] = Nil]
    IN [Bypass(t, y, x) EXCEPT !.size = @ - 1, !.key = without(@), !.data = without(@),
                               !.parent = [t.parent EXCEPT ![y] = Nil]]

\* Slip: a key that moves leaves its data behind.
Unlink_KeyOnly(t, n, y, x) ==
    LET without(f) == [f EXCEPT ![n] = f[y], ![y] = Nil]
    IN [Bypass(t, y, x) EXCEPT !.size = @ - 1, !.key = without(@), !.data[y] = Nil]

\* The key of n goes: n takes what y has, and y's memory is freed.
Unlink(t, n, y, x) ==
    LET without(f) == [f EXCEPT ![n] = f[y], ![y] = Nil]
    IN [Bypass(t, y, x) EXCEPT !.size = @ - 1, !.key = without(@), !.data = without(@)]

\* rq_tree_rb_remove: a node with two children gives way to the last node on the
\* left of its right subtree.  Rebalancing is needed if that one was black and
\* has a black child.
GivesWay(n, y) ==
    IF Nil \in {tree.child[s][n] : s \in Side} THEN y = n
    ELSE y = End(tree, tree.child["right"][n], "left") /\ tree.child["left"][y] = Nil

Remove(k) ==
    /\ Idle /\ Removing
    /\ \E n, y \in used :
        LET x == IF tree.child["left"][y] # Nil THEN tree.child["left"][y]
                                               ELSE tree.child["right"][y]
            fix == ~tree.red[y] /\ x # Nil
        IN /\ n = Find(tree, k) /\ GivesWay(n, y)
           /\ tree' = Unlink(tree, n, y, x)
           /\ used' = used \ {y}
           /\ pc' = IF fix THEN "remove" ELSE "idle"
           /\ cur' = IF fix THEN x ELSE Nil

\* The loop goes on: x is black and not the head.
BlackBelow == cur # tree.head /\ ~tree.red[cur]

\* The tree once a red sibling of x was turned away, and x's sibling in it.
Above_x == tree.parent[cur]
xSide == SideOf(tree, cur)
Sibling(t) == t.child[Other(xSide)][Above_x]
SiblingTurned ==
    LET w == Sibling(tree) IN
    IF ~tree.red[w] THEN tree
    ELSE Rotate(Redden(Blacken(tree, {w}), Above_x), Above_x, xSide)

\* The loop dereferences the sibling, then the sibling's child on x's side, and
\* then, unless that one is red, the other child; or, if it is red and has to be
\* looked at again, the other child after all.
NullDeref ==
    Sibling(tree) # Nil =>
        LET t == SiblingTurned
            w == Sibling(t)
        IN w # Nil => \E s \in Side : t.child[s][w] = Nil

RemoveCrash ==
    /\ pc = "remove" /\ BlackBelow /\ NullDeref
    /\ pc' = "crashed"
    /\ UNCHANGED <<tree, used, cur>>

\* Both children of the sibling are black: it turns red, and x is its parent.
BothBlack(t, w) == \A s \in Side : ~t.red[t.child[s][w]]

MoveUp ==
    LET t == SiblingTurned IN
    /\ pc = "remove" /\ BlackBelow /\ ~NullDeref
    /\ BothBlack(t, Sibling(t))
    /\ tree' = Redden(t, Sibling(t))
    /\ cur' = Above_x
    /\ UNCHANGED <<used, pc>>

\* A child of the sibling is red: the sibling is turned if it is the near one,
\* then the parent is turned, and the loop ends at the head.
TurnSibling ==
    LET t == SiblingTurned
        w == Sibling(t)
        far == t.child[Other(xSide)][w]
        near == t.child[xSide][w]
        t2 == IF t.red[far] THEN t
              ELSE Rotate(Redden(Blacken(t, {near}), w), w, Other(xSide))
        w2 == Sibling(t2)
        t3 == [t2 EXCEPT !.red = [@ EXCEPT ![w2] = t2.red[Above_x]]]
        t4 == Blacken(t3, {Above_x, t3.child[Other(xSide)][w2]})
    IN /\ pc = "remove" /\ BlackBelow /\ ~NullDeref /\ ~BothBlack(t, w)
       /\ tree' = Rotate(t4, Above_x, xSide)
       /\ cur' = tree'.head
       /\ UNCHANGED <<used, pc>>

RemoveDone ==
    /\ pc = "remove" /\ ~BlackBelow
    /\ tree' = Blacken(tree, {cur})
    /\ pc' = "idle" /\ cur' = Nil
    /\ UNCHANGED used

\* rq_tree_rb_clear.
Clear ==
    /\ Idle /\ Removing /\ tree.head # Nil
    /\ tree' = [head |-> Nil, size |-> 0,
                child |-> [s \in Side |-> [n \in Node |-> Nil]],
                parent |-> [n \in Node |-> Nil], red |-> [n \in Node |-> FALSE],
                key |-> [n \in Node |-> Nil], data |-> [n \in Node |-> Nil]]
    /\ used' = {}
    /\ UNCHANGED <<pc, cur>>
-----------------------------------------------------------------------------
Rebalance == \/ Flip \/ TurnAtBlackUncle \/ TurnWithoutUncle \/ AddDone
             \/ RemoveCrash \/ MoveUp \/ TurnSibling \/ RemoveDone

Client == \/ \E k \in Key, d \in Data : Replace(k, d) \/ AddFirst(k, d) \/ Add(k, d)
          \/ \E k \in Key : Remove(k)
          \/ Clear

Next == Client \/ Rebalance

Spec == Init /\ [][Next]_vars
-----------------------------------------------------------------------------
(***************************************************************************)
(* Properties                                                              *)
(***************************************************************************)
\* The fields have their types, and the nodes that are not allocated are blank.
TypeOK ==
    /\ tree \in Tree /\ used \subseteq Node
    /\ pc \in {"idle", "add", "remove", "crashed"} /\ cur \in Link

\* The two directions of every link agree, at every step of a rebalancing: what
\* a node has for a child has it for a parent and is allocated, no node is a
\* child twice, and only the head has no parent.
Linked(t, U) ==
    /\ t.head \in U \/ (t.head = Nil /\ U = {})
    /\ \A n \in U, s \in Side :
        t.child[s][n] # Nil => t.child[s][n] \in U /\ t.parent[t.child[s][n]] = n
    /\ \A n \in U : t.child["left"][n] # t.child["right"][n] \/ t.child["left"][n] = Nil
    /\ \A n \in U : IF n = t.head THEN t.parent[n] = Nil
                   ELSE t.parent[n] \in U /\ \E s \in Side : t.child[s][t.parent[n]] = n
LinksAgree == Linked(tree, used)

\* Walking up ends: there is no set of nodes whose parents are all in the set.
\* With LinksAgree, every node is below the head, and none is below itself.
Loopless(t, U) == \A S \in SUBSET U : S # {} => \E n \in S : t.parent[n] \notin S
NoLoop == Loopless(tree, used)

\* The size test of rq_tree_rb_is_consistant: the size is the number of nodes.
\* With NoLoop these are the nodes that are below the head, so none is lost.
SizeIsCount == tree.size = Cardinality(used)

\* At every step of a rebalancing the nodes are linked as a tree that the size
\* counts: both ends of every link are set, no walk up is endless, and no node
\* is lost.
WellLinked == LinksAgree /\ NoLoop /\ SizeIsCount

\* Iterators visit the keys in order, in both directions and at every step of a
\* rebalancing: the neighbour of a node has the next key, or there is none.
NeighboursInOrder ==
    \A n \in used :
        LET k == tree.key[n]
            next == Step(tree, n, "left")
            previous == Step(tree, n, "right")
            K == {tree.key[m] : m \in used}
        IN /\ IF \A j \in K : j <= k THEN next = Nil /\ n = End(tree, tree.head, "left")
              ELSE next # Nil /\ tree.key[next] > k /\ \A j \in K : j > k => tree.key[next] <= j
           /\ IF \A j \in K : j >= k THEN previous = Nil /\ n = End(tree, tree.head, "right")
              ELSE previous # Nil /\ Step(tree, previous, "left") = n

\* The tree is a map from keys to data: adding a key gives it its data in one
\* step, and no rebalancing changes what any key has.
Map == INSTANCE OrderedMap WITH None <- Nil,
    store <- [k \in Key |-> LET n == Find(tree, k) IN IF n = Nil THEN Nil ELSE tree.data[n]]
MapRefined == Map!Spec

=============================================================================
