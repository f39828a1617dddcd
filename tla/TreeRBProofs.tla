---------------------------- MODULE TreeRBProofs ----------------------------
(***************************************************************************)
(* Proofs about TreeRB, for any memory, keys and data.  At every step of a *)
(* rebalancing the links of the tree agree and do not loop, the nodes are  *)
(* in the order of their keys, the iterators visit them in that order, and *)
(* the tree is a map.                                                      *)
(***************************************************************************)
EXTENDS TreeRB, Induction, FiniteSetTheorems, TLAPS

LEMMA Sides == /\ Side = {"left", "right"} /\ "left" # "right"
               /\ \A s \in Side : Other(s) \in Side /\ Other(s) # s /\ Other(Other(s)) = s
BY DEF Side, Other

\* What a rotation does to each field.
LEMMA RotateFields ==
    ASSUME NEW t \in Tree, NEW n, NEW s, NEW r, r = Rotate(t, n, s),
           NEW o, o = t.child[Other(s)][n], NEW w, w = t.child[s][o],
           NEW p, p = t.parent[n], NEW q, q = SideOf(t, n)
    PROVE  /\ r.head = IF p = Nil THEN o ELSE t.head
           /\ \A z \in Side, m \in Node : r.child[z][m] =
                CASE m = n /\ z = Other(s) -> w
                  [] m = o /\ z = s -> n
                  [] p # Nil /\ m = p /\ z = q -> o
                  [] OTHER -> t.child[z][m]
           /\ \A m \in Node : r.parent[m] =
                CASE m = n -> o
                  [] m = o -> p
                  [] m = w -> n
                  [] OTHER -> t.parent[m]
           /\ r.red = t.red /\ r.key = t.key /\ r.data = t.data /\ r.size = t.size
<1> DEFINE H == IF t.parent[n] = Nil THEN t.child[Other(s)][n] ELSE t.head
           C == [z \in Side |-> [m \in Node |->
                    CASE m = n /\ z = Other(s) -> t.child[s][t.child[Other(s)][n]]
                      [] m = t.child[Other(s)][n] /\ z = s -> n
                      [] t.parent[n] # Nil /\ m = t.parent[n] /\ z = SideOf(t, n)
                            -> t.child[Other(s)][n]
                      [] OTHER -> t.child[z][m]]]
           D == [m \in Node |->
                    CASE m = n -> t.child[Other(s)][n]
                      [] m = t.child[Other(s)][n] -> t.parent[n]
                      [] m = t.child[s][t.child[Other(s)][n]] -> n
                      [] OTHER -> t.parent[m]]
<1>0. r = [t EXCEPT !.head = H, !.child = C, !.parent = D]
    BY Zenon DEF Rotate
<1> HIDE DEF H, C, D
<1>1. /\ r.head = H /\ r.child = C /\ r.parent = D
      /\ r.red = t.red /\ r.key = t.key /\ r.data = t.data /\ r.size = t.size
    BY ONLY <1>0, t \in Tree DEF Tree
<1>2. \A z \in Side, m \in Node : r.child[z][m] =
                CASE m = n /\ z = Other(s) -> w
                  [] m = o /\ z = s -> n
                  [] p # Nil /\ m = p /\ z = q -> o
                  [] OTHER -> t.child[z][m]
    BY <1>1 DEF C
<1>3. \A m \in Node : r.parent[m] =
                CASE m = n -> o
                  [] m = o -> p
                  [] m = w -> n
                  [] OTHER -> t.parent[m]
    BY <1>1 DEF D
<1> QED
    BY <1>1, <1>2, <1>3 DEF H

LEMMA SideOfType == ASSUME NEW t, NEW n PROVE SideOf(t, n) \in Side
BY DEF SideOf, Side

LEMMA TreeFields ==
    ASSUME NEW t \in Tree
    PROVE  /\ t.head \in Link /\ t.size \in Nat
           /\ \A z \in Side, m \in Node : t.child[z][m] \in Link
           /\ t.child \in [Side -> [Node -> Link]]
           /\ t.parent \in [Node -> Link] /\ \A m \in Node : t.parent[m] \in Link
           /\ t.red \in [Node -> BOOLEAN]
           /\ t.key \in [Node -> Key \cup {Nil}] /\ t.data \in [Node -> Data \cup {Nil}]
BY DEF Tree

LEMMA RotateType ==
    ASSUME NEW t \in Tree, NEW n \in Node, NEW s \in Side, t.child[Other(s)][n] # Nil
    PROVE  Rotate(t, n, s) \in Tree
<1> DEFINE o == t.child[Other(s)][n]
           moved == t.child[s][o]
           p == t.parent[n]
           h == IF p = Nil THEN o ELSE t.head
           c == [z \in Side |-> [m \in Node |->
                CASE m = n /\ z = Other(s) -> moved
                  [] m = o /\ z = s -> n
                  [] p # Nil /\ m = p /\ z = SideOf(t, n) -> o
                  [] OTHER -> t.child[z][m]]]
           q == [m \in Node |->
                CASE m = n -> o
                  [] m = o -> p
                  [] m = moved -> n
                  [] OTHER -> t.parent[m]]
<1>1. o \in Node /\ moved \in Link /\ p \in Link /\ t.head \in Link
    BY Sides, TreeFields DEF Link
<1>2. c \in [Side -> [Node -> Link]]
    BY <1>1, TreeFields DEF Link
<1>3. q \in [Node -> Link]
    BY <1>1, TreeFields DEF Link
<1>4. h \in Link
    BY <1>1 DEF Link
<1>5. Rotate(t, n, s) = [t EXCEPT !.head = h, !.child = c, !.parent = q]
    BY DEF Rotate
<1> HIDE DEF h, c, q
<1>6. [t EXCEPT !.head = h, !.child = c, !.parent = q] \in Tree
    BY <1>2, <1>3, <1>4 DEF Tree
<1> QED
    BY <1>5, <1>6

\* Without loops a node, its child and its parent are not one another.
LEMMA NoShortLoop ==
    ASSUME NEW t, NEW U, Loopless(t, U)
    PROVE  /\ \A a \in U : t.parent[a] # a
           /\ \A a, b \in U : ~(t.parent[a] = b /\ t.parent[b] = a)
           /\ \A a, b, c \in U : ~(t.parent[a] = b /\ t.parent[b] = c /\ t.parent[c] = a)
<1>1. \A a \in U : t.parent[a] # a
  <2> SUFFICES ASSUME NEW a \in U, t.parent[a] = a PROVE FALSE
      OBVIOUS
  <2>1. {a} \in SUBSET U /\ {a} # {}
      OBVIOUS
  <2> QED
      BY <2>1 DEF Loopless
<1>2. \A a, b \in U : ~(t.parent[a] = b /\ t.parent[b] = a)
  <2> SUFFICES ASSUME NEW a \in U, NEW b \in U, t.parent[a] = b, t.parent[b] = a PROVE FALSE
      OBVIOUS
  <2>1. {a, b} \in SUBSET U /\ {a, b} # {}
      OBVIOUS
  <2> QED
      BY <2>1 DEF Loopless
<1>3. \A a, b, c \in U : ~(t.parent[a] = b /\ t.parent[b] = c /\ t.parent[c] = a)
  <2> SUFFICES ASSUME NEW a \in U, NEW b \in U, NEW c \in U,
                      t.parent[a] = b, t.parent[b] = c, t.parent[c] = a
               PROVE  FALSE
      OBVIOUS
  <2>1. {a, b, c} \in SUBSET U /\ {a, b, c} # {}
      OBVIOUS
  <2> QED
      BY <2>1 DEF Loopless
<1> QED
    BY <1>1, <1>2, <1>3

\* A rotation keeps the links of a tree.
LEMMA RotateLinked ==
    ASSUME NEW t \in Tree, NEW U \in SUBSET Node, NEW n \in U, NEW s \in Side,
           Linked(t, U), Loopless(t, U), t.child[Other(s)][n] # Nil
    PROVE  Linked(Rotate(t, n, s), U) /\ Loopless(Rotate(t, n, s), U)
<1>o. PICK o : o = t.child[Other(s)][n]
    OBVIOUS
<1>w. PICK w : w = t.child[s][o]
    OBVIOUS
<1>p. PICK p : p = t.parent[n]
    OBVIOUS
<1>r. PICK r : r = Rotate(t, n, s)
    OBVIOUS
<1>z. PICK q : q = SideOf(t, n)
    OBVIOUS
<1>1. /\ r.head = IF p = Nil THEN o ELSE t.head
      /\ \A z \in Side, m \in Node : r.child[z][m] =
            CASE m = n /\ z = Other(s) -> w
              [] m = o /\ z = s -> n
              [] p # Nil /\ m = p /\ z = q -> o
              [] OTHER -> t.child[z][m]
      /\ \A m \in Node : r.parent[m] =
            CASE m = n -> o
              [] m = o -> p
              [] m = w -> n
              [] OTHER -> t.parent[m]
    BY <1>o, <1>w, <1>p, <1>r, <1>z, RotateFields
<1>2. /\ U \subseteq Node /\ Nil \notin U
      /\ o \in U /\ t.parent[o] = n
      /\ w = Nil \/ (w \in U /\ t.parent[w] = o)
      /\ p = Nil \/ (p \in U /\ q \in Side /\ t.child[q][p] = n)
      /\ p = Nil => n = t.head
      /\ p # Nil => n # t.head
    BY <1>o, <1>w, <1>p, <1>z, Sides, NilAssumption DEF Linked, SideOf, Side
<1>3. n # o /\ p # n /\ p # o /\ w # o /\ w # n /\ (w # p \/ w = Nil)
    BY <1>2, <1>p, NoShortLoop
<1>4. \A m \in U, z \in Side : r.child[z][m] # Nil =>
        r.child[z][m] \in U /\ r.parent[r.child[z][m]] = m
  <2> SUFFICES ASSUME NEW m \in U, NEW z \in Side, r.child[z][m] # Nil
               PROVE  r.child[z][m] \in U /\ r.parent[r.child[z][m]] = m
      OBVIOUS
  <2>1. CASE m = n /\ z = Other(s)
      BY <2>1, <1>1, <1>2, <1>3
  <2>2. CASE m = o /\ z = s
      BY <2>2, <1>1, <1>2, <1>3
  <2>3. CASE p # Nil /\ m = p /\ z = q
      BY <2>3, <1>1, <1>2, <1>3
  <2>4. CASE ~(m = n /\ z = Other(s)) /\ ~(m = o /\ z = s) /\ ~(p # Nil /\ m = p /\ z = q)
    <3>1. r.child[z][m] = t.child[z][m]
        BY <2>4, <1>1, <1>2
    <3>2. t.child[z][m] \in U /\ t.parent[t.child[z][m]] = m
        BY <3>1 DEF Linked
    <3>3. t.child["left"][m] # t.child["right"][m] \/ t.child["left"][m] = Nil
        BY DEF Linked
    <3>4. t.child[z][m] # n
        BY <3>1, <3>2, <3>3, <2>4, <1>2, <1>p, Sides
    <3>5. t.child[z][m] # o
        BY <3>1, <3>2, <3>3, <2>4, <1>2, <1>o, Sides
    <3>6. t.child[z][m] # w
        BY <3>1, <3>2, <3>3, <2>4, <1>2, <1>w, Sides
    <3> QED
        BY <3>1, <3>2, <3>4, <3>5, <3>6, <1>1, <1>2
  <2> QED
      BY <2>1, <2>2, <2>3, <2>4
<1>5. \A m \in U : r.child["left"][m] # r.child["right"][m] \/ r.child["left"][m] = Nil
  <2> SUFFICES ASSUME NEW m \in U, r.child["left"][m] = r.child["right"][m],
                      r.child["left"][m] # Nil
               PROVE  FALSE
      OBVIOUS
  <2>1. r.child[s][m] = r.child[Other(s)][m] /\ r.child[s][m] # Nil
      BY Sides
  <2>2. t.child["left"][m] # t.child["right"][m] \/ t.child["left"][m] = Nil
      BY DEF Linked
  <2>3. \A z \in Side : t.child[z][m] # Nil => t.parent[t.child[z][m]] = m
      BY DEF Linked
  <2>4. CASE m = n
      BY <2>1, <2>3, <2>4, <1>1, <1>2, <1>3, Sides
  <2>5. CASE m = o
      BY <2>1, <2>3, <2>5, <1>1, <1>2, <1>3, <1>p, Sides
  <2>6. CASE m = p
      BY <2>1, <2>3, <2>6, <1>1, <1>2, <1>3, Sides
  <2>7. CASE m # n /\ m # o /\ m # p
      BY <2>1, <2>2, <2>7, <1>1, <1>2, Sides
  <2> QED
      BY <2>4, <2>5, <2>6, <2>7
<1>6. \A m \in U : IF m = r.head THEN r.parent[m] = Nil
                   ELSE r.parent[m] \in U /\ \E z \in Side : r.child[z][r.parent[m]] = m
  <2> SUFFICES ASSUME NEW m \in U
               PROVE  IF m = r.head THEN r.parent[m] = Nil
                      ELSE r.parent[m] \in U /\ \E z \in Side : r.child[z][r.parent[m]] = m
      OBVIOUS
  <2>1. CASE m = n
      BY <2>1, <1>1, <1>2, <1>3, Sides
  <2>2. CASE m = o
      BY <2>2, <1>1, <1>2, <1>3, Sides DEF Linked
  <2>3. CASE m = w
      BY <2>3, <1>1, <1>2, <1>3, Sides DEF Linked
  <2>4. CASE m # n /\ m # o /\ m # w
    <3>1. r.parent[m] = t.parent[m]
        BY <2>4, <1>1, <1>2
    <3>2. CASE m = t.head
        BY <3>1, <3>2, <2>4, <1>1, <1>2 DEF Linked
    <3>3. CASE m # t.head
      <4>1. PICK z \in Side : t.child[z][t.parent[m]] = m
          BY <3>3 DEF Linked
      <4>2. t.parent[m] \in U
          BY <3>3 DEF Linked
      <4>3. ~(t.parent[m] = n /\ z = Other(s)) /\ ~(t.parent[m] = o /\ z = s)
            /\ ~(p # Nil /\ t.parent[m] = p /\ z = q)
          BY <4>1, <2>4, <1>2, <1>o, <1>w
      <4>4. r.child[z][t.parent[m]] = m
          BY <4>1, <4>2, <4>3, <1>1, <1>2
      <4>5. m # r.head
          BY <3>3, <2>4, <1>1
      <4> QED
          BY <4>2, <4>4, <4>5, <3>1
    <3> QED
        BY <3>2, <3>3
  <2> QED
      BY <2>1, <2>2, <2>3, <2>4
<1>7. r.head \in U \/ (r.head = Nil /\ U = {})
    BY <1>1, <1>2 DEF Linked
<1>8. Loopless(r, U)
  <2> SUFFICES ASSUME NEW S \in SUBSET U, S # {}, \A m \in S : r.parent[m] \in S
               PROVE  FALSE
      BY DEF Loopless
  <2>1. CASE o \notin S
    <3>1. n \notin S /\ (w # Nil => w \notin S)
        BY <2>1, <1>1, <1>2, <1>3
    <3>2. \A m \in S : t.parent[m] \in S
        BY <3>1, <2>1, <1>1, <1>2
    <3> QED
        BY <3>2 DEF Loopless
  <2>2. CASE o \in S
    <3>1. p \in S
        BY <2>2, <1>1, <1>2, <1>3
    <3>2. \A m \in S \cup {n} : t.parent[m] \in S \cup {n}
      <4> SUFFICES ASSUME NEW m \in S \cup {n} PROVE t.parent[m] \in S \cup {n}
          OBVIOUS
      <4>1. CASE m = n
          BY <4>1, <3>1, <1>p
      <4>2. CASE m = o
          BY <4>2, <1>2
      <4>3. CASE m = w
          BY <4>3, <2>2, <1>2
      <4>4. CASE m # n /\ m # o /\ m # w
          BY <4>4, <1>1, <1>2
      <4> QED
          BY <4>1, <4>2, <4>3, <4>4
    <3>3. S \cup {n} \in SUBSET U /\ S \cup {n} # {}
        OBVIOUS
    <3> QED
        BY <3>2, <3>3 DEF Loopless
  <2> QED
      BY <2>1, <2>2
<1> QED
    BY <1>4, <1>5, <1>6, <1>7, <1>8, <1>r DEF Linked

-----------------------------------------------------------------------------
\* The memory that is not allocated has no links.
Blank(t, U) == \A m \in Node \ U : t.parent[m] = Nil /\ \A z \in Side : t.child[z][m] = Nil

\* A tree over the nodes U, as far as its links go.
Tied(t, U) == t \in Tree /\ U \subseteq Node /\ Linked(t, U) /\ Loopless(t, U) /\ Blank(t, U)

-----------------------------------------------------------------------------
(***************************************************************************)
(* The walks of the tree: each node of a walk is one step from the node    *)
(* before it, and no walk has more steps than there are nodes.             *)
(***************************************************************************)
\* A walk through nodes that has not come to its end meets a node twice.
LEMMA WalkRepeats ==
    ASSUME NEW a, NEW step, NEW at, Iteration(at, Link, a, step, Cardinality(Node)),
           step[Nil] = Nil, step[at[Cardinality(Node)]] # at[Cardinality(Node)]
    PROVE  /\ \A i \in 0..Cardinality(Node) : at[i] \in Node /\ step[at[i]] # at[i]
           /\ \E i, j \in 0..Cardinality(Node) : i < j /\ at[i] = at[j]
<1> DEFINE N == Cardinality(Node)
<1>1. N \in Nat
    BY NodeAssumption, FS_CardinalityType
<1>2. ASSUME NEW i \in 0..N PROVE at[i] \in Node /\ step[at[i]] # at[i]
    <2>1. step[at[i]] # at[i]
        BY <1>1, IterationStays
    <2>2. at[i] \in Link
        BY DEF Iteration
    <2> QED
        BY <2>1, <2>2 DEF Link
<1>3. Cardinality(0..N) = N + 1 /\ IsFiniteSet(0..N)
    BY <1>1, FS_Interval
<1>4. \E i, j \in 0..N : i # j /\ at[i] = at[j]
    <2> DEFINE f == [i \in 0..N |-> at[i]]
    <2>1. f \in [0..N -> Node]
        BY <1>2
    <2> HIDE DEF f
    <2>2. \E i, j \in 0..N : i # j /\ f[i] = f[j]
        BY <1>1, <1>3, <2>1, NodeAssumption, FS_PigeonHole
    <2> QED
        BY <2>2 DEF f
<1> QED
    BY <1>2, <1>4, <1>1

\* Walking down, from a node to a child of it, comes to an end.
LEMMA WalkDown ==
    ASSUME NEW t, NEW U, Tied(t, U), NEW a \in U \cup {Nil}, NEW step, step[Nil] = Nil,
           \A n \in U : step[n] \in {n, Nil} \/ \E s \in Side : step[n] = t.child[s][n],
           NEW at, Iteration(at, Link, a, step, Cardinality(Node))
    PROVE  /\ \A i \in 0..Cardinality(Node) : at[i] \in U \cup {Nil}
           /\ step[at[Cardinality(Node)]] = at[Cardinality(Node)]
<1>1. PICK N \in Nat : N = Cardinality(Node)
    BY NodeAssumption, FS_CardinalityType
<1>0. Iteration(at, Link, a, step, N) /\ U \cup {Nil} \subseteq Link
    BY <1>1 DEF Tied, Link
<1>2. ASSUME NEW n \in U
      PROVE  step[n] \in {n, Nil} \/ (step[n] \in U /\ t.parent[step[n]] = n)
    BY DEF Tied, Linked
<1>3. \A i \in 0..N : at[i] \in U \cup {Nil}
    <2>1. \A v \in Link : v \in U \cup {Nil} => step[v] \in U \cup {Nil}
        BY <1>2
    <2> DEFINE P == U \cup {Nil}
    <2> HIDE DEF P
    <2>2. a \in P /\ \A v \in Link : v \in P => step[v] \in P
        BY <2>1 DEF P
    <2>3. \A i \in 0..N : at[i] \in P
        BY ONLY <1>0, <1>1, <2>2, IterationKeeps
    <2> QED
        BY <2>3 DEF P
<1>4. ASSUME step[at[N]] # at[N] PROVE FALSE
    <2>1. \A i \in 0..N : at[i] \in Node /\ step[at[i]] # at[i]
        BY <1>1, <1>4, WalkRepeats
    <2>2. PICK i \in 0..N, j \in 0..N : i < j /\ at[i] = at[j]
        BY <1>1, <1>4, WalkRepeats
    <2>3. \A l \in 1..N : at[l-1] \in U /\ at[l] \in U /\ t.parent[at[l]] = at[l-1]
        <3> SUFFICES ASSUME NEW l \in 1..N
                     PROVE  at[l-1] \in U /\ at[l] \in U /\ t.parent[at[l]] = at[l-1]
            OBVIOUS
        <3>1. l - 1 \in 0..N /\ l \in 0..N /\ at[l] = step[at[l-1]]
            BY <1>0 DEF Iteration
        <3>2. at[l-1] \in U /\ at[l] \in U
            BY <3>1, <2>1, <1>3, NilAssumption
        <3> QED
            BY <3>1, <3>2, <2>1, <1>2, NilAssumption
    <2> DEFINE S == {at[l] : l \in i..j}
    <2>4. S \in SUBSET U /\ S # {}
        <3>1. i \in i..j /\ \A l \in i..j : l \in 0..N
            BY <2>2
        <3>2. \A l \in i..j : at[l] \in U
            BY <3>1, <2>1, <1>3, NilAssumption
        <3> QED
            BY <3>1, <3>2
    <2>5. ASSUME NEW m \in S PROVE t.parent[m] \in S
        <3>1. PICK l \in i..j : m = at[l]
            OBVIOUS
        <3>2. CASE l = i
            BY <3>1, <3>2, <2>2, <2>3
        <3>3. CASE l # i
            <4>1. l \in 1..N /\ l - 1 \in i..j
                BY <3>3
            <4> QED
                BY <3>1, <4>1, <2>3
        <3> QED
            BY <3>2, <3>3
    <2> QED
        BY <2>4, <2>5 DEF Tied, Loopless
<1> QED
    BY <1>1, <1>3, <1>4

\* And so does walking up.
LEMMA WalkUp ==
    ASSUME NEW t, NEW U, Tied(t, U), NEW a \in U \cup {Nil}, NEW step, step[Nil] = Nil,
           \A n \in U : step[n] \in {n, Nil, t.parent[n]},
           NEW at, Iteration(at, Link, a, step, Cardinality(Node))
    PROVE  /\ \A i \in 0..Cardinality(Node) : at[i] \in U \cup {Nil}
           /\ step[at[Cardinality(Node)]] = at[Cardinality(Node)]
<1>1. PICK N \in Nat : N = Cardinality(Node)
    BY NodeAssumption, FS_CardinalityType
<1>0. Iteration(at, Link, a, step, N) /\ U \cup {Nil} \subseteq Link
    BY <1>1 DEF Tied, Link
<1>2. ASSUME NEW n \in U PROVE step[n] \in U \cup {Nil}
    BY DEF Tied, Linked
<1>3. \A i \in 0..N : at[i] \in U \cup {Nil}
    <2>1. \A v \in Link : v \in U \cup {Nil} => step[v] \in U \cup {Nil}
        BY <1>2
    <2> DEFINE P == U \cup {Nil}
    <2> HIDE DEF P
    <2>2. a \in P /\ \A v \in Link : v \in P => step[v] \in P
        BY <2>1 DEF P
    <2>3. \A i \in 0..N : at[i] \in P
        BY ONLY <1>0, <1>1, <2>2, IterationKeeps
    <2> QED
        BY <2>3 DEF P
<1>4. ASSUME step[at[N]] # at[N] PROVE FALSE
    <2>1. \A i \in 0..N : at[i] \in Node /\ step[at[i]] # at[i]
        BY <1>1, <1>4, WalkRepeats
    <2>2. PICK i \in 0..N, j \in 0..N : i < j /\ at[i] = at[j]
        BY <1>1, <1>4, WalkRepeats
    <2>3. \A l \in 1..N : at[l-1] \in U /\ at[l] \in U /\ t.parent[at[l-1]] = at[l]
        <3> SUFFICES ASSUME NEW l \in 1..N
                     PROVE  at[l-1] \in U /\ at[l] \in U /\ t.parent[at[l-1]] = at[l]
            OBVIOUS
        <3>1. l - 1 \in 0..N /\ l \in 0..N /\ at[l] = step[at[l-1]]
            BY <1>0 DEF Iteration
        <3>2. at[l-1] \in U /\ at[l] \in U
            BY <3>1, <2>1, <1>3, NilAssumption
        <3> QED
            BY <3>1, <3>2, <2>1, NilAssumption
    <2> DEFINE S == {at[l] : l \in i..j}
    <2>4. S \in SUBSET U /\ S # {}
        <3>1. i \in i..j /\ \A l \in i..j : l \in 0..N
            BY <2>2
        <3>2. \A l \in i..j : at[l] \in U
            BY <3>1, <2>1, <1>3, NilAssumption
        <3> QED
            BY <3>1, <3>2
    <2>5. ASSUME NEW m \in S PROVE t.parent[m] \in S
        <3>1. PICK l \in i..j : m = at[l]
            OBVIOUS
        <3>2. CASE l = j
            <4>1. i + 1 \in 1..N /\ i + 1 \in i..j
                BY <2>2
            <4>2. t.parent[at[i]] = at[i+1]
                BY <4>1, <2>3
            <4> QED
                BY <3>1, <3>2, <2>2, <4>1, <4>2
        <3>3. CASE l # j
            <4>1. l + 1 \in 1..N /\ l + 1 \in i..j
                BY <3>3
            <4> QED
                BY <3>1, <4>1, <2>3
        <3> QED
            BY <3>2, <3>3
    <2> QED
        BY <2>4, <2>5 DEF Tied, Loopless
<1> QED
    BY <1>1, <1>3, <1>4
-----------------------------------------------------------------------------
(***************************************************************************)
(* The order of the tree.  W tells for every node which keys are those of  *)
(* the nodes from it downwards: all of the tree's for the head, and for a  *)
(* child those of its parent that lie on its side of the parent's key.     *)
(***************************************************************************)
\* Key k comes after key j on the way to side s.
Past(s, j, k) == IF s = "left" THEN j < k ELSE k < j

LEMMA PastOrder ==
    ASSUME NEW s \in Side
    PROVE  /\ \A j \in Int : ~Past(s, j, j)
           /\ \A j, k, l \in Int : Past(s, j, k) /\ Past(s, k, l) => Past(s, j, l)
           /\ \A j, k \in Int : Past(s, j, k) => ~Past(s, k, j) /\ j # k
           /\ \A j, k \in Int : j = k \/ Past(s, j, k) \/ Past(s, k, j)
           /\ \A j, k \in Int : Past(Other(s), j, k) <=> Past(s, k, j)
BY DEF Past, Side, Other

Keys(t, U) == {t.key[n] : n \in U}
Distinct(t, U) == \A m, n \in U : t.key[m] = t.key[n] => m = n
Under(W, c) == IF c = Nil THEN {} ELSE W[c]
Part(t, W, n, s) == {k \in W[n] : Past(s, t.key[n], k)}

Ranges(t, U, W) ==
    /\ W \in [U -> SUBSET Key]
    /\ t.head # Nil => W[t.head] = Keys(t, U)
    /\ \A n \in U : t.key[n] \in W[n]
    /\ \A n \in U, s \in Side : Under(W, t.child[s][n]) = Part(t, W, n, s)

Sorted(t, U) == Distinct(t, U) /\ \E W : Ranges(t, U, W)

\* What the other lemmas use of it.
LEMMA RangeFacts ==
    ASSUME NEW t, NEW U, NEW W, Ranges(t, U, W)
    PROVE  /\ \A n \in U : t.key[n] \in W[n] /\ t.key[n] \in Key /\ t.key[n] \in Int
           /\ \A n \in U : W[n] \in SUBSET Key /\ W[n] \in SUBSET Int
           /\ \A n \in U : \A s \in Side : \A k \in W[n] :
                Past(s, t.key[n], k) =>
                    t.child[s][n] # Nil /\ k \in W[t.child[s][n]]
           /\ \A n \in U : \A s \in Side : t.child[s][n] # Nil =>
                \A k \in W[t.child[s][n]] : k \in W[n] /\ Past(s, t.key[n], k)
           /\ Keys(t, U) \in SUBSET Key /\ Keys(t, U) \in SUBSET Int
<1>1. \A n \in U : t.key[n] \in W[n] /\ W[n] \in SUBSET Key
    BY DEF Ranges
<1>2. ASSUME NEW n \in U, NEW s \in Side
      PROVE  Under(W, t.child[s][n]) = {k \in W[n] : Past(s, t.key[n], k)}
    BY DEF Ranges, Part
<1>3. ASSUME NEW n \in U, NEW s \in Side, NEW k \in W[n], Past(s, t.key[n], k)
      PROVE  t.child[s][n] # Nil /\ k \in W[t.child[s][n]]
    <2>1. k \in Under(W, t.child[s][n])
        BY <1>2, <1>3
    <2> QED
        BY <2>1 DEF Under
<1>4. ASSUME NEW n \in U, NEW s \in Side, t.child[s][n] # Nil, NEW k \in W[t.child[s][n]]
      PROVE  k \in W[n] /\ Past(s, t.key[n], k)
    <2>1. k \in Under(W, t.child[s][n])
        BY <1>4 DEF Under
    <2> QED
        BY <2>1, <1>2
<1>5. Keys(t, U) \subseteq Key
    BY <1>1 DEF Keys
<1> QED
    BY <1>1, <1>3, <1>4, <1>5, KeyAssumption

\* The side a key is sought on is where it lies.
LEMMA TowardIs ==
    ASSUME NEW t, NEW n, NEW k \in Int, t.key[n] \in Int, t.key[n] # k
    PROVE  Toward(t, n, k) \in Side /\ Past(Toward(t, n, k), t.key[n], k)
BY DEF Toward, Side, Past

LEMMA TowardOnly ==
    ASSUME NEW t, NEW n, NEW k \in Int, t.key[n] \in Int, NEW s \in Side,
           Past(s, t.key[n], k)
    PROVE  Toward(t, n, k) = s /\ t.key[n] # k
BY DEF Toward, Side, Past
-----------------------------------------------------------------------------
\* Looking a key up.

DownTo(t, k) == [n \in Link |-> IF n = Nil THEN Nil
                                ELSE IF t.key[n] = k THEN n
                                ELSE t.child[Toward(t, n, k)][n]]

LEMMA DescentIs ==
    ASSUME NEW t \in Tree, NEW k
    PROVE  /\ Iteration(Descent(t, k), Link, t.head, DownTo(t, k), Cardinality(Node))
           /\ DownTo(t, k)[Nil] = Nil
           /\ \A n \in Node : DownTo(t, k)[n] = IF t.key[n] = k THEN n
                                                ELSE t.child[Toward(t, n, k)][n]
<1>1. PICK N \in Nat : N = Cardinality(Node)
    BY NodeAssumption, FS_CardinalityType
<1>2. \A n \in Node : Toward(t, n, k) \in Side
    BY DEF Toward, Side
<1>3. DownTo(t, k) \in [Link -> Link] /\ t.head \in Link
    BY <1>2, TreeFields DEF DownTo, Link
<1>4. PICK below : below = DownTo(t, k)
    OBVIOUS
<1>5. Descent(t, k) = CHOOSE f : f = [i \in 0..N |-> IF i = 0 THEN t.head ELSE below[f[i-1]]]
    BY <1>1, <1>4 DEF Descent, DownTo
<1>6. Iteration(Descent(t, k), Link, t.head, below, N)
    BY <1>3, <1>4, <1>5, Iterated
<1>7. DownTo(t, k)[Nil] = Nil
    BY DEF DownTo, Link
<1>8. \A n \in Node : DownTo(t, k)[n] = IF t.key[n] = k THEN n
                                        ELSE t.child[Toward(t, n, k)][n]
    BY NilAssumption DEF DownTo, Link
<1> QED
    BY <1>1, <1>4, <1>6, <1>7, <1>8

\* The way to a key: it comes to an end, at the key's node or at Nil.
LEMMA DescentEnds ==
    ASSUME NEW t, NEW U, Tied(t, U), NEW k
    PROVE  /\ \A i \in 0..Cardinality(Node) : Descent(t, k)[i] \in U \cup {Nil}
           /\ Find(t, k) = Nil \/ (Find(t, k) \in U /\ t.key[Find(t, k)] = k)
<1>1. PICK N \in Nat : N = Cardinality(Node)
    BY NodeAssumption, FS_CardinalityType
<1>2. PICK at : at = Descent(t, k)
    OBVIOUS
<1>3. PICK step : step = DownTo(t, k)
    OBVIOUS
<1>4. t \in Tree /\ U \subseteq Node /\ t.head \in U \cup {Nil} /\ Nil \notin U
    BY NilAssumption DEF Tied, Linked
<1>5. /\ Iteration(at, Link, t.head, step, N) /\ step[Nil] = Nil
      /\ \A n \in U : step[n] = IF t.key[n] = k THEN n ELSE t.child[Toward(t, n, k)][n]
    BY <1>1, <1>2, <1>3, <1>4, DescentIs
<1>6. \A n \in U : Toward(t, n, k) \in Side
    BY DEF Toward, Side
<1>7. \A n \in U : step[n] \in {n, Nil} \/ \E s \in Side : step[n] = t.child[s][n]
    BY <1>5, <1>6
<1>8. (\A i \in 0..N : at[i] \in U \cup {Nil}) /\ step[at[N]] = at[N]
    BY <1>1, <1>4, <1>5, <1>7, WalkDown
<1>9. Find(t, k) = at[N] /\ at[N] \in U \cup {Nil}
    BY <1>1, <1>2, <1>8 DEF Find
<1>10. ASSUME NEW n \in U, step[n] = n PROVE t.key[n] = k
    <2>1. \A s \in Side : t.child[s][n] # n
        BY <1>4, NoShortLoop DEF Tied, Linked
    <2> QED
        BY <2>1, <1>5, <1>6, <1>10
<1> QED
    BY <1>1, <1>2, <1>8, <1>9, <1>10

\* rq_tree_rb_find finds the node of the key, if there is one.
LEMMA FindTrue ==
    ASSUME NEW t, NEW U, Tied(t, U), Sorted(t, U), NEW k
    PROVE  /\ Find(t, k) \in U => t.key[Find(t, k)] = k
           /\ Find(t, k) \notin U => Find(t, k) = Nil /\ k \notin Keys(t, U)
           /\ \A n \in U : t.key[n] = k => Find(t, k) = n
<1>1. PICK N \in Nat : N = Cardinality(Node)
    BY NodeAssumption, FS_CardinalityType
<1>2. PICK at : at = Descent(t, k)
    OBVIOUS
<1>3. PICK step : step = DownTo(t, k)
    OBVIOUS
<1>4. t \in Tree /\ U \subseteq Node /\ t.head \in U \cup {Nil} /\ Nil \notin U
    BY NilAssumption DEF Tied, Linked
<1>5. /\ Iteration(at, Link, t.head, step, N) /\ step[Nil] = Nil
      /\ \A n \in U : step[n] = IF t.key[n] = k THEN n ELSE t.child[Toward(t, n, k)][n]
    BY <1>1, <1>2, <1>3, <1>4, DescentIs
<1>6. PICK W : Ranges(t, U, W)
    BY DEF Sorted
<1>7. ASSUME k \in Keys(t, U) PROVE Find(t, k) # Nil
    <2>1. t.head \in U /\ k \in W[t.head] /\ k \in Int
        <3>1. t.head # Nil
            BY <1>4, <1>7 DEF Tied, Linked, Keys
        <3> QED
            BY <3>1, <1>4, <1>6, <1>7, RangeFacts DEF Ranges
    <2> DEFINE P == {n \in U : k \in W[n]}
    <2>2. t.head \in P
        BY <2>1
    <2>3. ASSUME NEW v \in Link, v \in P PROVE step[v] \in P
        <3>1. CASE t.key[v] = k
            BY <1>5, <2>3, <3>1
        <3>2. CASE t.key[v] # k
            <4>1. v \in U /\ t.key[v] \in Int /\ k \in W[v]
                BY <1>6, <2>3, RangeFacts
            <4>2. PICK s \in Side : s = Toward(t, v, k) /\ Past(s, t.key[v], k)
                BY <2>1, <3>2, <4>1, TowardIs
            <4>3. step[v] = t.child[s][v] /\ step[v] # Nil /\ k \in W[step[v]]
                BY <1>5, <1>6, <3>2, <4>1, <4>2, RangeFacts
            <4>4. step[v] \in U
                BY <4>1, <4>3 DEF Tied, Linked
            <4> QED
                BY <4>3, <4>4
        <3> QED
            BY <3>1, <3>2
    <2> HIDE DEF P
    <2>4. \A i \in 0..N : at[i] \in P
        BY ONLY <1>1, <1>5, <2>2, <2>3, IterationKeeps, ZenonT(60)
    <2>5. N \in 0..N
        BY <1>1
    <2>6. at[N] \in U
        BY <2>4, <2>5 DEF P
    <2> QED
        BY <2>6, <1>1, <1>2, <1>4 DEF Find
<1>8. Find(t, k) = Nil \/ (Find(t, k) \in U /\ t.key[Find(t, k)] = k)
    BY DescentEnds
<1>9. ASSUME NEW n \in U, t.key[n] = k PROVE Find(t, k) = n
    <2>1. k \in Keys(t, U)
        BY <1>9 DEF Keys
    <2> QED
        BY <2>1, <1>7, <1>8, <1>9 DEF Sorted, Distinct
<1> QED
    BY <1>4, <1>7, <1>8, <1>9

\* A rotation keeps the order: only the ranges of the two nodes that turn change.
LEMMA RotateSorted ==
    ASSUME NEW t \in Tree, NEW U \in SUBSET Node, NEW n \in U, NEW s \in Side,
           Linked(t, U), Loopless(t, U), t.child[Other(s)][n] # Nil, Sorted(t, U)
    PROVE  Sorted(Rotate(t, n, s), U)
<1>o. PICK o : o = t.child[Other(s)][n]
    OBVIOUS
<1>w. PICK w : w = t.child[s][o]
    OBVIOUS
<1>p. PICK p : p = t.parent[n]
    OBVIOUS
<1>r. PICK r : r = Rotate(t, n, s)
    OBVIOUS
<1>z. PICK q : q = SideOf(t, n)
    OBVIOUS
<1>1. /\ r.head = IF p = Nil THEN o ELSE t.head
      /\ \A z \in Side, m \in Node : r.child[z][m] =
            CASE m = n /\ z = Other(s) -> w
              [] m = o /\ z = s -> n
              [] p # Nil /\ m = p /\ z = q -> o
              [] OTHER -> t.child[z][m]
      /\ r.key = t.key
    BY <1>o, <1>w, <1>p, <1>r, <1>z, RotateFields
<1>2. /\ U \subseteq Node /\ Nil \notin U
      /\ o \in U /\ t.parent[o] = n
      /\ w = Nil \/ (w \in U /\ t.parent[w] = o)
      /\ p = Nil \/ (p \in U /\ q \in Side /\ t.child[q][p] = n)
      /\ p = Nil => n = t.head
      /\ p # Nil => n # t.head
    BY <1>o, <1>w, <1>p, <1>z, Sides, NilAssumption DEF Linked, SideOf, Side
<1>3. n # o /\ p # n /\ p # o /\ w # o /\ w # n
    BY <1>2, <1>p, NoShortLoop
<1>W. PICK W : Ranges(t, U, W)
    BY DEF Sorted
<1> DEFINE a == t.key[n]
           b == t.key[o]
           V == [m \in U |-> IF m = o THEN W[n]
                             ELSE IF m = n THEN {k \in W[n] : Past(s, b, k)} ELSE W[m]]
<1>4. /\ a \in W[n] /\ b \in W[o] /\ a \in Int /\ b \in Int /\ W[n] \in SUBSET Int
      /\ b \in W[n] /\ Past(Other(s), a, b) /\ Past(s, b, a)
    <2>1. a \in W[n] /\ b \in W[o] /\ a \in Int /\ b \in Int /\ W[n] \in SUBSET Int
        BY <1>W, <1>2, RangeFacts
    <2>2. b \in W[n] /\ Past(Other(s), a, b)
        <3>1. Other(s) \in Side /\ o # Nil /\ b \in W[o]
            BY <2>1, <1>o, Sides
        <3>2. \A z \in Side : t.child[z][n] # Nil =>
                \A k \in W[t.child[z][n]] : k \in W[n] /\ Past(z, t.key[n], k)
            BY <1>W, RangeFacts
        <3> QED
            BY <3>1, <3>2, <1>o
    <2>3. Past(s, b, a)
        BY <2>1, <2>2, PastOrder
    <2> QED
        BY <2>1, <2>2, <2>3
<1>5. /\ V \in [U -> SUBSET Key] /\ V[o] = W[n] /\ V[n] = {k \in W[n] : Past(s, b, k)}
      /\ \A m \in U : m # o /\ m # n => V[m] = W[m]
    BY <1>W, <1>2, <1>3, RangeFacts
<1> HIDE DEF V
<1>6. Keys(r, U) = Keys(t, U) /\ Distinct(r, U)
    BY <1>1 DEF Keys, Sorted, Distinct
<1>7. r.head # Nil => V[r.head] = Keys(r, U)
    <2>1. CASE p = Nil
        BY <2>1, <1>1, <1>2, <1>5, <1>6, <1>W DEF Ranges
    <2>2. CASE p # Nil
        <3>1. t.head # o /\ t.head # n /\ t.head # Nil /\ t.head \in U
            BY <2>2, <1>2 DEF Linked
        <3> QED
            BY <3>1, <2>2, <1>1, <1>5, <1>6, <1>W DEF Ranges
    <2> QED
        BY <2>1, <2>2
<1>8. \A m \in U : r.key[m] \in V[m]
    BY <1>1, <1>4, <1>5, <1>W, RangeFacts
<1>9. ASSUME NEW m \in U, NEW z \in Side
      PROVE  Under(V, r.child[z][m]) = Part(r, V, m, z)
    <2>0. \A c \in U : \A y \in Side : Under(W, t.child[y][c]) = Part(t, W, c, y)
        BY <1>W DEF Ranges
    <2>1. CASE m = n /\ z = Other(s)
        <3>1. r.child[z][m] = w
            BY <2>1, <1>1, <1>2, <1>3
        <3>2. Under(V, w) = Under(W, w)
            BY <1>2, <1>3, <1>5 DEF Under
        <3>3. Under(W, w) = {k \in W[o] : Past(s, b, k)}
            BY <2>0, <1>2, <1>w DEF Part
        <3>4. W[o] = {k \in W[n] : Past(Other(s), a, k)}
            <4>1. Under(W, o) = Part(t, W, n, Other(s))
                BY <2>0, <1>o, Sides
            <4> QED
                BY <4>1, <1>2 DEF Under, Part
        <3>5. Part(r, V, m, z) = {k \in V[n] : Past(Other(s), a, k)}
            BY <2>1, <1>1 DEF Part
        <3> QED
            BY <3>1, <3>2, <3>3, <3>4, <3>5, <1>5
    <2>2. CASE m = o /\ z = s
        <3>1. r.child[z][m] = n
            BY <2>2, <1>1, <1>2, <1>3
        <3>2. Under(V, n) = {k \in W[n] : Past(s, b, k)}
            BY <1>2, <1>5 DEF Under
        <3>3. Part(r, V, m, z) = {k \in W[n] : Past(s, b, k)}
            BY <2>2, <1>1, <1>5 DEF Part
        <3> QED
            BY <3>1, <3>2, <3>3
    <2>3. CASE p # Nil /\ m = p /\ z = q
        <3>1. r.child[z][m] = o /\ t.child[z][m] = n
            BY <2>3, <1>1, <1>2, <1>3
        <3>2. Under(V, o) = W[n] /\ Under(W, n) = W[n]
            BY <1>2, <1>5 DEF Under
        <3>3. Part(r, V, m, z) = Part(t, W, m, z)
            BY <2>3, <1>1, <1>2, <1>3, <1>5 DEF Part
        <3> QED
            BY <3>1, <3>2, <3>3, <2>0
    <2>4. CASE m = n /\ z = s
        <3>1. r.child[z][m] = t.child[s][n]
            BY <2>4, <1>1, <1>2, <1>3, Sides
        <3>2. t.child[s][n] # n /\ t.child[s][n] # o
            BY <1>2, <1>o, <1>p, Sides, NoShortLoop DEF Linked, Side
        <3>3. t.child[s][n] = Nil \/ t.child[s][n] \in U
            BY DEF Linked
        <3>4. Under(V, t.child[s][n]) = Under(W, t.child[s][n])
            BY <3>2, <3>3, <1>5 DEF Under
        <3>5. Under(W, t.child[s][n]) = {k \in W[n] : Past(s, a, k)}
            BY <2>0 DEF Part
        <3>6. Part(r, V, m, z) = {k \in V[n] : Past(s, a, k)}
            BY <2>4, <1>1 DEF Part
        <3>7. \A k \in W[n] : Past(s, a, k) => Past(s, b, k)
            BY <1>4, PastOrder
        <3> QED
            BY <3>1, <3>4, <3>5, <3>6, <3>7, <1>5
    <2>5. CASE m = o /\ z = Other(s)
        <3> DEFINE v == t.child[Other(s)][o]
        <3>1. r.child[z][m] = v
            BY <2>5, <1>1, <1>2, <1>3, Sides
        <3>2. v # n /\ v # o
            BY <1>2, <1>p, Sides, NoShortLoop DEF Linked
        <3>3. v = Nil \/ v \in U
            BY <1>2, Sides DEF Linked
        <3>4. Under(V, v) = Under(W, v)
            BY <3>2, <3>3, <1>5 DEF Under
        <3>5. Under(W, v) = {k \in W[o] : Past(Other(s), b, k)}
            BY <2>0, <1>2, Sides DEF Part
        <3>6. Part(r, V, m, z) = {k \in W[n] : Past(Other(s), b, k)}
            BY <2>5, <1>1, <1>5 DEF Part
        <3>7. W[o] = {k \in W[n] : Past(Other(s), a, k)}
            <4>1. Under(W, o) = Part(t, W, n, Other(s))
                BY <2>0, <1>o, Sides
            <4> QED
                BY <4>1, <1>2 DEF Under, Part
        <3>8. \A k \in W[n] : Past(Other(s), b, k) => Past(Other(s), a, k)
            BY <1>4, Sides, PastOrder
        <3> HIDE DEF v
        <3> QED
            BY <3>1, <3>4, <3>5, <3>6, <3>7, <3>8
    <2>6. CASE m # n /\ m # o /\ ~(p # Nil /\ m = p /\ z = q)
        <3> DEFINE v == t.child[z][m]
        <3>1. r.child[z][m] = v
            BY <2>6, <1>1, <1>2
        <3>2. v = Nil \/ (v \in U /\ t.parent[v] = m)
            BY DEF Linked
        <3>3. v # o
            BY <3>2, <2>6, <1>2
        <3>4. v # n
            BY <3>2, <2>6, <1>2, <1>p, Sides DEF Linked
        <3>5. Under(V, v) = Under(W, v)
            BY <3>2, <3>3, <3>4, <1>5 DEF Under
        <3>6. Part(r, V, m, z) = Part(t, W, m, z)
            BY <2>6, <1>1, <1>5 DEF Part
        <3> QED
            BY <3>1, <3>5, <3>6, <2>0
    <2> QED
        BY <2>1, <2>2, <2>3, <2>4, <2>5, <2>6, Sides
<1>10. Ranges(r, U, V)
    BY <1>5, <1>7, <1>8, <1>9 DEF Ranges
<1> QED
    BY <1>6, <1>10, <1>r DEF Sorted
-----------------------------------------------------------------------------
\* No nodes have children among them without end.
LEMMA Bottomed ==
    ASSUME NEW t, NEW U, Tied(t, U), NEW S \in SUBSET U,
           \A m \in S : \E s \in Side : t.child[s][m] \in S
    PROVE  S = {}
<1> SUFFICES ASSUME NEW a \in S PROVE FALSE
    OBVIOUS
<1>1. PICK N \in Nat : N = Cardinality(Node)
    BY NodeAssumption, FS_CardinalityType
<1>2. U \subseteq Link /\ Nil \notin U /\ Nil \in Link
    BY NilAssumption DEF Tied, Link
<1> DEFINE step == [m \in Link |-> IF m \in S
                      THEN t.child[CHOOSE s \in Side : t.child[s][m] \in S][m] ELSE Nil]
<1>3. \A m \in S : step[m] \in S /\ \E s \in Side : step[m] = t.child[s][m]
    BY <1>2
<1>4. \A m \in Link \ S : step[m] = Nil
    OBVIOUS
<1>5. step \in [Link -> Link]
    <2>1. \A m \in Link : step[m] \in Link
        BY <1>2, <1>3, <1>4
    <2> QED
        BY <2>1
<1> HIDE DEF step
<1>6. PICK at : Iteration(at, Link, a, step, N)
    BY <1>1, <1>2, <1>5, Iterates
<1>7. step[Nil] = Nil /\ \A m \in U : step[m] \in {m, Nil} \/ \E s \in Side : step[m] = t.child[s][m]
    BY <1>2, <1>3, <1>4
<1>8. step[at[N]] = at[N]
    BY <1>1, <1>6, <1>7, WalkDown
<1>9. \A i \in 0..N : at[i] \in S
    <2>1. a \in S /\ \A m \in Link : m \in S => step[m] \in S
        BY <1>3
    <2> QED
        BY ONLY <1>1, <1>6, <2>1, IterationKeeps
<1>10. at[N] \in S /\ \E s \in Side : at[N] = t.child[s][at[N]]
    BY <1>1, <1>3, <1>8, <1>9
<1>11. t.parent[at[N]] = at[N]
    BY <1>2, <1>10 DEF Tied, Linked
<1> QED
    BY <1>10, <1>11, NoShortLoop DEF Tied

\* A node whose range has the key of n is n or above it.
LEMMA AboveHasAll ==
    ASSUME NEW t, NEW U, Tied(t, U), Distinct(t, U), NEW W, Ranges(t, U, W),
           NEW n \in U, NEW m \in U, t.key[n] \in W[m]
    PROVE  W[n] \subseteq W[m]
<1> DEFINE S == {c \in U : t.key[n] \in W[c] /\ ~(W[n] \subseteq W[c])}
<1>1. ASSUME NEW c \in S PROVE \E s \in Side : t.child[s][c] \in S
    <2>1. c \in U /\ c # n /\ t.key[c] # t.key[n]
        BY DEF Distinct
    <2>2. t.key[c] \in Int /\ t.key[n] \in Int
        BY <2>1, RangeFacts
    <2>3. PICK s \in Side : Past(s, t.key[c], t.key[n])
        BY <2>1, <2>2, TowardIs
    <2>4. t.child[s][c] # Nil /\ t.key[n] \in W[t.child[s][c]]
        BY <2>1, <2>3, RangeFacts
    <2>5. t.child[s][c] \in U
        BY <2>1, <2>4 DEF Tied, Linked
    <2>6. W[t.child[s][c]] \subseteq W[c]
        BY <2>1, <2>4, RangeFacts
    <2> QED
        BY <2>4, <2>5, <2>6
<1>2. S \in SUBSET U
    OBVIOUS
<1> HIDE DEF S
<1>3. S = {}
    BY <1>1, <1>2, Bottomed
<1> QED
    BY <1>3 DEF S

\* The last node on one side has nothing there, and what the children on that side
\* have from their parents.
LEMMA EndWalk ==
    ASSUME NEW t, NEW U, Tied(t, U), NEW c \in U, NEW s \in Side,
           NEW P, c \in P, \A m \in U : m \in P /\ t.child[s][m] # Nil => t.child[s][m] \in P
    PROVE  End(t, c, s) \in U /\ t.child[s][End(t, c, s)] = Nil /\ End(t, c, s) \in P
<1>1. PICK N \in Nat : N = Cardinality(Node)
    BY NodeAssumption, FS_CardinalityType
<1>2. U \subseteq Node /\ U \subseteq Link /\ Nil \notin U /\ Nil \in Link /\ t \in Tree
    BY NilAssumption DEF Tied, Link
<1>3. PICK down : down = [m \in Link |-> IF m = Nil \/ t.child[s][m] = Nil THEN m
                                         ELSE t.child[s][m]]
    OBVIOUS
<1>4. down \in [Link -> Link]
    BY <1>2, <1>3, TreeFields DEF Link
<1>5. PICK at : at = CHOOSE f : f = [i \in 0..N |-> IF i = 0 THEN c ELSE down[f[i-1]]]
    OBVIOUS
<1>6. End(t, c, s) = at[N]
    BY <1>1, <1>3, <1>5 DEF End
<1>7. /\ down[Nil] = Nil
      /\ \A m \in U : down[m] = IF t.child[s][m] = Nil THEN m ELSE t.child[s][m]
    BY <1>2, <1>3
<1>8. Iteration(at, Link, c, down, N)
    BY <1>2, <1>4, <1>5, Iterated
<1>9. down[at[N]] = at[N]
    <2>1. \A m \in U : down[m] \in {m, Nil} \/ \E z \in Side : down[m] = t.child[z][m]
        BY <1>7
    <2> QED
        BY <2>1, <1>1, <1>7, <1>8, WalkDown
<1>10. \A m \in Link : m \in P \cap U => down[m] \in P \cap U
    BY <1>7 DEF Tied, Linked
<1>11. PICK Q : Q = P \cap U
    OBVIOUS
<1>12. at[N] \in Q
    <2>1. c \in Q /\ \A m \in Link : m \in Q => down[m] \in Q
        BY <1>10, <1>11
    <2>2. \A i \in 0..N : at[i] \in Q
        BY <1>8, <2>1, IterationKeeps
    <2> QED
        BY <2>2
<1>13. \A m \in U : t.child[s][m] # m
    BY <1>2, NoShortLoop DEF Tied, Linked
<1> QED
    BY <1>6, <1>7, <1>9, <1>11, <1>12, <1>13

\* The last node on one side below c has the last key there.
LEMMA EndTrue ==
    ASSUME NEW t, NEW U, Tied(t, U), NEW W, Ranges(t, U, W),
           NEW c \in U, NEW s \in Side, NEW e, e = End(t, c, s)
    PROVE  /\ e \in U /\ t.child[s][e] = Nil /\ W[e] \subseteq W[c] /\ t.key[e] \in W[c]
           /\ \A k \in W[c] : k = t.key[e] \/ Past(s, k, t.key[e])
<1> DEFINE P == {m \in U : W[m] \subseteq W[c]
                           /\ \A j \in W[m] : \A k \in W[c] \ W[m] : Past(s, k, j)}
<1>1. c \in P
    OBVIOUS
<1>2. ASSUME NEW m \in P, t.child[s][m] # Nil PROVE t.child[s][m] \in P
    <2>1. PICK d : d = t.child[s][m]
        OBVIOUS
    <2>2. m \in U /\ d \in U
        BY <1>2, <2>1 DEF Tied, Linked
    <2>3. /\ \A k \in W[d] : k \in W[m] /\ Past(s, t.key[m], k)
          /\ \A k \in W[m] : Past(s, t.key[m], k) => k \in W[d]
        BY <1>2, <2>1, <2>2, RangeFacts
    <2>4. W[m] \in SUBSET Int /\ t.key[m] \in Int /\ W[c] \in SUBSET Int
        BY <2>2, RangeFacts
    <2>5. ASSUME NEW j \in W[d], NEW k \in W[c] \ W[d] PROVE Past(s, k, j)
        <3>1. j \in Int /\ k \in Int /\ j \in W[m] /\ Past(s, t.key[m], j)
            BY <2>3, <2>4
        <3>2. CASE k \notin W[m]
            BY <3>1, <3>2
        <3>3. CASE k \in W[m]
            BY <2>3, <2>4, <3>1, <3>3, PastOrder
        <3> QED
            BY <3>2, <3>3
    <2>6. W[d] \subseteq W[c]
        BY <2>3
    <2> QED
        BY <2>1, <2>2, <2>5, <2>6
<1>3. \A m \in U : m \in P /\ t.child[s][m] # Nil => t.child[s][m] \in P
    BY <1>2
<1> HIDE DEF P
<1>4. e \in U /\ t.child[s][e] = Nil /\ e \in P
    BY <1>1, <1>3, EndWalk
<1>5. W[e] \subseteq W[c] /\ \A j \in W[e] : \A k \in W[c] \ W[e] : Past(s, k, j)
    BY <1>4 DEF P
<1>6. /\ t.key[e] \in W[e] /\ t.key[e] \in Int /\ W[e] \in SUBSET Int
      /\ \A k \in W[e] : ~Past(s, t.key[e], k)
    BY <1>4, RangeFacts
<1>7. ASSUME NEW k \in W[c] PROVE k = t.key[e] \/ Past(s, k, t.key[e])
    <2>1. CASE k \in W[e]
        BY <1>6, <2>1, PastOrder
    <2>2. CASE k \notin W[e]
        BY <1>5, <1>6, <2>2
    <2> QED
        BY <2>1, <2>2
<1> QED
    BY <1>4, <1>5, <1>6, <1>7

\* Node y, which has at most the child x, goes in the place of n: it is n itself,
\* or the last node on the left of n's right subtree.
GivesUp(t, n, y, x) ==
    /\ Nil \in {t.child[s][y] : s \in Side}
    /\ x = IF t.child["left"][y] # Nil THEN t.child["left"][y] ELSE t.child["right"][y]
    /\ y = n \/ (t.child["right"][n] # Nil /\ y = End(t, t.child["right"][n], "left"))

\* A key goes out of the order: n takes the key b of y, which is n itself or, of
\* the keys below n on the right, the greatest.
LEMMA UnlinkSorted ==
    ASSUME NEW t, NEW U, Tied(t, U), Sorted(t, U), NEW n \in U, NEW y \in U,
           NEW x, GivesUp(t, n, y, x),
           NEW p, p = t.parent[y], NEW q, q = SideOf(t, y),
           NEW r, r.head = IF p = Nil THEN x ELSE t.head,
           \A z \in Side, m \in Node : r.child[z][m] =
                CASE m = y -> Nil
                  [] p # Nil /\ m = p /\ z = q -> x
                  [] OTHER -> t.child[z][m],
           \A m \in U \ {y} : r.key[m] = IF m = n THEN t.key[y] ELSE t.key[m]
    PROVE  Sorted(r, U \ {y}) /\ Keys(r, U \ {y}) = Keys(t, U) \ {t.key[n]}
<1> SUFFICES ASSUME Nil \in {t.child[s][y] : s \in Side},
                    x = IF t.child["left"][y] # Nil THEN t.child["left"][y]
                                                   ELSE t.child["right"][y],
                    y = n \/ (t.child["right"][n] # Nil
                              /\ y = End(t, t.child["right"][n], "left"))
             PROVE  Sorted(r, U \ {y}) /\ Keys(r, U \ {y}) = Keys(t, U) \ {t.key[n]}
    BY DEF GivesUp
<1>W. PICK W : Ranges(t, U, W)
    BY DEF Sorted
<1>a. PICK a : a = t.key[n]
    OBVIOUS
<1>b. PICK b : b = t.key[y]
    OBVIOUS
<1>T. PICK T : T = U \ {y}
    OBVIOUS
<1>1. /\ U \subseteq Node /\ Nil \notin U
      /\ x = Nil \/ (x \in U /\ t.parent[x] = y)
      /\ \A z \in Side : t.child[z][y] \in {x, Nil}
      /\ \E z \in Side : t.child[z][y] = x
      /\ p = Nil \/ (p \in U /\ q \in Side /\ t.child[q][p] = y)
      /\ (p = Nil) <=> (y = t.head)
  <2>1. U \subseteq Node /\ Nil \notin U /\ Linked(t, U)
      BY NilAssumption DEF Tied
  <2>2. /\ t.child["left"][y] = Nil \/ t.child["right"][y] = Nil
        /\ x = t.child["left"][y] \/ x = t.child["right"][y]
        /\ \A z \in Side : t.child[z][y] \in {x, Nil}
      BY DEF Side
  <2>3. x = Nil \/ (x \in U /\ t.parent[x] = y)
      BY <2>1, <2>2 DEF Linked, Side
  <2>4. \E z \in Side : t.child[z][y] = x
      BY <2>2 DEF Side
  <2>5. IF y = t.head THEN p = Nil ELSE p \in U /\ \E z \in Side : t.child[z][p] = y
      BY <2>1 DEF Linked
  <2>6. p = Nil \/ (q \in Side /\ t.child[q][p] = y)
      BY <2>5 DEF SideOf, Side
  <2> QED
      BY ONLY <2>1, <2>2, <2>3, <2>4, <2>5, <2>6
<1>2. p # y /\ x # y
    BY <1>1, NoShortLoop, SMTT(30) DEF Tied
<1>3. /\ a \in Int /\ b \in Int /\ a \in W[n] /\ b \in W[y]
      /\ \A m \in U : W[m] \in SUBSET Int /\ W[m] \in SUBSET Key /\ t.key[m] \in Int
      /\ \A m \in U : t.key[m] \in W[m]
    BY <1>W, <1>a, <1>b, RangeFacts
<1>4. /\ \A m \in U : m # n => t.key[m] # a
      /\ \A m \in U : m # y => t.key[m] # b
      /\ a = b => y = n
    BY <1>a, <1>b DEF Sorted, Distinct

\* The parts of a range, by their sides.
<1>5. \A m \in U, z \in Side : \A k : k \in Under(W, t.child[z][m]) <=>
                                k \in W[m] /\ Past(z, t.key[m], k)
    BY <1>W DEF Ranges, Part

\* Nothing lies between the two keys, and y has not the one that goes.
<1>6. y # n => /\ a \notin W[y] /\ b \in W[n] /\ b < a
               /\ \A k \in W[n] : k = a \/ k = b \/ a < k \/ k < b
    <2> SUFFICES ASSUME y # n
                 PROVE  /\ a \notin W[y] /\ b \in W[n] /\ b < a
                        /\ \A k \in W[n] : k = a \/ k = b \/ a < k \/ k < b
        OBVIOUS
    <2>1. PICK c : c = t.child["right"][n]
        OBVIOUS
    <2>2. c \in U /\ c # Nil /\ "right" \in Side /\ "left" \in Side
        BY <2>1, <1>1 DEF Tied, Linked, Side
    <2>3. /\ W[y] \subseteq W[c] /\ b \in W[c]
          /\ \A k \in W[c] : k = b \/ Past("left", k, b)
        BY <1>W, <1>b, <2>1, <2>2, EndTrue
    <2>4. \A k : k \in W[c] <=> k \in W[n] /\ Past("right", a, k)
        BY <1>5, <1>a, <2>1, <2>2 DEF Under
    <2>5. \A k \in Int : Past("right", a, k) <=> k < a
        BY DEF Past
    <2>6. \A k \in Int : Past("left", k, b) <=> k < b
        BY DEF Past
    <2>7. W[c] \in SUBSET Int /\ W[n] \in SUBSET Int
        BY <1>3, <2>2
    <2>8. a \notin W[c]
        BY <1>3, <2>4, <2>5
    <2>9. b \in W[n] /\ b < a
        BY <1>3, <2>3, <2>4, <2>5
    <2>10. ASSUME NEW k \in W[n] PROVE k = a \/ k = b \/ a < k \/ k < b
        <3>1. k \in Int
            BY <2>7
        <3>2. k < a => k \in W[c]
            BY <2>4, <2>5, <3>1
        <3>3. k \in W[c] => k = b \/ k < b
            BY <2>3, <2>6, <3>1
        <3> QED
            BY <1>3, <3>1, <3>2, <3>3
    <2> QED
        BY <2>3, <2>8, <2>9, <2>10

\* Above n, the two keys lie on the same side.
<1>7. ASSUME NEW m \in U, m # n, a \in W[m], NEW z \in Side
      PROVE  Past(z, t.key[m], a) => Past(z, t.key[m], b)
    <2> SUFFICES ASSUME Past(z, t.key[m], a) PROVE Past(z, t.key[m], b)
        OBVIOUS
    <2>1. PICK c : c = t.child[z][m]
        OBVIOUS
    <2>2. a \in Under(W, c)
        BY <1>5, <1>7, <2>1
    <2>3. c \in U /\ a \in W[c]
        BY <2>1, <2>2 DEF Under, Tied, Linked
    <2>4. W[n] \subseteq W[c]
        BY <1>W, <1>a, <2>3, AboveHasAll DEF Sorted
    <2>5. b \in W[c]
        BY <1>3, <1>6, <2>4
    <2> QED
        BY <1>5, <2>1, <2>3, <2>5, <1>1 DEF Under

\* y's child takes y's range, but for its key.
<1>8. \A k : k \in Under(W, x) <=> k \in W[y] /\ k # b
    <2>1. ASSUME NEW k \in W[y], k # b PROVE k \in Under(W, x)
        <3>1. PICK z \in Side : Past(z, t.key[y], k)
            BY <1>3, <1>b, <2>1, PastOrder, TowardIs
        <3>2. k \in Under(W, t.child[z][y])
            BY <1>5, <3>1
        <3> QED
            BY <1>1, <3>2 DEF Under
    <2>2. ASSUME NEW k \in Under(W, x) PROVE k \in W[y] /\ k # b
        <3>1. PICK z \in Side : t.child[z][y] = x
            BY <1>1
        <3>2. k \in W[y] /\ Past(z, b, k)
            BY <1>5, <1>b, <2>2, <3>1
        <3> QED
            BY <1>3, <3>2, PastOrder
    <2> QED
        BY <2>1, <2>2
<1> DEFINE V == [m \in T |-> IF a \in W[m] THEN W[m] \ {a} ELSE W[m] \ {b}]
<1>9. /\ V \in [T -> SUBSET Key]
      /\ \A m \in T : V[m] = IF a \in W[m] THEN W[m] \ {a} ELSE W[m] \ {b}
    BY <1>3, <1>T
<1> HIDE DEF V
<1>10. \A k : k \in Under(V, x) <=> k \in W[y] /\ k # b
    <2>1. CASE x = Nil
        BY <1>8, <2>1 DEF Under
    <2>2. CASE x # Nil
        <3>1. x \in T /\ x \in U
            BY <1>1, <1>2, <1>T, <2>2
        <3>2. a \notin W[x]
            BY <1>6, <1>8, <1>a, <1>b, <2>2, <1>3 DEF Under
        <3>3. V[x] = W[x] \ {b}
            BY <1>9, <3>1, <3>2
        <3> QED
            BY <1>8, <2>2, <3>3 DEF Under
    <2> QED
        BY <2>1, <2>2
<1>11. Keys(r, T) = Keys(t, U) \ {a}
    <2>1. ASSUME NEW m \in T PROVE r.key[m] \in Keys(t, U) \ {a}
        <3>1. CASE m = n
            BY <1>4, <1>T, <1>a, <1>b, <2>1, <3>1 DEF Keys
        <3>2. CASE m # n
            BY <1>4, <1>T, <2>1, <3>2 DEF Keys
        <3> QED
            BY <3>1, <3>2
    <2>2. ASSUME NEW k \in Keys(t, U) \ {a} PROVE \E m \in T : k = r.key[m]
        <3>1. PICK m \in U : k = t.key[m]
            BY DEF Keys
        <3>2. m # n
            BY <2>2, <3>1, <1>a
        <3>3. CASE m = y
            BY <1>T, <1>b, <3>1, <3>2, <3>3
        <3>4. CASE m # y
            BY <1>T, <3>1, <3>2, <3>4
        <3> QED
            BY <3>3, <3>4
    <2> QED
        BY <2>1, <2>2 DEF Keys
<1>12. Distinct(r, T)
    BY <1>4, <1>T, <1>b DEF Distinct, Sorted
<1>13. r.head # Nil => V[r.head] = Keys(r, T)
    <2>1. t.head \in U /\ t.head # Nil /\ W[t.head] = Keys(t, U) /\ a \in W[t.head]
      <3>1. t.head \in U
          BY ONLY Tied(t, U), n \in U DEF Tied, Linked
      <3>2. t.head # Nil
          BY ONLY <3>1, <1>1
      <3>3. W[t.head] = Keys(t, U)
          BY ONLY <3>2, <1>W DEF Ranges
      <3>4. a \in Keys(t, U)
          BY ONLY <1>a, n \in U DEF Keys
      <3> QED
          BY ONLY <3>1, <3>2, <3>3, <3>4
    <2>2. CASE p = Nil
        <3>1. y = t.head /\ a = b
            BY <1>1, <1>6, <2>1, <2>2, <1>a, <1>b
        <3>2. r.head = x
            BY <2>2
        <3>3. x # Nil => \A k : k \in V[x] <=> k \in Keys(t, U) /\ k # a
            BY <1>10, <2>1, <3>1 DEF Under
        <3> QED
            BY <1>11, <3>2, <3>3
    <2>3. CASE p # Nil
        <3>1. r.head = t.head /\ t.head \in T
            BY <1>1, <1>T, <2>1, <2>3
        <3> QED
            BY <1>9, <1>11, <2>1, <3>1
    <2> QED
        BY <2>2, <2>3
<1>14. ASSUME NEW m \in T PROVE r.key[m] \in V[m]
    <2>1. m \in U /\ m # y
        BY <1>T
    <2>2. CASE m = n
        BY <1>3, <1>4, <1>6, <1>9, <1>T, <1>b, <2>1, <2>2
    <2>3. CASE m # n
        BY <1>3, <1>4, <1>9, <1>T, <2>1, <2>3
    <2> QED
        BY <2>2, <2>3
<1>15. ASSUME NEW m \in T, NEW z \in Side, NEW k
       PROVE  k \in Under(V, r.child[z][m]) <=> k \in V[m] /\ Past(z, r.key[m], k)
    <2>1. m \in U /\ m # y /\ m \in Node
        BY <1>T, <1>1
    <2>2. PICK c : c = t.child[z][m]
        OBVIOUS
    <2>3. c = Nil \/ (c \in U /\ t.parent[c] = m)
        BY <2>1, <2>2 DEF Tied, Linked
    <2>4. r.child[z][m] = IF c = y THEN x ELSE c
        <3>1. c = y => p # Nil /\ m = p /\ z = q
            <4> SUFFICES ASSUME c = y PROVE p # Nil /\ m = p /\ z = q
                OBVIOUS
            <4>1. m = p /\ p # Nil
                BY <2>1, <2>3, <1>1
            <4>2. t.child[z][m] = y /\ t.child[q][m] = y /\ q \in Side /\ y # Nil
                BY <2>2, <4>1, <1>1
            <4>3. t.child["left"][m] # t.child["right"][m] \/ t.child["left"][m] = Nil
                BY <2>1 DEF Tied, Linked
            <4> QED
                BY <4>1, <4>2, <4>3, Sides
        <3>2. p # Nil /\ m = p /\ z = q => c = y
            BY <1>1, <2>2
        <3> QED
            BY <2>1, <2>2, <3>1, <3>2
    <2>5. k \in Under(W, c) <=> k \in W[m] /\ Past(z, t.key[m], k)
        BY <1>5, <2>1, <2>2
    \* What the child has now.
    <2>7. CASE c = Nil
        <3>1. k \notin Under(V, r.child[z][m])
            BY <2>4, <2>7, <1>1 DEF Under
        <3>2. ~(k \in W[m] /\ Past(z, t.key[m], k))
            BY <2>5, <2>7 DEF Under
        <3>3. CASE m # n
            BY <1>9, <1>T, <2>1, <3>1, <3>2, <3>3
        <3>4. CASE m = n
            <4>1. r.key[m] = b /\ t.key[m] = a /\ y # n /\ V[m] = W[m] \ {a}
                BY <1>3, <1>9, <1>T, <1>a, <1>b, <2>1, <3>4
            <4>2. ASSUME k \in V[m], Past(z, b, k) PROVE FALSE
                <5>1. k \in W[n] /\ k # a /\ k \in Int
                    BY <1>3, <4>1, <4>2, <3>4
                <5>2. k # b
                    BY <1>3, <4>2, PastOrder
                <5>3. a < k \/ k < b
                    BY <1>6, <4>1, <5>1, <5>2
                <5>4. Past(z, a, k)
                    BY <1>3, <1>6, <4>1, <4>2, <5>1, <5>3 DEF Past
                <5> QED
                    BY <3>2, <3>4, <4>1, <5>1, <5>4
            <4> QED
                BY <3>1, <4>1, <4>2
        <3> QED
            BY <3>3, <3>4
    <2>8. CASE c # Nil /\ m = n
        <3>1. r.key[m] = b /\ t.key[m] = a /\ y # n /\ V[m] = W[m] \ {a}
            BY <1>3, <1>9, <1>T, <1>a, <1>b, <2>1, <2>8
        <3>2. ASSUME k \in W[m] PROVE k # a /\ Past(z, b, k) <=> Past(z, a, k) /\ k # b
            <4>1. k \in Int /\ (k = a \/ k = b \/ a < k \/ k < b) /\ b < a
                BY <1>3, <1>6, <2>8, <3>1, <3>2
            <4> QED
                BY <1>3, <4>1 DEF Past
        <3>3. k \in V[m] /\ Past(z, r.key[m], k) <=> k \in Under(W, c) /\ k # b
            BY <2>5, <3>1, <3>2
        <3>4. CASE c = y
            BY <1>10, <2>4, <2>8, <3>3, <3>4 DEF Under
        <3>5. CASE c # y
            <4>1. c \in T /\ a \notin W[c]
                <5>1. c \in T
                    BY <1>T, <2>3, <2>8, <3>5
                <5>2. a \in W[c] => Past(z, a, a)
                    BY <1>5, <2>1, <2>2, <2>8, <3>1 DEF Under
                <5> QED
                    BY <1>3, <5>1, <5>2, PastOrder
            <4>2. V[c] = W[c] \ {b}
                BY <1>9, <4>1
            <4> QED
                BY <2>4, <2>8, <3>3, <3>5, <4>2 DEF Under
        <3> QED
            BY <3>4, <3>5
    <2>9. CASE c # Nil /\ m # n /\ a \notin W[m]
        <3>1. r.key[m] = t.key[m] /\ V[m] = W[m] \ {b}
            BY <1>9, <1>T, <2>1, <2>9
        <3>2. k \in V[m] /\ Past(z, r.key[m], k) <=> k \in Under(W, c) /\ k # b
            BY <2>5, <3>1
        <3>3. CASE c = y
            BY <1>10, <2>4, <2>9, <3>2, <3>3 DEF Under
        <3>4. CASE c # y
            <4>1. c \in T /\ a \notin W[c]
                BY <1>5, <1>T, <2>1, <2>2, <2>3, <2>9, <3>4 DEF Under
            <4>2. V[c] = W[c] \ {b}
                BY <1>9, <4>1
            <4> QED
                BY <2>4, <2>9, <3>2, <3>4, <4>2 DEF Under
        <3> QED
            BY <3>3, <3>4
    <2>10. CASE c # Nil /\ m # n /\ a \in W[m]
        <3>1. r.key[m] = t.key[m] /\ V[m] = W[m] \ {a} /\ t.key[m] \in Int /\ t.key[m] # a
            BY <1>3, <1>4, <1>9, <1>T, <2>1, <2>10
        <3>2. k \in V[m] /\ Past(z, r.key[m], k) <=> k \in Under(W, c) /\ k # a
            BY <2>5, <3>1
        <3>3. Past(z, t.key[m], a) => Past(z, t.key[m], b)
            BY <1>7, <2>1, <2>10
        <3>4. Past(z, t.key[m], b) => Past(z, t.key[m], a)
            <4>1. Past(Other(z), t.key[m], a) => Past(Other(z), t.key[m], b)
                BY <1>7, <2>1, <2>10, Sides
            <4> QED
                BY <4>1, <1>3, <3>1, PastOrder
        <3>5. CASE c = y
            <4>1. b \in W[c] /\ b \in Under(W, c)
                BY <1>3, <2>10, <3>5 DEF Under
            <4>2. Past(z, t.key[m], b)
                BY <4>1, <1>5, <2>1, <2>2
            <4>3. a \in W[y]
                <5>1. a \in Under(W, t.child[z][m])
                    BY <1>5, <2>1, <2>10, <3>4, <4>2
                <5> QED
                    BY <5>1, <2>2, <2>10, <3>5 DEF Under
            <4>4. a = b
                BY <1>6, <1>a, <1>b, <4>3
            <4> QED
                BY <1>10, <2>4, <2>10, <3>2, <3>5, <4>4 DEF Under
        <3>6. CASE c # y
            <4>1. c \in T
                BY <1>T, <2>3, <2>10, <3>6
            <4>2. CASE a \in W[c]
                BY <1>9, <2>4, <2>10, <3>2, <3>6, <4>1, <4>2 DEF Under
            <4>3. CASE a \notin W[c]
                <5>1. ~Past(z, t.key[m], a)
                    BY <1>5, <2>1, <2>2, <2>10, <4>3 DEF Under
                <5>2. b \notin W[c]
                    BY <1>5, <2>1, <2>2, <2>10, <3>4, <5>1 DEF Under
                <5>3. V[c] = W[c] \ {b}
                    BY <1>9, <4>1, <4>3
                <5>4. k \in V[c] <=> k \in W[c] /\ k # a
                    BY <4>3, <5>2, <5>3
                <5> QED
                    BY <2>4, <2>10, <3>2, <3>6, <5>4 DEF Under
            <4> QED
                BY <4>2, <4>3
        <3> QED
            BY <3>5, <3>6
    <2> QED
        BY <2>7, <2>8, <2>9, <2>10
<1>16. ASSUME NEW m \in T, NEW z \in Side PROVE Under(V, r.child[z][m]) = Part(r, V, m, z)
    BY <1>15 DEF Part
<1>17. Ranges(r, T, V)
    BY <1>9, <1>13, <1>14, <1>16 DEF Ranges
<1> QED
    BY <1>11, <1>12, <1>17, <1>T, <1>a DEF Sorted

\* The way to a key that is not there: one node after the other, down to p.
LEMMA PathFacts ==
    ASSUME NEW t, NEW U, Tied(t, U), NEW k, k \notin Keys(t, U), NEW p \in U,
           OnPath(t, k, p), t.child[Toward(t, p, k)][p] = Nil
    PROVE  /\ OnPath(t, k, t.head)
           /\ \A m \in U : OnPath(t, k, m) /\ m # p =>
                /\ t.child[Toward(t, m, k)][m] \in U
                /\ OnPath(t, k, t.child[Toward(t, m, k)][m])
           /\ \A m \in U, z \in Side : t.child[z][m] # Nil /\ OnPath(t, k, t.child[z][m]) =>
                OnPath(t, k, m) /\ z = Toward(t, m, k)
<1>1. PICK N \in Nat : N = Cardinality(Node)
    BY NodeAssumption, FS_CardinalityType
<1>2. PICK at : at = Descent(t, k)
    OBVIOUS
<1>3. PICK step : step = DownTo(t, k)
    OBVIOUS
<1>4. t \in Tree /\ U \subseteq Node /\ t.head \in U \cup {Nil} /\ Nil \notin U
    BY NilAssumption DEF Tied, Linked
<1>5. Iteration(at, Link, t.head, step, N) /\ step[Nil] = Nil
    BY <1>1, <1>2, <1>3, <1>4, DescentIs
<1>6. \A m \in U : step[m] = t.child[Toward(t, m, k)][m] /\ Toward(t, m, k) \in Side
    <2>1. \A m \in U : t.key[m] # k
        BY DEF Keys
    <2>2. \A m \in U : step[m] = t.child[Toward(t, m, k)][m]
        BY <1>2, <1>3, <1>4, <2>1, DescentIs
    <2> QED
        BY <2>2 DEF Toward, Side
<1>7. at[0] = t.head /\ \A i \in 1..N : at[i] = step[at[i-1]]
    BY <1>5 DEF Iteration
<1>8. (\A i \in 0..N : at[i] \in U \cup {Nil}) /\ at[N] = Nil
    <2>1. \A i \in 0..N : at[i] \in U \cup {Nil}
        BY <1>1, <1>2, DescentEnds
    <2>2. Find(t, k) = Nil
        BY DescentEnds DEF Keys
    <2> QED
        BY <1>1, <1>2, <2>1, <2>2 DEF Find
<1>9. \A m : OnPath(t, k, m) <=> \E i \in 0..N : at[i] = m
    BY <1>1, <1>2 DEF OnPath
<1>10. OnPath(t, k, t.head)
    BY <1>1, <1>7, <1>9
<1>11. ASSUME NEW i \in 0..N, NEW j \in 0..N, i < j, at[i] \in U, step[at[i]] = Nil
       PROVE  at[j] = Nil
    <2>1. i + 1 \in 1..N /\ i + 1 \in 0..N /\ j \in (i+1)..N
        BY <1>11
    <2>2. at[i+1] = Nil
        BY <1>7, <1>11, <2>1
    <2>3. \A l \in (i+1)..N : at[l] = at[i+1]
        <3>1. step[at[i+1]] = at[i+1]
            BY <1>5, <2>2
        <3>2. PICK h \in 0..N : h = i + 1
            BY <2>1
        <3>3. step[at[h]] = at[h]
            BY <3>1, <3>2
        <3>4. \A l \in h..N : at[l] = at[h]
            BY ONLY <1>1, <1>5, <3>3, IterationStays, SMTT(30)
        <3> QED
            BY <3>2, <3>4
    <2> QED
        BY <2>1, <2>2, <2>3
<1>12. ASSUME NEW m \in U, OnPath(t, k, m), m # p
       PROVE  /\ t.child[Toward(t, m, k)][m] \in U
              /\ OnPath(t, k, t.child[Toward(t, m, k)][m])
    <2>1. PICK i \in 0..N : at[i] = m
        BY <1>9, <1>12
    <2>2. PICK j \in 0..N : at[j] = p
        BY <1>9
    <2>3. i < N /\ i + 1 \in 1..N /\ i + 1 \in 0..N
        BY <1>1, <1>4, <1>8, <2>1
    <2>4. at[i+1] = t.child[Toward(t, m, k)][m]
        BY <1>6, <1>7, <2>1, <2>3
    <2>5. step[p] = Nil /\ step[m] = t.child[Toward(t, m, k)][m]
        BY <1>6
    <2>6. step[m] # Nil
        BY <1>4, <1>11, <1>12, <2>1, <2>2, <2>5
    <2>7. at[i+1] \in U
        BY <1>8, <2>3, <2>4, <2>5, <2>6
    <2> QED
        BY <1>9, <2>3, <2>4, <2>7
<1>13. ASSUME NEW m \in U, NEW z \in Side, t.child[z][m] # Nil, OnPath(t, k, t.child[z][m])
       PROVE  OnPath(t, k, m) /\ z = Toward(t, m, k)
    <2>1. PICK c : c = t.child[z][m]
        OBVIOUS
    <2>2. c \in U /\ t.parent[c] = m /\ c # t.head
        BY <1>4, <1>13, <2>1 DEF Tied, Linked
    <2>3. PICK i \in 0..N : at[i] = c
        BY <1>9, <1>13, <2>1
    <2>4. i \in 1..N /\ i - 1 \in 0..N
        BY <1>7, <2>2, <2>3
    <2>5. c = step[at[i-1]] /\ at[i-1] \in U
        BY <1>4, <1>5, <1>7, <1>8, <2>2, <2>3, <2>4
    <2>6. c = t.child[Toward(t, at[i-1], k)][at[i-1]] /\ Toward(t, at[i-1], k) \in Side
        BY <1>6, <2>5
    <2>7. at[i-1] = m
        <3>1. PICK h \in U, y \in Side : h = at[i-1] /\ t.child[y][h] = c
            BY <2>5, <2>6
        <3>2. t.parent[c] = h
            BY <1>4, <2>2, <3>1 DEF Tied, Linked
        <3> QED
            BY <2>2, <3>1, <3>2
    <2>8. z = Toward(t, m, k)
        <3>1. t.child["left"][m] # t.child["right"][m] \/ t.child["left"][m] = Nil
            BY DEF Tied, Linked
        <3> QED
            BY <1>4, <2>1, <2>2, <2>6, <2>7, <3>1, Sides
    <2> QED
        BY <1>9, <2>4, <2>7, <2>8
<1> QED
    BY <1>10, <1>12, <1>13

\* A key comes into the order: the nodes on the way to it have it in their ranges.
LEMMA AddSorted ==
    ASSUME NEW t, NEW U, Tied(t, U), Sorted(t, U), NEW k \in Key, k \notin Keys(t, U),
           NEW p \in U, OnPath(t, k, p), NEW s, s = Toward(t, p, k), t.child[s][p] = Nil,
           NEW n \in Node \ U,
           NEW r, r.head = t.head,
           \A z \in Side, m \in Node : r.child[z][m] = IF z = s /\ m = p THEN n ELSE t.child[z][m],
           \A m \in Node : r.key[m] = IF m = n THEN k ELSE t.key[m]
    PROVE  Sorted(r, U \cup {n}) /\ Keys(r, U \cup {n}) = Keys(t, U) \cup {k}
<1>W. PICK W : Ranges(t, U, W)
    BY DEF Sorted
<1>T. PICK T : T = U \cup {n}
    OBVIOUS
<1>P. PICK P : P = {m \in U : OnPath(t, k, m)}
    OBVIOUS
<1>1. /\ U \subseteq Node /\ Nil \notin U /\ n # Nil /\ k \in Int /\ t.head \in U
      /\ \A z \in Side : t.child[z][n] = Nil
      /\ \A m \in U, z \in Side : t.child[z][m] # Nil => t.child[z][m] \in U
    BY KeyAssumption, NilAssumption DEF Tied, Linked, Blank
<1>2. /\ \A m \in U : W[m] \in SUBSET Key /\ t.key[m] \in Int /\ t.key[m] \in W[m]
      /\ \A m \in U : t.key[m] # k
    BY <1>W, RangeFacts DEF Keys
<1>3. /\ t.head \in P
      /\ \A m \in P : m # p => t.child[Toward(t, m, k)][m] \in P
      /\ \A m \in U, z \in Side : t.child[z][m] \in P => m \in P /\ z = Toward(t, m, k)
    BY <1>1, <1>P, PathFacts
<1>4. \A m \in U, z \in Side : Past(z, t.key[m], k) <=> z = Toward(t, m, k)
    BY <1>1, <1>2, TowardIs, TowardOnly
<1>5. \A m \in U, z \in Side : Under(W, t.child[z][m]) = Part(t, W, m, z)
    BY <1>W DEF Ranges
<1> DEFINE V == [m \in T |-> IF m = n THEN {k} ELSE IF m \in P THEN W[m] \cup {k} ELSE W[m]]
<1>6. /\ V \in [T -> SUBSET Key] /\ V[n] = {k}
      /\ \A m \in U : V[m] = IF m \in P THEN W[m] \cup {k} ELSE W[m]
    BY <1>2, <1>T
<1> HIDE DEF V
<1>7. Keys(r, T) = Keys(t, U) \cup {k}
    <2>1. ASSUME NEW m \in T PROVE r.key[m] \in Keys(t, U) \cup {k}
        BY <1>1, <1>T DEF Keys
    <2>2. ASSUME NEW j \in Keys(t, U) \cup {k} PROVE \E m \in T : j = r.key[m]
        BY <1>1, <1>T DEF Keys
    <2> QED
        BY <2>1, <2>2 DEF Keys
<1>8. Distinct(r, T)
    BY <1>1, <1>2, <1>T DEF Distinct, Sorted
<1>9. r.head # Nil => V[r.head] = Keys(r, T)
    <2>1. W[t.head] = Keys(t, U)
        BY <1>W, <1>1 DEF Ranges
    <2> QED
        BY <1>1, <1>3, <1>6, <1>7, <2>1
<1>10. \A m \in T : r.key[m] \in V[m]
    BY <1>1, <1>2, <1>6, <1>T
<1>11. ASSUME NEW m \in T, NEW z \in Side
       PROVE  Under(V, r.child[z][m]) = {j \in V[m] : Past(z, r.key[m], j)}
    <2>1. CASE m = n
        <3>1. r.child[z][m] = Nil /\ r.key[m] = k /\ V[m] = {k}
            BY <1>1, <1>6, <2>1
        <3>2. ~Past(z, k, k)
            BY <1>1, PastOrder
        <3> QED
            BY <3>1, <3>2 DEF Under
    <2>2. CASE m # n
        <3>1. m \in U /\ m \in Node /\ r.key[m] = t.key[m]
            BY <1>1, <1>T, <2>2
        <3>2. Under(W, t.child[z][m]) = {j \in W[m] : Past(z, t.key[m], j)}
            BY <1>5, <3>1 DEF Part
        <3>3. CASE m = p /\ z = s
            <4>1. r.child[z][m] = n /\ t.child[z][m] = Nil /\ Under(V, n) = {k}
                BY <1>1, <1>6, <3>1, <3>3 DEF Under
            <4>2. V[m] = W[m] \cup {k} /\ Past(z, t.key[m], k)
                BY <1>4, <1>6, <1>P, <3>1, <3>3
            <4>3. {j \in W[m] : Past(z, t.key[m], j)} = {}
                BY <3>2, <4>1 DEF Under
            <4> QED
                BY <3>1, <4>1, <4>2, <4>3
        <3>4. CASE ~(m = p /\ z = s) /\ m \in P /\ z = Toward(t, m, k)
            <4>1. PICK c : c = t.child[z][m]
                OBVIOUS
            <4>2. c \in P /\ c \in U /\ c # Nil /\ r.child[z][m] = c
                BY <1>1, <1>3, <1>P, <3>1, <3>4, <4>1
            <4>3. Under(V, c) = W[c] \cup {k} /\ Under(W, c) = W[c]
                BY <1>6, <4>2 DEF Under
            <4>4. V[m] = W[m] \cup {k} /\ Past(z, t.key[m], k)
                BY <1>4, <1>6, <3>1, <3>4
            <4> QED
                BY <3>1, <3>2, <4>1, <4>2, <4>3, <4>4
        <3>5. CASE ~(m = p /\ z = s) /\ ~(m \in P /\ z = Toward(t, m, k))
            <4>1. PICK c : c = t.child[z][m]
                OBVIOUS
            <4>2. c \notin P /\ (c = Nil \/ c \in U) /\ r.child[z][m] = c
                BY <1>1, <1>3, <3>1, <3>5, <4>1
            <4>3. Under(V, c) = Under(W, c)
                BY <1>6, <4>2 DEF Under
            <4>4. \A j : j \in V[m] /\ Past(z, t.key[m], j) <=> j \in W[m] /\ Past(z, t.key[m], j)
                <5>1. CASE m \in P
                    <6>1. z # Toward(t, m, k) /\ V[m] = W[m] \cup {k}
                        BY <1>4, <1>6, <1>P, <3>1, <3>5, <5>1
                    <6>2. ~Past(z, t.key[m], k)
                        BY <1>4, <3>1, <6>1
                    <6> QED
                        BY <6>1, <6>2
                <5>2. CASE m \notin P
                    BY <1>6, <3>1, <5>2
                <5> QED
                    BY <5>1, <5>2
            <4> QED
                BY <3>1, <3>2, <4>1, <4>2, <4>3, <4>4
        <3> QED
            BY <3>3, <3>4, <3>5
    <2> QED
        BY <2>1, <2>2
<1>12. Ranges(r, T, V)
    BY <1>6, <1>9, <1>10, <1>11 DEF Ranges, Part
<1> QED
    BY <1>7, <1>8, <1>12, <1>T DEF Sorted
-----------------------------------------------------------------------------
\* Colours are not links.
LEMMA Painted ==
    ASSUME NEW t \in Tree, NEW c \in [Node -> BOOLEAN], NEW U
    PROVE  LET r == [t EXCEPT !.red = c] IN
           /\ r \in Tree
           /\ r.head = t.head /\ r.child = t.child /\ r.parent = t.parent
           /\ r.size = t.size /\ r.key = t.key /\ r.red = c
           /\ Linked(r, U) <=> Linked(t, U)
           /\ Loopless(r, U) <=> Loopless(t, U)
<1> DEFINE r == [t EXCEPT !.red = c]
<1>1. r \in Tree
    BY DEF Tree
<1>2. /\ r.head = t.head /\ r.child = t.child /\ r.parent = t.parent
      /\ r.size = t.size /\ r.key = t.key /\ r.red = c
    BY DEF Tree
<1>3. Linked(r, U) <=> Linked(t, U)
    BY <1>2 DEF Linked
<1>4. Loopless(r, U) <=> Loopless(t, U)
    BY <1>2 DEF Loopless
<1> QED
    BY <1>1, <1>2, <1>3, <1>4

\* t and r are the same but for the colours and the data.
SameLinks(t, r) ==
    /\ r \in Tree
    /\ r.head = t.head /\ r.child = t.child /\ r.parent = t.parent /\ r.size = t.size
    /\ r.key = t.key

LEMMA SameLinked ==
    ASSUME NEW t, NEW r, SameLinks(t, r), NEW U
    PROVE  /\ Linked(t, U) => Linked(r, U)
           /\ Loopless(t, U) => Loopless(r, U)
           /\ Sorted(t, U) => Sorted(r, U)
<1>1. (Linked(t, U) => Linked(r, U)) /\ (Loopless(t, U) => Loopless(r, U))
    BY DEF SameLinks, Linked, Loopless
<1>2. \A W : Ranges(t, U, W) => Ranges(r, U, W)
    BY DEF SameLinks, Ranges, Part, Keys
<1>3. Distinct(t, U) => Distinct(r, U)
    BY DEF SameLinks, Distinct
<1> QED
    BY <1>1, <1>2, <1>3 DEF Sorted

LEMMA Blackened == ASSUME NEW t \in Tree, NEW N PROVE SameLinks(t, Blacken(t, N))
<1> DEFINE c == [m \in Node |-> m \notin N /\ t.red[m]]
<1>1. \A m \in Node : (m \notin N /\ t.red[m]) \in BOOLEAN
    OBVIOUS
<1>2. c \in [Node -> BOOLEAN]
    BY <1>1
<1> QED
    BY <1>2, Painted DEF Blacken, SameLinks

LEMMA Reddened == ASSUME NEW t \in Tree, NEW n PROVE SameLinks(t, Redden(t, n))
<1>1. [t.red EXCEPT ![n] = TRUE] \in [Node -> BOOLEAN]
    BY TreeFields
<1> QED
    BY <1>1, Painted DEF Redden, SameLinks

LEMMA SameTrans ==
    ASSUME NEW t, NEW r, NEW u, SameLinks(t, r), SameLinks(r, u)
    PROVE  SameLinks(t, u)
BY DEF SameLinks
-----------------------------------------------------------------------------
\* A tree over the nodes U, in the order of its keys.
Good(t, U) == Tied(t, U) /\ Sorted(t, U)

LEMMA SameGood ==
    ASSUME NEW t, NEW r, SameLinks(t, r), NEW U, Good(t, U)
    PROVE  Good(r, U)
BY SameLinked DEF Good, Tied, Blank, SameLinks

LEMMA RotateGood ==
    ASSUME NEW t, NEW U, Good(t, U), NEW n \in U, NEW s \in Side,
           NEW o, o = t.child[Other(s)][n], o # Nil
    PROVE  /\ Good(Rotate(t, n, s), U)
           /\ Rotate(t, n, s).size = t.size
           /\ o \in U /\ Rotate(t, n, s).parent[n] = o
           /\ t.parent[n] # Nil =>
                Rotate(t, n, s).child[SideOf(t, n)][t.parent[n]] = o
           /\ Rotate(t, n, s).child[s][o] = n
           /\ Rotate(t, n, s).head \in {t.head, o}
<1>r. PICK r : r = Rotate(t, n, s)
    OBVIOUS
<1>1. /\ t \in Tree /\ U \in SUBSET Node /\ Linked(t, U) /\ Loopless(t, U) /\ n \in Node
      /\ Sorted(t, U)
    BY DEF Good, Tied
<1>2. r \in Tree /\ Linked(r, U) /\ Loopless(r, U) /\ Sorted(r, U)
    BY <1>1, <1>r, RotateType, RotateLinked, RotateSorted
<1>w. PICK w : w = t.child[s][o]
    OBVIOUS
<1>p. PICK p : p = t.parent[n]
    OBVIOUS
<1>z. PICK q : q = SideOf(t, n)
    OBVIOUS
<1>3. /\ r.size = t.size /\ r.head \in {t.head, o}
      /\ \A z \in Side, m \in Node : r.child[z][m] =
            CASE m = n /\ z = Other(s) -> w
              [] m = o /\ z = s -> n
              [] p # Nil /\ m = p /\ z = q -> o
              [] OTHER -> t.child[z][m]
      /\ \A m \in Node : r.parent[m] =
            CASE m = n -> o
              [] m = o -> p
              [] m = w -> n
              [] OTHER -> t.parent[m]
    BY <1>1, <1>w, <1>p, <1>r, <1>z, RotateFields
<1>4. /\ o \in U /\ t.parent[o] = n /\ q \in Side
      /\ w = Nil \/ (w \in U /\ t.parent[w] = o)
      /\ p = Nil \/ p \in U
    BY <1>1, <1>w, <1>p, <1>z, Sides, SideOfType DEF Linked
<1>5. n # o /\ p # n /\ p # o
    BY <1>1, <1>4, <1>p, NoShortLoop
<1>6. Blank(r, U)
    BY <1>1, <1>3, <1>4, NilAssumption DEF Blank, Good, Tied
<1>7. r.parent[n] = o /\ r.child[s][o] = n
  <2>1. o \in Node
      BY <1>1, <1>4
  <2>2. w # n
      BY <1>1, <1>4, NoShortLoop, NilAssumption
  <2>3. r.parent[n] = o
      BY <2>2, <1>1, <1>3, <1>5
  <2>4. r.child[s][o] = n
      BY <2>1, <1>3, <1>5
  <2> QED
      BY <2>3, <2>4
<1>8. p # Nil => r.child[q][p] = o
    BY <1>1, <1>3, <1>4, <1>5
<1> QED
    BY <1>1, <1>2, <1>3, <1>4, <1>6, <1>7, <1>8, <1>r, <1>p, <1>z DEF Good, Tied
-----------------------------------------------------------------------------
\* A node with at most one child can be unlinked.
LEMMA UnlinkGood ==
    ASSUME NEW t, NEW U, Good(t, U), NEW n \in U, NEW y \in U,
           NEW x, GivesUp(t, n, y, x),
           t.size \in Nat \ {0}
    PROVE  /\ Good(Unlink(t, n, y, x), U \ {y})
           /\ Unlink(t, n, y, x).size = t.size - 1
           /\ x # Nil => x \in U \ {y}
<1>h. /\ Nil \in {t.child[s][y] : s \in Side}
      /\ x = IF t.child["left"][y] # Nil THEN t.child["left"][y] ELSE t.child["right"][y]
    BY DEF GivesUp
<1> USE <1>h
<1>r. PICK r : r = Unlink(t, n, y, x)
    OBVIOUS
<1>p. PICK p : p = t.parent[y]
    OBVIOUS
<1>z. PICK q : q = SideOf(t, y)
    OBVIOUS
<1>1. t \in Tree /\ U \subseteq Node /\ Linked(t, U) /\ Loopless(t, U) /\ n \in Node /\ y \in Node
    BY DEF Good, Tied
<1>2. r.head = IF p = Nil THEN x ELSE t.head
    BY <1>1, <1>r, <1>p DEF Unlink, Bypass, Tree
<1>3. r.child = [z \in Side |-> [m \in Node |->
            CASE m = y -> Nil
              [] p # Nil /\ m = p /\ z = q -> x
              [] OTHER -> t.child[z][m]]]
    BY <1>1, <1>r, <1>p, <1>z DEF Unlink, Bypass, Tree
<1>4. r.parent = [m \in Node |-> CASE m = y -> Nil [] m = x -> p [] OTHER -> t.parent[m]]
    BY <1>1, <1>r, <1>p DEF Unlink, Bypass, Tree
<1>5. r.size = t.size - 1
    BY <1>1, <1>r DEF Unlink, Bypass, Tree
<1>6. /\ \A z \in Side, m \in Node : r.child[z][m] =
            CASE m = y -> Nil
              [] p # Nil /\ m = p /\ z = q -> x
              [] OTHER -> t.child[z][m]
      /\ \A m \in Node :
            r.parent[m] = CASE m = y -> Nil [] m = x -> p [] OTHER -> t.parent[m]
    BY <1>3, <1>4
<1>7. /\ Nil \notin U /\ q \in Side
      /\ x = Nil \/ (x \in U /\ t.parent[x] = y)
      /\ \A z \in Side : t.child[z][y] \in {x, Nil}
      /\ p = Nil \/ (p \in U /\ t.child[q][p] = y)
      /\ (p = Nil) <=> (y = t.head)
    BY <1>1, <1>p, <1>z, SideOfType, NilAssumption DEF Linked, SideOf, Side
<1>8. p # y /\ x # y /\ (x # p \/ x = Nil)
    BY <1>1, <1>7, <1>p, NoShortLoop
<1>9. r \in Tree
  <2>1. t.head \in Link /\ x \in Link /\ p \in Link
      BY <1>1, <1>7, TreeFields DEF Link
  <2>2. r.child \in [Side -> [Node -> Link]] /\ r.parent \in [Node -> Link] /\ r.head \in Link
    <3>1. \A z \in Side, m \in Node : r.child[z][m] \in Link
        BY <2>1, <1>1, <1>6, TreeFields DEF Link
    <3>2. \A m \in Node : r.parent[m] \in Link
        BY <2>1, <1>1, <1>6, TreeFields DEF Link
    <3>3. \A z \in Side, m \in Node :
            (CASE m = y -> Nil [] p # Nil /\ m = p /\ z = q -> x [] OTHER -> t.child[z][m]) \in Link
        BY <3>1, <1>6
    <3>4. \A m \in Node : (CASE m = y -> Nil [] m = x -> p [] OTHER -> t.parent[m]) \in Link
        BY <3>2, <1>6
    <3> QED
        BY <3>3, <3>4, <2>1, <1>2, <1>3, <1>4
  <2>3. r.red \in [Node -> BOOLEAN]
      BY <1>1, <1>r DEF Unlink, Bypass, Tree
  <2>4. r.key \in [Node -> Key \cup {Nil}] /\ r.data \in [Node -> Data \cup {Nil}]
      BY <1>1, <1>r DEF Unlink, Bypass, Tree
  <2>5. r = [head |-> r.head, size |-> r.size, child |-> r.child, parent |-> r.parent,
             red |-> r.red, key |-> r.key, data |-> r.data]
      BY <1>1, <1>r DEF Unlink, Bypass, Tree
  <2>6. r.size \in Nat
      BY <1>5
  <2> QED
      BY <2>2, <2>3, <2>4, <2>5, <2>6 DEF Tree
<1>10. Linked(r, U \ {y})
  <2>1. \A m \in U \ {y}, z \in Side : r.child[z][m] # Nil =>
            r.child[z][m] \in U \ {y} /\ r.parent[r.child[z][m]] = m
    <3> SUFFICES ASSUME NEW m \in U \ {y}, NEW z \in Side, r.child[z][m] # Nil
                 PROVE  r.child[z][m] \in U \ {y} /\ r.parent[r.child[z][m]] = m
        OBVIOUS
    <3>1. CASE p # Nil /\ m = p /\ z = q
        BY <3>1, <1>1, <1>6, <1>7, <1>8
    <3>2. CASE ~(p # Nil /\ m = p /\ z = q)
      <4>1. r.child[z][m] = t.child[z][m]
          BY <3>2, <1>1, <1>6
      <4>2. t.child[z][m] \in U /\ t.parent[t.child[z][m]] = m
            /\ (t.child["left"][m] # t.child["right"][m] \/ t.child["left"][m] = Nil)
          BY <4>1, <1>1 DEF Linked
      <4>3. t.child[z][m] # y
          BY <4>1, <4>2, <3>2, <1>7, <1>p, Sides
      <4>4. t.child[z][m] # x
          BY <4>1, <4>2, <1>7
      <4> QED
          BY <4>1, <4>2, <4>3, <4>4, <1>1, <1>6
    <3> QED
        BY <3>1, <3>2
  <2>2. \A m \in U \ {y} : r.child["left"][m] # r.child["right"][m] \/ r.child["left"][m] = Nil
    <3> SUFFICES ASSUME NEW m \in U \ {y}
                 PROVE  r.child["left"][m] # r.child["right"][m] \/ r.child["left"][m] = Nil
        OBVIOUS
    <3>1. /\ t.child["left"][m] # t.child["right"][m] \/ t.child["left"][m] = Nil
          /\ \A z \in Side : t.child[z][m] # Nil => t.parent[t.child[z][m]] = m
        BY <1>1 DEF Linked
    <3> QED
        BY <3>1, <1>1, <1>6, <1>7, Sides
  <2>3. \A m \in U \ {y} : IF m = r.head THEN r.parent[m] = Nil
                           ELSE r.parent[m] \in U \ {y} /\ \E z \in Side : r.child[z][r.parent[m]] = m
    <3> SUFFICES ASSUME NEW m \in U \ {y}
                 PROVE  IF m = r.head THEN r.parent[m] = Nil
                        ELSE r.parent[m] \in U \ {y} /\ \E z \in Side : r.child[z][r.parent[m]] = m
        OBVIOUS
    <3>1. IF m = t.head THEN t.parent[m] = Nil
          ELSE t.parent[m] \in U /\ \E z \in Side : t.child[z][t.parent[m]] = m
        BY <1>1 DEF Linked
    <3>2. CASE m = x
      <4>1. r.parent[m] = p /\ t.parent[m] = y /\ y # Nil /\ m # t.head
        <5>1. x # Nil /\ m # y
            BY <3>2, <1>1, <1>7
        <5>2. t.parent[m] = y /\ y # Nil
            BY <5>1, <3>2, <1>1, <1>7
        <5>3. m # t.head
            BY <5>2, <3>1
        <5>4. m \in Node
            BY <1>1
        <5>5. r.parent[m] = p
            BY ONLY <5>1, <5>4, <3>2, <1>6
        <5> QED
            BY ONLY <5>2, <5>3, <5>5
      <4>2. CASE p = Nil
          BY <4>1, <4>2, <3>2, <1>2
      <4>3. CASE p # Nil
        <5>1. r.child[q][p] = m /\ p \in U \ {y}
            BY <4>3, <3>2, <1>1, <1>6, <1>7, <1>8
        <5> QED
            BY <5>1, <4>1, <4>3, <1>2, <1>7
      <4> QED
          BY <4>2, <4>3
    <3>3. CASE m # x /\ m = t.head
        BY <3>1, <3>3, <1>1, <1>2, <1>6, <1>7
    <3>4. CASE m # x /\ m # t.head
      <4>1. PICK z \in Side : t.child[z][t.parent[m]] = m
          BY <3>1, <3>4
      <4>2. t.parent[m] # y
          BY <4>1, <3>4, <1>7
      <4>3. r.child[z][t.parent[m]] = m /\ r.parent[m] = t.parent[m] /\ m # r.head
          BY <4>1, <4>2, <3>1, <3>4, <1>1, <1>2, <1>6, <1>7, SMTT(30)
      <4> QED
          BY <4>2, <4>3, <3>1, <3>4
    <3> QED
        BY <3>2, <3>3, <3>4
  <2>4. r.head \in U \ {y} \/ (r.head = Nil /\ U \ {y} = {})
    <3>1. CASE p # Nil
        BY <3>1, <1>1, <1>2, <1>7 DEF Linked
    <3>2. CASE p = Nil /\ x # Nil
        BY <3>2, <1>2, <1>7, <1>8
    <3>3. CASE p = Nil /\ x = Nil
      <4>1. \A m \in U \ {y} : t.parent[m] \in U \ {y}
        <5> SUFFICES ASSUME NEW m \in U \ {y} PROVE t.parent[m] \in U \ {y}
            OBVIOUS
        <5>1. t.parent[m] \in U /\ \E z \in Side : t.child[z][t.parent[m]] = m
            BY <3>3, <1>1, <1>7 DEF Linked
        <5> QED
            BY <5>1, <3>3, <1>7
      <4>2. U \ {y} = {}
          BY <4>1, <1>1 DEF Loopless
      <4> QED
          BY <4>2, <3>3, <1>2
    <3> QED
        BY <3>1, <3>2, <3>3
  <2> QED
      BY <2>1, <2>2, <2>3, <2>4 DEF Linked
<1>11. Loopless(r, U \ {y})
  <2> SUFFICES ASSUME NEW S \in SUBSET (U \ {y}), S # {}, \A m \in S : r.parent[m] \in S
               PROVE  FALSE
      BY DEF Loopless
  <2>1. CASE x \notin S
      BY <2>1, <1>1, <1>6 DEF Loopless
  <2>2. CASE x \in S
    <3>1. p \in S
        BY <2>2, <1>1, <1>6, <1>7
    <3>2. \A m \in S \cup {y} : t.parent[m] \in S \cup {y}
        BY <2>2, <3>1, <1>1, <1>6, <1>7, <1>p
    <3>3. S \cup {y} \in SUBSET U /\ S \cup {y} # {}
        OBVIOUS
    <3> QED
        BY <3>2, <3>3, <1>1 DEF Loopless
  <2> QED
      BY <2>1, <2>2
<1>12. Blank(r, U \ {y})
  <2> SUFFICES ASSUME NEW m \in Node \ (U \ {y})
               PROVE  r.parent[m] = Nil /\ \A z \in Side : r.child[z][m] = Nil
      BY DEF Blank
  <2>1. CASE m = y
      BY <2>1, <1>1, <1>6, <1>8
  <2>2. CASE m # y
    <3>1. t.parent[m] = Nil /\ \A z \in Side : t.child[z][m] = Nil
        BY <2>2 DEF Good, Tied, Blank
    <3>2. m # x /\ m # p
        BY <2>2, <1>7, NilAssumption
    <3> QED
        BY <3>1, <3>2, <2>2, <1>6
  <2> QED
      BY <2>1, <2>2
<1>13. Sorted(r, U \ {y}) /\ Keys(r, U \ {y}) = Keys(t, U) \ {t.key[n]}
  <2>1. \A m \in U \ {y} : r.key[m] = IF m = n THEN t.key[y] ELSE t.key[m]
    <3>1. r.key = [t.key EXCEPT ![n] = t.key[y], ![y] = Nil]
        BY <1>1, <1>r DEF Unlink, Bypass, Tree
    <3> QED
        BY <1>1, <3>1, TreeFields
  <2>2. Tied(t, U) /\ Sorted(t, U)
      BY DEF Good
  <2>3. GivesUp(t, n, y, x) /\ n \in U /\ y \in U
      BY DEF GivesUp
  <2>4. \A z \in Side, m \in Node : r.child[z][m] =
            CASE m = y -> Nil
              [] p # Nil /\ m = p /\ z = q -> x
              [] OTHER -> t.child[z][m]
      BY <1>6
  <2> QED
      BY ONLY <1>2, <1>p, <1>z, <2>1, <2>2, <2>3, <2>4, UnlinkSorted, SMTT(30)
<1> QED
    BY <1>1, <1>5, <1>7, <1>8, <1>9, <1>10, <1>11, <1>12, <1>13, <1>r DEF Good, Tied
-----------------------------------------------------------------------------
\* The inductive invariant: the links are those of a tree of size nodes, in the
\* order of their keys, and the rebalancing is at one of them.
IInv ==
    /\ Good(tree, used)
    /\ tree.size = Cardinality(used)
    /\ pc \in {"idle", "add", "remove", "crashed"}
    /\ cur \in Link
    /\ pc \in {"add", "remove"} => cur \in used

LEMMA Counting ==
    ASSUME NEW U \in SUBSET Node
    PROVE  /\ Cardinality(U) \in Nat
           /\ U # {} => Cardinality(U) # 0
           /\ \A n \in Node \ U : Cardinality(U \cup {n}) = Cardinality(U) + 1
           /\ \A n \in U : Cardinality(U \ {n}) = Cardinality(U) - 1
<1>1. IsFiniteSet(U)
    BY NodeAssumption, FS_Subset
<1> QED
    BY <1>1, FS_CardinalityType, FS_EmptySet, FS_AddElement, FS_RemoveElement

\* A node that has a parent is one of its children, and not the head.
LEMMA Parents ==
    ASSUME NEW t, NEW U, Good(t, U), NEW n \in U
    PROVE  /\ n # Nil /\ Nil \notin U
           /\ (t.parent[n] = Nil) <=> (n = t.head)
           /\ n # t.head => /\ t.parent[n] \in U
                            /\ t.child[SideOf(t, n)][t.parent[n]] = n
                            /\ SideOf(t, n) \in Side
BY NilAssumption DEF Good, Tied, Linked, SideOf, Side

LEMMA EmptySorted == ASSUME NEW t, t.head = Nil PROVE Sorted(t, {})
<1>1. Ranges(t, {}, [n \in {} |-> {}])
    BY DEF Ranges
<1> QED
    BY <1>1 DEF Sorted, Distinct

LEMMA InitInv == Init => IInv
<1> SUFFICES ASSUME Init PROVE IInv
    OBVIOUS
<1>1. tree \in Tree
    BY DEF Init, Tree, Link
<1>2. Linked(tree, used) /\ Loopless(tree, used) /\ Blank(tree, used)
    BY DEF Init, Linked, Loopless, Blank, Side
<1>3. tree.size = Cardinality(used)
    BY FS_EmptySet DEF Init
<1> QED
    BY <1>1, <1>2, <1>3, EmptySorted DEF Init, IInv, Good, Tied, Link

LEMMA ReplaceInv == IInv /\ (\E k \in Key, d \in Data : Replace(k, d)) => IInv'
<1> SUFFICES ASSUME IInv, NEW k \in Key, NEW d \in Data, Replace(k, d) PROVE IInv'
    OBVIOUS
<1>1. PICK n : tree' = [tree EXCEPT !.data[n] = d]
    BY DEF Replace
<1>2. SameLinks(tree, tree')
    BY <1>1 DEF SameLinks, IInv, Good, Tied, Tree
<1>3. Good(tree', used)
    BY <1>2, SameGood DEF IInv
<1> QED
    BY <1>2, <1>3 DEF IInv, Replace, SameLinks

LEMMA AddFirstInv == IInv /\ (\E k \in Key, d \in Data : AddFirst(k, d)) => IInv'
<1> SUFFICES ASSUME IInv, NEW k \in Key, NEW d \in Data, AddFirst(k, d) PROVE IInv'
    OBVIOUS
<1>1. PICK n \in Node \ used :
        /\ tree' = [tree EXCEPT !.head = n, !.size = @ + 1, !.key[n] = k, !.data[n] = d]
        /\ used' = used \cup {n}
    BY DEF AddFirst
<1>2. tree \in Tree /\ used \subseteq Node /\ used = {}
    BY NilAssumption DEF IInv, Good, Tied, AddFirst, Linked
<1>3. tree' \in Tree
  <2>1. /\ tree'.child = tree.child /\ tree'.parent = tree.parent /\ tree'.red = tree.red
        /\ tree'.key = [tree.key EXCEPT ![n] = k] /\ tree'.data = [tree.data EXCEPT ![n] = d]
        /\ tree'.size = tree.size + 1 /\ tree'.head = n
      BY <1>1, <1>2 DEF Tree
  <2>2. tree' = [head |-> tree'.head, size |-> tree'.size, child |-> tree'.child,
                 parent |-> tree'.parent, red |-> tree'.red, key |-> tree'.key,
                 data |-> tree'.data]
      BY <1>1, <1>2 DEF Tree
  <2>3. tree'.key \in [Node -> Key \cup {Nil}] /\ tree'.data \in [Node -> Data \cup {Nil}]
        /\ tree'.size \in Nat /\ tree'.head \in Link
      BY <2>1, <1>2, TreeFields DEF Link
  <2> QED
      BY <2>1, <2>2, <2>3, <1>2, TreeFields DEF Tree
<1>4. /\ tree'.head = n /\ tree'.child = tree.child /\ tree'.parent = tree.parent
      /\ tree'.size = tree.size + 1 /\ tree'.key[n] = k
    BY <1>1, <1>2, TreeFields DEF Tree
<1>5. tree.parent[n] = Nil /\ \A z \in Side : tree.child[z][n] = Nil
    BY DEF IInv, Good, Tied, Blank
<1>6. Linked(tree', used')
    BY <1>1, <1>2, <1>4, <1>5, Sides DEF Linked
<1>7. Loopless(tree', used')
    BY <1>1, <1>2, <1>4, <1>5, NilAssumption DEF Loopless
<1>8. Blank(tree', used')
    BY <1>1, <1>4 DEF IInv, Good, Tied, Blank
<1>9. tree'.size = Cardinality(used')
    BY <1>1, <1>2, <1>4, Counting DEF IInv
<1>10. Sorted(tree', used')
  <2> DEFINE W == [m \in {n} |-> {k}]
  <2>1. used' = {n} /\ k \in Int
      BY <1>1, <1>2, KeyAssumption
  <2>2. \A z \in Side : tree'.child[z][n] = Nil /\ ~Past(z, k, k)
      BY <1>4, <1>5, <2>1, PastOrder
  <2>3. Keys(tree', {n}) = {k}
      BY <1>4 DEF Keys
  <2>4. Ranges(tree', {n}, W)
      BY <1>4, <2>2, <2>3 DEF Ranges, Under, Part
  <2> QED
      BY <2>1, <2>4 DEF Sorted, Distinct
<1> QED
    BY <1>1, <1>2, <1>3, <1>6, <1>7, <1>8, <1>9, <1>10 DEF IInv, Good, Tied, AddFirst, Idle

LEMMA AddInv == IInv /\ (\E k \in Key, d \in Data : Add(k, d)) => IInv'
<1> SUFFICES ASSUME IInv, NEW k \in Key, NEW d \in Data, Add(k, d) PROVE IInv'
    OBVIOUS
<1>1. PICK n \in Node \ used, p \in used :
        /\ OnPath(tree, k, p) /\ tree.child[Toward(tree, p, k)][p] = Nil
        /\ tree' = [tree EXCEPT !.size = @ + 1, !.child[Toward(tree, p, k)][p] = n,
                                !.parent[n] = p, !.red[n] = TRUE,
                                !.key[n] = k, !.data[n] = d]
        /\ used' = used \cup {n}
        /\ cur' = n
    BY Zenon DEF Add
<1>s. PICK s \in Side : s = Toward(tree, p, k)
    BY DEF Toward, Side
<1>2. tree \in Tree /\ used \subseteq Node /\ Linked(tree, used) /\ Loopless(tree, used)
    BY DEF IInv, Good, Tied
<1>3. tree' \in Tree
  <2>1. tree'.child = [tree.child EXCEPT ![s][p] = n] /\ tree'.parent = [tree.parent EXCEPT ![n] = p]
        /\ tree'.red = [tree.red EXCEPT ![n] = TRUE] /\ tree'.key = [tree.key EXCEPT ![n] = k]
        /\ tree'.data = [tree.data EXCEPT ![n] = d] /\ tree'.size = tree.size + 1
        /\ tree'.head = tree.head
      BY <1>1, <1>s, <1>2 DEF Tree
  <2>2. tree' = [head |-> tree'.head, size |-> tree'.size, child |-> tree'.child,
                 parent |-> tree'.parent, red |-> tree'.red, key |-> tree'.key,
                 data |-> tree'.data]
      BY <1>1, <1>s, <1>2 DEF Tree
  <2>3. tree'.child \in [Side -> [Node -> Link]]
      BY <2>1, <1>1, <1>s, <1>2, TreeFields DEF Link
  <2>4. tree'.parent \in [Node -> Link] /\ tree'.red \in [Node -> BOOLEAN]
        /\ tree'.key \in [Node -> Key \cup {Nil}] /\ tree'.data \in [Node -> Data \cup {Nil}]
        /\ tree'.size \in Nat /\ tree'.head \in Link
      BY <2>1, <1>1, <1>2, TreeFields DEF Link
  <2> QED
      BY <2>2, <2>3, <2>4 DEF Tree
<1>4. /\ tree'.head = tree.head /\ tree'.size = tree.size + 1
      /\ \A z \in Side, m \in Node :
            tree'.child[z][m] = IF z = s /\ m = p THEN n ELSE tree.child[z][m]
      /\ \A m \in Node : tree'.parent[m] = IF m = n THEN p ELSE tree.parent[m]
      /\ \A m \in Node : tree'.key[m] = IF m = n THEN k ELSE tree.key[m]
    BY <1>1, <1>s, <1>2 DEF Tree
<1>5. tree.parent[n] = Nil /\ \A z \in Side : tree.child[z][n] = Nil
    BY DEF IInv, Good, Tied, Blank
<1>6. Linked(tree', used')
  <2>1. tree'.head \in used'
      BY <1>1, <1>2, <1>4 DEF Linked
  <2>2. \A m \in used', z \in Side : tree'.child[z][m] # Nil =>
            tree'.child[z][m] \in used' /\ tree'.parent[tree'.child[z][m]] = m
      BY <1>1, <1>2, <1>4, <1>5 DEF Linked
  <2>3. \A m \in used' : tree'.child["left"][m] # tree'.child["right"][m]
                         \/ tree'.child["left"][m] = Nil
      BY <1>1, <1>2, <1>4, <1>5, Sides, NilAssumption DEF Linked
  <2>4. \A m \in used' : IF m = tree'.head THEN tree'.parent[m] = Nil
            ELSE tree'.parent[m] \in used' /\ \E z \in Side : tree'.child[z][tree'.parent[m]] = m
    <3> SUFFICES ASSUME NEW m \in used'
                 PROVE  IF m = tree'.head THEN tree'.parent[m] = Nil
                        ELSE tree'.parent[m] \in used'
                             /\ \E z \in Side : tree'.child[z][tree'.parent[m]] = m
        OBVIOUS
    <3>1. CASE m = n
        BY <3>1, <1>1, <1>2, <1>4 DEF Linked
    <3>2. CASE m # n
        BY <3>2, <1>1, <1>2, <1>4, <1>s, NilAssumption DEF Linked
    <3> QED
        BY <3>1, <3>2
  <2> QED
      BY <2>1, <2>2, <2>3, <2>4 DEF Linked
<1>7. Loopless(tree', used')
  <2> SUFFICES ASSUME NEW S \in SUBSET used', S # {}, \A m \in S : tree'.parent[m] \in S
               PROVE  FALSE
      BY DEF Loopless
  <2>1. n \in S => p \in S
      BY <1>1, <1>4
  <2>2. \A m \in S \ {n} : tree.parent[m] \in S \ {n}
    <3> SUFFICES ASSUME NEW m \in S \ {n} PROVE tree.parent[m] \in S \ {n}
        OBVIOUS
    <3>1. m \in used /\ tree.parent[m] \in S
        BY <1>1, <1>2, <1>4
    <3>2. tree.parent[m] # n
        BY <3>1, <1>1, <1>2, NilAssumption DEF Linked
    <3> QED
        BY <3>1, <3>2
  <2>3. S \ {n} \in SUBSET used /\ S \ {n} # {}
      BY <2>1, <1>1
  <2> QED
      BY <2>2, <2>3, <1>2 DEF Loopless
<1>8. Blank(tree', used')
    BY <1>1, <1>2, <1>4 DEF IInv, Good, Tied, Blank
<1>9. tree'.size = Cardinality(used')
    BY <1>1, <1>2, <1>4, Counting DEF IInv
<1>10. Sorted(tree', used')
  <2>1. Tied(tree, used) /\ Sorted(tree, used)
      BY DEF IInv, Good
  <2>2. Find(tree, k) = Nil
      BY DEF Add
  <2>3. k \notin Keys(tree, used)
      BY <2>1, <2>2, FindTrue, NilAssumption, <1>2
  <2>4. /\ p \in used /\ n \in Node \ used /\ k \in Key
        /\ OnPath(tree, k, p) /\ tree.child[s][p] = Nil
      BY <1>1, <1>s
  <2>5. PICK r : r = tree'
      OBVIOUS
  <2>6. /\ r.head = tree.head
        /\ \A z \in Side, m \in Node :
              r.child[z][m] = IF z = s /\ m = p THEN n ELSE tree.child[z][m]
        /\ \A m \in Node : r.key[m] = IF m = n THEN k ELSE tree.key[m]
      BY <1>4, <2>5
  <2>7. Sorted(r, used \cup {n})
      BY ONLY <1>s, <2>1, <2>3, <2>4, <2>6, AddSorted
  <2> QED
      BY <1>1, <2>5, <2>7
<1> QED
    BY <1>1, <1>2, <1>3, <1>6, <1>7, <1>8, <1>9, <1>10, SMTT(30) DEF IInv, Good, Tied, Add, Link

LEMMA FlipInv == IInv /\ Flip => IInv'
<1> SUFFICES ASSUME IInv, Flip PROVE IInv'
    OBVIOUS
<1>p. PICK p : p = tree.parent[cur]
    OBVIOUS
<1>g. PICK g : g = tree.parent[p]
    OBVIOUS
<1>o. PICK o : o = tree.child[Other(SideOf(tree, p))][g]
    OBVIOUS
<1>1. /\ pc = "add" /\ cur # tree.head /\ p # Nil /\ g # Nil
      /\ tree' = Redden(Blacken(tree, {p, o}), g)
      /\ cur' = g /\ used' = used /\ pc' = pc
    BY <1>p, <1>g, <1>o DEF Flip, RedParent
<1>2. p \in used /\ g \in used
    BY <1>1, <1>p, <1>g, Parents DEF IInv
<1>3. tree \in Tree
    BY DEF IInv, Good, Tied
<1>4. SameLinks(tree, tree')
    BY <1>1, <1>3, Blackened, Reddened, SameTrans DEF SameLinks
<1>5. Good(tree', used)
    BY <1>4, SameGood DEF IInv
<1> QED
    BY <1>1, <1>2, <1>4, <1>5 DEF IInv, SameLinks, Good, Tied, Link

LEMMA TurnAtBlackUncleInv == IInv /\ TurnAtBlackUncle => IInv'
<1> SUFFICES ASSUME IInv, TurnAtBlackUncle PROVE IInv'
    OBVIOUS
<1>p. PICK p : p = tree.parent[cur]
    OBVIOUS
<1>g. PICK g : g = tree.parent[p]
    OBVIOUS
<1>s. PICK s \in Side : s = SideOf(tree, p)
    BY SideOfType
<1>i. PICK inner \in BOOLEAN : inner <=> cur = tree.child[Other(s)][p]
    OBVIOUS
<1>n. PICK n : n = IF inner THEN p ELSE cur
    OBVIOUS
<1>t. PICK t : t = IF inner THEN Rotate(tree, p, s) ELSE tree
    OBVIOUS
<1>u. PICK u : u = Redden(Blacken(t, {t.parent[n]}), g)
    OBVIOUS
<1>1. /\ pc = "add" /\ cur # tree.head /\ p # Nil /\ g # Nil
      /\ tree' = Rotate(u, g, Other(s))
      /\ cur' = n /\ used' = used /\ pc' = pc
    BY <1>p, <1>g, <1>s, <1>i, <1>n, <1>t, <1>u DEF TurnAtBlackUncle, RedParent
<1>2. /\ cur \in used /\ p \in used /\ g \in used /\ n \in used
      /\ cur # Nil /\ tree.child[s][g] = p
    BY <1>1, <1>p, <1>g, <1>s, <1>n, Parents DEF IInv
<1>3. Good(t, used) /\ t.size = tree.size /\ t.child[s][g] # Nil
  <2>1. CASE inner
      BY <2>1, <1>1, <1>2, <1>g, <1>s, <1>i, <1>t, RotateGood DEF IInv
  <2>2. CASE ~inner
      BY <2>2, <1>1, <1>2, <1>t DEF IInv
  <2> QED
      BY <2>1, <2>2
<1>4. SameLinks(t, u)
    BY <1>3, <1>u, Blackened, Reddened, SameTrans DEF SameLinks, Good, Tied
<1>5. Good(u, used) /\ u.size = tree.size /\ u.child[Other(Other(s))][g] # Nil
    BY <1>3, <1>4, SameGood, Sides DEF SameLinks
<1>6. Good(tree', used) /\ tree'.size = tree.size
    BY <1>1, <1>2, <1>5, Sides, RotateGood
<1> QED
    BY <1>1, <1>2, <1>6 DEF IInv, Good, Tied, Link

LEMMA TurnWithoutUncleInv == IInv /\ TurnWithoutUncle => IInv'
<1> SUFFICES ASSUME IInv, TurnWithoutUncle PROVE IInv'
    OBVIOUS
<1>p. PICK p : p = tree.parent[cur]
    OBVIOUS
<1>g. PICK g : g = tree.parent[p]
    OBVIOUS
<1>s. PICK s \in Side : s = SideOf(tree, p)
    BY SideOfType
<1>u. PICK u : u = Redden(Blacken(tree, {p}), g)
    OBVIOUS
<1>1. /\ pc = "add" /\ cur # tree.head /\ p # Nil /\ g # Nil
      /\ tree' = Rotate(u, g, Other(s))
      /\ cur' = tree'.parent[cur] /\ used' = used /\ pc' = pc
    BY <1>p, <1>g, <1>s, <1>u DEF TurnWithoutUncle, RedParent
<1>2. /\ cur \in used /\ p \in used /\ g \in used /\ p # tree.head
      /\ cur # Nil /\ tree.child[s][g] = p
    BY <1>1, <1>p, <1>g, <1>s, Parents DEF IInv
<1>3. cur # p
    BY <1>2, <1>p, NoShortLoop DEF IInv, Good, Tied
<1>4. SameLinks(tree, u)
    BY <1>u, Blackened, Reddened, SameTrans DEF SameLinks, IInv, Good, Tied
<1>5. /\ Good(u, used) /\ u.size = tree.size /\ u.head = tree.head
      /\ u.child[Other(Other(s))][g] = p
    BY <1>2, <1>4, SameGood, Sides DEF SameLinks, IInv
<1>6. Good(tree', used) /\ tree'.size = tree.size /\ tree'.head \in {tree.head, p}
    BY <1>1, <1>2, <1>5, Sides, RotateGood
<1>7. cur' \in used
    BY <1>1, <1>2, <1>3, <1>6, Parents
<1> QED
    BY <1>1, <1>6, <1>7 DEF IInv, Good, Tied, Link

LEMMA AddDoneInv == IInv /\ AddDone => IInv'
<1> SUFFICES ASSUME IInv, AddDone PROVE IInv'
    OBVIOUS
<1>1. SameLinks(tree, tree')
    BY Blackened DEF AddDone, IInv, Good, Tied
<1>2. Good(tree', used)
    BY <1>1, SameGood DEF IInv
<1> QED
    BY <1>1, <1>2 DEF IInv, AddDone, SameLinks, Link

LEMMA RemoveInv == IInv /\ (\E k \in Key : Remove(k)) => IInv'
<1> SUFFICES ASSUME IInv, NEW k \in Key, Remove(k) PROVE IInv'
    OBVIOUS
<1>1. PICK n \in used, y \in used :
        LET x == IF tree.child["left"][y] # Nil THEN tree.child["left"][y]
                                               ELSE tree.child["right"][y]
            fix == ~tree.red[y] /\ x # Nil
        IN /\ GivesWay(n, y)
           /\ tree' = Unlink(tree, n, y, x)
           /\ used' = used \ {y}
           /\ pc' = IF fix THEN "remove" ELSE "idle"
           /\ cur' = IF fix THEN x ELSE Nil
    BY DEF Remove
<1>x. PICK x : x = IF tree.child["left"][y] # Nil THEN tree.child["left"][y]
                                                 ELSE tree.child["right"][y]
    OBVIOUS
<1>2. /\ tree' = Unlink(tree, n, y, x)
      /\ used' = used \ {y}
      /\ pc' \in {"idle", "remove"} /\ cur' \in {x, Nil}
      /\ pc' = "remove" => cur' = x /\ x # Nil
    BY <1>1, <1>x
<1>3. Nil \in {tree.child[s][y] : s \in Side}
    BY <1>1 DEF GivesWay, Side
<1>g. y = n \/ (tree.child["right"][n] # Nil /\ y = End(tree, tree.child["right"][n], "left"))
    BY <1>1 DEF GivesWay, Side
<1>4. tree.size \in Nat \ {0} /\ used \in SUBSET Node /\ y \in Node
    BY Counting DEF IInv, Good, Tied
<1>5. Good(tree', used') /\ tree'.size = tree.size - 1 /\ (x # Nil => x \in used')
  <2>1. Good(tree, used) /\ tree.size \in Nat \ {0} /\ n \in used /\ y \in used
      BY <1>4 DEF IInv
  <2>2. PICK r : r = Unlink(tree, n, y, x)
      OBVIOUS
  <2>4. GivesUp(tree, n, y, x)
      BY <1>3, <1>g, <1>x DEF GivesUp
  <2>5. PICK t, U : t = tree /\ U = used
      OBVIOUS
  <2>6. Good(t, U) /\ GivesUp(t, n, y, x) /\ t.size \in Nat \ {0} /\ n \in U /\ y \in U
      BY <2>1, <2>4, <2>5
  <2>7. /\ Good(Unlink(t, n, y, x), U \ {y})
        /\ Unlink(t, n, y, x).size = t.size - 1
        /\ x # Nil => x \in U \ {y}
      BY ONLY <2>6, UnlinkGood
  <2> QED
      BY <1>2, <2>5, <2>7
<1>6. tree'.size = Cardinality(used')
    BY <1>2, <1>4, <1>5, Counting DEF IInv
<1> QED
    BY <1>2, <1>5, <1>6 DEF IInv, Good, Tied, Link

LEMMA RemoveCrashInv == IInv /\ RemoveCrash => IInv'
BY DEF IInv, RemoveCrash

\* The child of a node has it for its parent, and is on its side.
LEMMA Children ==
    ASSUME NEW t, NEW U, Good(t, U), NEW n \in U, NEW s \in Side,
           NEW c, c = t.child[s][n], c # Nil
    PROVE  c \in U /\ t.parent[c] = n /\ SideOf(t, c) = s
BY Sides DEF Good, Tied, Linked, SideOf

\* Turning a red sibling away keeps the tree.
LEMMA SiblingTurnedGood ==
    ASSUME IInv, pc = "remove", BlackBelow, Sibling(tree) # Nil
    PROVE  /\ Good(SiblingTurned, used) /\ SiblingTurned.size = tree.size
           /\ Above_x \in used /\ xSide \in Side
<1>w. PICK w : w = Sibling(tree)
    OBVIOUS
<1>a. PICK a : a = Above_x
    OBVIOUS
<1>s. PICK s \in Side : s = xSide
    BY SideOfType DEF xSide
<1>u. PICK u : u = Redden(Blacken(tree, {w}), a)
    OBVIOUS
<1>1. a \in used /\ tree.child[Other(s)][a] = w /\ w # Nil
    BY <1>a, <1>s, <1>w, Parents DEF IInv, BlackBelow, Above_x, Sibling
<1>2. SameLinks(tree, u)
    BY <1>u, Blackened, Reddened, SameTrans DEF SameLinks, IInv, Good, Tied
<1>3. Good(u, used) /\ u.size = tree.size /\ u.child[Other(s)][a] # Nil
    BY <1>1, <1>2, SameGood DEF SameLinks, IInv
<1>4. Good(Rotate(u, a, s), used) /\ Rotate(u, a, s).size = tree.size
    BY <1>1, <1>3, RotateGood
<1>5. SiblingTurned = IF ~tree.red[w] THEN tree ELSE Rotate(u, a, s)
    BY <1>w, <1>a, <1>s, <1>u DEF SiblingTurned
<1> QED
    BY <1>1, <1>4, <1>5, <1>a, <1>s DEF IInv

LEMMA MoveUpInv == IInv /\ MoveUp => IInv'
<1> SUFFICES ASSUME IInv, MoveUp PROVE IInv'
    OBVIOUS
<1>1. PICK t : t = SiblingTurned
    OBVIOUS
<1>2. /\ pc = "remove" /\ BlackBelow /\ Sibling(tree) # Nil
      /\ tree' = Redden(t, Sibling(t)) /\ cur' = Above_x
      /\ used' = used /\ pc' = pc
    BY <1>1 DEF MoveUp, NullDeref
<1>3. Good(t, used) /\ t.size = tree.size /\ Above_x \in used
    BY <1>1, <1>2, SiblingTurnedGood
<1>4. SameLinks(t, tree')
    BY <1>2, <1>3, Reddened DEF Good, Tied
<1>5. Good(tree', used) /\ tree'.size = tree.size
    BY <1>3, <1>4, SameGood DEF SameLinks
<1> QED
    BY <1>2, <1>3, <1>5 DEF IInv, Good, Tied, Link

LEMMA TurnSiblingInv == IInv /\ TurnSibling => IInv'
<1> SUFFICES ASSUME IInv, TurnSibling PROVE IInv'
    OBVIOUS
<1>t. PICK t : t = SiblingTurned
    OBVIOUS
<1>a. PICK a : a = Above_x
    OBVIOUS
<1>s. PICK s \in Side : s = xSide
    BY SideOfType DEF xSide
<1>w. PICK w : w = t.child[Other(s)][a]
    OBVIOUS
<1>n. PICK near : near = t.child[s][w]
    OBVIOUS
<1>u. PICK u : u = Redden(Blacken(t, {near}), w)
    OBVIOUS
<1>2. PICK t2 : t2 = IF t.red[t.child[Other(s)][w]] THEN t ELSE Rotate(u, w, Other(s))
    OBVIOUS
<1>v. PICK w2 : w2 = t2.child[Other(s)][a]
    OBVIOUS
<1>3. PICK t3 : t3 = [t2 EXCEPT !.red = [t2.red EXCEPT ![w2] = t2.red[a]]]
    OBVIOUS
<1>4. PICK t4 : t4 = Blacken(t3, {a, t3.child[Other(s)][w2]})
    OBVIOUS
<1>5. /\ pc = "remove" /\ BlackBelow /\ ~NullDeref
      /\ tree' = Rotate(t4, a, s) /\ cur' = tree'.head
      /\ used' = used /\ pc' = pc
    BY <1>t, <1>a, <1>s, <1>w, <1>n, <1>u, <1>2, <1>v, <1>3, <1>4 DEF TurnSibling, Sibling
<1>6. Sibling(tree) # Nil /\ w # Nil /\ \A z \in Side : t.child[z][w] # Nil
    BY <1>5, <1>t, <1>a, <1>s, <1>w DEF NullDeref, Sibling
<1>7. Good(t, used) /\ t.size = tree.size /\ a \in used
    BY <1>5, <1>6, <1>t, <1>a, SiblingTurnedGood
<1>8. w \in used /\ t.parent[w] = a /\ SideOf(t, w) = Other(s) /\ near # Nil /\ a # Nil
    BY <1>6, <1>7, <1>w, <1>n, Children, Sides, Parents
<1>9. Good(t2, used) /\ t2.size = tree.size /\ w2 # Nil
  <2>1. SameLinks(t, u)
      BY <1>7, <1>u, Blackened, Reddened, SameTrans DEF SameLinks, Good, Tied
  <2>2. Good(u, used) /\ u.size = tree.size /\ u.child[Other(Other(s))][w] = near
      BY <2>1, <1>7, <1>n, SameGood, Sides DEF SameLinks
  <2>3. u.parent[w] = a /\ SideOf(u, w) = Other(s)
      BY <2>1, <1>8 DEF SameLinks, SideOf
  <2>4. /\ Good(Rotate(u, w, Other(s)), used) /\ Rotate(u, w, Other(s)).size = tree.size
        /\ Rotate(u, w, Other(s)).child[Other(s)][a] = near
      BY <2>2, <2>3, <1>8, Sides, RotateGood
  <2> QED
      BY <2>4, <1>2, <1>v, <1>w, <1>7, <1>8, <1>6
<1>10. SameLinks(t2, t3)
  <2>1. a \in Node /\ t2 \in Tree
      BY <1>7, <1>9 DEF Good, Tied
  <2>2. [t2.red EXCEPT ![w2] = t2.red[a]] \in [Node -> BOOLEAN]
      BY <2>1, TreeFields
  <2> QED
      BY <2>1, <2>2, <1>3, Painted DEF SameLinks
<1>11. SameLinks(t2, t4)
    BY <1>10, <1>4, Blackened, SameTrans DEF SameLinks
<1>12. Good(t4, used) /\ t4.size = tree.size /\ t4.child[Other(s)][a] # Nil
    BY <1>9, <1>11, <1>v, SameGood DEF SameLinks
<1>13. Good(tree', used) /\ tree'.size = tree.size
    BY <1>5, <1>7, <1>12, RotateGood
<1>14. cur' \in used
    BY <1>5, <1>7, <1>13 DEF Good, Tied, Linked
<1> QED
    BY <1>5, <1>13, <1>14 DEF IInv, Good, Tied, Link

LEMMA RemoveDoneInv == IInv /\ RemoveDone => IInv'
<1> SUFFICES ASSUME IInv, RemoveDone PROVE IInv'
    OBVIOUS
<1>1. SameLinks(tree, tree')
    BY Blackened DEF RemoveDone, IInv, Good, Tied
<1>2. Good(tree', used)
    BY <1>1, SameGood DEF IInv
<1> QED
    BY <1>1, <1>2 DEF IInv, RemoveDone, SameLinks, Link

LEMMA ClearInv == IInv /\ Clear => IInv'
<1> SUFFICES ASSUME IInv, Clear PROVE IInv'
    OBVIOUS
<1>1. tree' \in Tree
    BY DEF Clear, Tree, Link
<1>2. Linked(tree', used') /\ Loopless(tree', used') /\ Blank(tree', used')
    BY DEF Clear, Linked, Loopless, Blank, Side
<1>3. tree'.size = Cardinality(used')
    BY FS_EmptySet DEF Clear
<1> QED
    BY <1>1, <1>2, <1>3, EmptySorted DEF IInv, Good, Tied, Clear, Idle
-----------------------------------------------------------------------------
LEMMA NextInv == IInv /\ [Next]_vars => IInv'
<1> SUFFICES ASSUME IInv, [Next]_vars PROVE IInv'
    OBVIOUS
<1>1. CASE UNCHANGED vars
    BY <1>1 DEF vars, IInv
<1>2. CASE Client
    BY <1>2, ReplaceInv, AddFirstInv, AddInv, RemoveInv, ClearInv DEF Client
<1>3. CASE Rebalance
    BY <1>3, FlipInv, TurnAtBlackUncleInv, TurnWithoutUncleInv, AddDoneInv,
       RemoveCrashInv, MoveUpInv, TurnSiblingInv, RemoveDoneInv DEF Rebalance
<1> QED
    BY <1>1, <1>2, <1>3 DEF Next

\* Whatever is added and removed, and between any two iterations of a loop that
\* rebalances, the links are those of a tree.
THEOREM Invariance == Spec => []IInv
<1> QED
    BY InitInv, NextInv, PTL DEF Spec

\* rq_tree_rb keeps the fields of every node well typed, the freed ones included.
THEOREM TypeCorrect == Spec => []TypeOK
<1>1. IInv => TypeOK
    BY DEF IInv, TypeOK, Good, Tied
<1> QED
    BY <1>1, Invariance, PTL

\* left_rotate, right_rotate, the insertion and the unlinking set both ends of
\* every link, the head's included.
THEOREM Links == Spec => []LinksAgree
<1>1. IInv => LinksAgree
    BY DEF IInv, LinksAgree, Good, Tied
<1> QED
    BY <1>1, Invariance, PTL

\* No rotation makes a node its own ancestor, so the walks to the head end.
THEOREM Loops == Spec => []NoLoop
<1>1. IInv => NoLoop
    BY DEF IInv, NoLoop, Good, Tied
<1> QED
    BY <1>1, Invariance, PTL

\* rq_tree_rb_size counts the nodes of the tree.
THEOREM Size == Spec => []SizeIsCount
<1>1. IInv => SizeIsCount
    BY DEF IInv, SizeIsCount
<1> QED
    BY <1>1, Invariance, PTL

\* However many keys are added and removed, and at every step in between, the
\* nodes of rq_tree_rb are linked as one tree.
THEOREM KeptLinked == Spec => []WellLinked
<1> QED
    BY Links, Loops, Size, PTL DEF WellLinked
-----------------------------------------------------------------------------
(***************************************************************************)
(* Iterating: the walk up from a node that has nothing below it on a side. *)
(***************************************************************************)
\* No key of the tree lies between two keys of a range, unless it is of the range.
LEMMA Convex ==
    ASSUME NEW t, NEW U, Tied(t, U), NEW W, Ranges(t, U, W), NEW m \in U,
           NEW j \in Keys(t, U), j \notin W[m], NEW k \in W[m], NEW l \in W[m],
           NEW z \in Side, Past(z, k, j)
    PROVE  Past(z, l, j)
<1> DEFINE Split(c) == \E i \in Keys(t, U) \ W[c] : \E a \in W[c] : \E b \in W[c] :
                          \E y \in Side : Past(y, a, i) /\ ~Past(y, b, i)
           S == {c \in U : Split(c)}
<1>1. ASSUME NEW c \in S PROVE t.parent[c] \in S
    <2>1. PICK i \in Keys(t, U) \ W[c] : \E a \in W[c] : \E b \in W[c] :
                  \E y \in Side : Past(y, a, i) /\ ~Past(y, b, i)
        OBVIOUS
    <2>2. PICK a \in W[c], b \in W[c], y \in Side : Past(y, a, i) /\ ~Past(y, b, i)
        BY <2>1
    <2>3. PICK p : p = t.parent[c]
        OBVIOUS
    <2>4. c # t.head /\ c \in U
        BY <2>1, NilAssumption DEF Ranges, Tied
    <2>5. p \in U /\ \E q \in Side : t.child[q][p] = c
        BY <2>3, <2>4 DEF Tied, Linked
    <2>6. PICK q \in Side : t.child[q][p] = c
        BY <2>5
    <2>7. c # Nil
        BY <2>4, NilAssumption DEF Tied
    <2>8. /\ a \in W[p] /\ b \in W[p] /\ Past(q, t.key[p], a) /\ Past(q, t.key[p], b)
          /\ \A h \in W[p] : Past(q, t.key[p], h) => h \in W[c]
          /\ a \in Int /\ b \in Int /\ i \in Int /\ t.key[p] \in Int
        BY <2>4, <2>5, <2>6, <2>7, RangeFacts
    <2>9. i \notin W[p]
        <3> SUFFICES ASSUME i \in W[p] PROVE FALSE
            OBVIOUS
        <3>1. ~Past(q, t.key[p], i)
            BY <2>8
        <3>2. Past(q, i, a) /\ Past(q, i, b)
            <4>1. i = t.key[p] \/ Past(q, i, t.key[p])
                BY <2>8, <3>1, PastOrder
            <4> QED
                BY <2>8, <4>1, PastOrder
        <3>3. y = Other(q)
            BY <2>2, <2>8, <3>2, PastOrder DEF Side, Other
        <3> QED
            BY <2>2, <2>8, <3>2, <3>3, PastOrder
    <2> QED
        BY <2>2, <2>3, <2>5, <2>8, <2>9
<1>2. S \in SUBSET U
    OBVIOUS
<1> HIDE DEF S
<1>3. S = {}
    BY <1>1, <1>2 DEF Tied, Loopless
<1>4. ~Split(m)
    BY <1>3 DEF S
<1> QED
    BY <1>4

\* What comes after the key of n on one side, if nothing is below n there: what
\* the nodes that n is below on the other side have.
LEMMA AboveTrue ==
    ASSUME NEW t, NEW U, Tied(t, U), NEW W, Ranges(t, U, W),
           NEW n \in U, NEW s \in Side, t.child[s][n] = Nil,
           NEW z, z = Other(s), NEW e, e = Above(t, n, z), NEW k, k = t.key[n]
    PROVE  /\ e = Nil => \A j \in Keys(t, U) : ~Past(s, k, j)
           /\ e # Nil => /\ e \in U /\ Past(s, k, t.key[e])
                         /\ \A j \in Keys(t, U) : Past(s, k, j) =>
                                j = t.key[e] \/ Past(s, t.key[e], j)
<1>1. PICK N \in Nat : N = Cardinality(Node)
    BY NodeAssumption, FS_CardinalityType
<1>2. U \subseteq Node /\ U \subseteq Link /\ Nil \notin U /\ Nil \in Link /\ t \in Tree
    BY NilAssumption DEF Tied, Link
<1>z. z \in Side /\ s = Other(z) /\ \A y \in Side : y = z \/ y = s
    BY DEF Side, Other
<1>3. PICK up : up = [m \in Link |->
                  IF m = Nil \/ t.parent[m] = Nil THEN Nil
                  ELSE IF t.child[z][t.parent[m]] = m THEN m ELSE t.parent[m]]
    OBVIOUS
<1>4. up \in [Link -> Link]
    BY <1>2, <1>3, TreeFields DEF Link
<1>5. PICK at : at = CHOOSE f : f = [i \in 0..N |-> IF i = 0 THEN n ELSE up[f[i-1]]]
    OBVIOUS
<1>6. e = IF at[N] = Nil THEN Nil ELSE t.parent[at[N]]
  <2> DEFINE climb == [m \in Link |->
                  IF m = Nil \/ t.parent[m] = Nil THEN Nil
                  ELSE IF t.child[z][t.parent[m]] = m THEN m ELSE t.parent[m]]
             walk == CHOOSE f : f = [i \in 0..Cardinality(Node) |-> IF i = 0 THEN n ELSE climb[f[i-1]]]
  <2>1. Above(t, n, z) = IF walk[Cardinality(Node)] = Nil THEN Nil
                         ELSE t.parent[walk[Cardinality(Node)]]
      BY Zenon DEF Above
  <2>2. climb = up
      BY <1>3
  <2> HIDE DEF climb
  <2>3. walk = at
      BY <1>1, <1>5, <2>2
  <2> HIDE DEF walk
  <2> QED
      BY <1>1, <2>1, <2>3
<1>7. /\ up[Nil] = Nil
      /\ \A m \in U : up[m] = IF t.parent[m] = Nil THEN Nil
                              ELSE IF t.child[z][t.parent[m]] = m THEN m ELSE t.parent[m]
    BY <1>2, <1>3
<1>8. Iteration(at, Link, n, up, N)
    BY <1>2, <1>4, <1>5, Iterated
<1>9. up[at[N]] = at[N]
    <2>1. \A m \in U : up[m] \in {m, Nil, t.parent[m]}
        BY <1>7
    <2> QED
        BY <2>1, <1>1, <1>7, <1>8, WalkUp
<1>k. k \in Int /\ k \in W[n]
    BY RangeFacts
<1> DEFINE Q == {m \in U : k \in W[m] /\ \A j \in W[m] : ~Past(s, k, j)}
                \cup {m \in {Nil} : \A j \in Keys(t, U) : ~Past(s, k, j)}
<1>10. n \in Q
    <2>1. \A j \in W[n] : ~Past(s, k, j)
        BY RangeFacts
    <2> QED
        BY <2>1, <1>k
<1>11. ASSUME NEW m \in Link, m \in Q PROVE up[m] \in Q
    <2>1. CASE m = Nil
        BY <1>7, <1>11, <2>1
    <2>2. CASE m # Nil
        <3>1. m \in U /\ k \in W[m] /\ \A j \in W[m] : ~Past(s, k, j)
            BY <1>11, <2>2
        <3>2. CASE t.parent[m] = Nil
            <4>1. m = t.head
                BY <3>1, <3>2, <1>2 DEF Tied, Linked
            <4>2. W[m] = Keys(t, U)
                BY <4>1, <3>1, <1>2 DEF Ranges
            <4>3. up[m] = Nil
                BY <3>1, <3>2, <1>7
            <4> QED
                BY <3>1, <4>2, <4>3
        <3>3. CASE t.parent[m] # Nil /\ t.child[z][t.parent[m]] = m
            BY <3>1, <3>3, <1>7, <1>11
        <3>4. CASE t.parent[m] # Nil /\ t.child[z][t.parent[m]] # m
            <4>1. PICK p : p = t.parent[m]
                OBVIOUS
            <4>2. p \in U /\ up[m] = p /\ t.child[s][p] = m
                BY <3>1, <3>4, <4>1, <1>7, <1>z DEF Tied, Linked
            <4>3. /\ k \in W[p] /\ Past(s, t.key[p], k) /\ t.key[p] \in Int
                  /\ W[p] \in SUBSET Int
                  /\ \A j \in W[p] : Past(s, t.key[p], j) => j \in W[m]
                BY <3>1, <4>2, <2>2, RangeFacts
            <4>4. ASSUME NEW j \in W[p], Past(s, k, j) PROVE FALSE
                <5>1. Past(s, t.key[p], j)
                    BY <4>3, <4>4, <1>k, PastOrder
                <5> QED
                    BY <5>1, <4>3, <4>4, <3>1
            <4> QED
                BY <4>2, <4>3, <4>4
        <3> QED
            BY <3>2, <3>3, <3>4
    <2> QED
        BY <2>1, <2>2
<1> HIDE DEF Q
<1>12. at[N] \in Q
    <2>1. n \in Q /\ \A m \in Link : m \in Q => up[m] \in Q
        BY <1>10, <1>11
    <2>3. PICK R : R = Q
        OBVIOUS
    <2>4. n \in R /\ \A m \in Link : m \in R => up[m] \in R
        BY <2>1, <2>3
    <2>2. \A i \in 0..N : at[i] \in R
        BY <1>8, <2>4, IterationKeeps
    <2> QED
        BY <2>2, <2>3, <1>1
<1>13. CASE at[N] = Nil
    BY <1>2, <1>6, <1>12, <1>13 DEF Q
<1>14. CASE at[N] # Nil
    <2>1. PICK m : m = at[N]
        OBVIOUS
    <2>2. m \in U /\ k \in W[m] /\ \A j \in W[m] : ~Past(s, k, j)
        BY <1>12, <1>14, <2>1 DEF Q
    <2>3. e = t.parent[m] /\ up[m] = m
        BY <1>6, <1>9, <1>14, <2>1
    <2>4. t.parent[m] # m
        BY <1>2, <2>2, NoShortLoop DEF Tied
    <2>5. e # Nil /\ t.child[z][e] = m
        BY <1>2, <1>7, <2>2, <2>3, <2>4
    <2>6. e \in U
        BY <2>2, <2>3, <2>5 DEF Tied, Linked
    <2>7. /\ k \in W[e] /\ Past(z, t.key[e], k) /\ t.key[e] \in W[e] /\ t.key[e] \in Int
          /\ \A j \in W[e] : Past(z, t.key[e], j) => j \in W[m]
          /\ Keys(t, U) \in SUBSET Int
        BY <1>2, <1>z, <2>2, <2>5, <2>6, RangeFacts
    <2>8. Past(s, k, t.key[e])
        BY <2>7, <1>k, <1>z, PastOrder
    <2>9. ASSUME NEW j \in Keys(t, U), Past(s, k, j) PROVE j = t.key[e] \/ Past(s, t.key[e], j)
        <3>1. CASE j \in W[e]
            BY <1>z, <2>2, <2>7, <2>9, <3>1, PastOrder
        <3>2. CASE j \notin W[e]
            BY <2>6, <2>7, <2>9, <3>2, Convex
        <3> QED
            BY <3>1, <3>2
    <2> QED
        BY <2>5, <2>6, <2>8, <2>9
<1> QED
    BY <1>13, <1>14

\* A step of an iterator goes to the next key on its side, or there is none.
LEMMA StepTrue ==
    ASSUME NEW t, NEW U, Good(t, U), NEW n \in U, NEW s \in Side,
           NEW e, e = Step(t, n, s), NEW k, k = t.key[n]
    PROVE  /\ e = Nil => \A j \in Keys(t, U) : ~Past(s, k, j)
           /\ e # Nil => /\ e \in U /\ Past(s, k, t.key[e])
                         /\ \A j \in Keys(t, U) : Past(s, k, j) =>
                                j = t.key[e] \/ Past(s, t.key[e], j)
<1>1. PICK W : Ranges(t, U, W)
    BY DEF Good, Sorted
<1>2. PICK z \in Side : z = Other(s)
    BY DEF Side, Other
<1>3. Tied(t, U) /\ Nil \notin U
    BY NilAssumption DEF Good, Tied
<1>4. CASE t.child[s][n] = Nil
    BY <1>1, <1>2, <1>3, <1>4, AboveTrue DEF Step
<1>5. CASE t.child[s][n] # Nil
    <2>1. PICK c : c = t.child[s][n]
        OBVIOUS
    <2>2. c \in U /\ e = End(t, c, z)
        BY <1>2, <1>3, <1>5, <2>1 DEF Step, Tied, Linked
    <2>3. /\ e \in U /\ t.key[e] \in W[c]
          /\ \A j \in W[c] : j = t.key[e] \/ Past(z, j, t.key[e])
        BY <1>1, <1>3, <2>2, EndTrue
    <2>4. /\ \A j \in W[c] : j \in W[n] /\ Past(s, k, j)
          /\ \A j \in W[n] : Past(s, k, j) => j \in W[c]
          /\ k \in W[n] /\ k \in Int /\ t.key[e] \in Int /\ Keys(t, U) \in SUBSET Int
        BY <1>1, <1>5, <2>1, <2>3, RangeFacts
    <2>5. ASSUME NEW j \in Keys(t, U), Past(s, k, j) PROVE j = t.key[e] \/ Past(s, t.key[e], j)
        <3>1. CASE j \in W[n]
            BY <1>2, <2>3, <2>4, <2>5, <3>1, PastOrder
        <3>2. CASE j \notin W[n]
            BY <1>1, <1>3, <2>3, <2>4, <2>5, <3>2, Convex
        <3> QED
            BY <3>1, <3>2
    <2> QED
        BY <1>3, <2>3, <2>4, <2>5
<1> QED
    BY <1>4, <1>5
-----------------------------------------------------------------------------
LEMMA OrderHolds == IInv => NeighboursInOrder
<1> SUFFICES ASSUME IInv, NEW n \in used
             PROVE  LET k == tree.key[n]
                        next == Step(tree, n, "left")
                        previous == Step(tree, n, "right")
                        K == {tree.key[m] : m \in used}
                    IN /\ IF \A j \in K : j <= k THEN next = Nil /\ n = End(tree, tree.head, "left")
                          ELSE next # Nil /\ tree.key[next] > k /\ \A j \in K : j > k => tree.key[next] <= j
                       /\ IF \A j \in K : j >= k THEN previous = Nil /\ n = End(tree, tree.head, "right")
                          ELSE previous # Nil /\ Step(tree, previous, "left") = n
    BY DEF NeighboursInOrder
<1>k. PICK k : k = tree.key[n]
    OBVIOUS
<1>a. PICK next : next = Step(tree, n, "left")
    OBVIOUS
<1>b. PICK previous : previous = Step(tree, n, "right")
    OBVIOUS
<1>K. PICK K : K = Keys(tree, used)
    OBVIOUS
<1>W. PICK W : Ranges(tree, used, W)
    BY DEF IInv, Good, Sorted
<1>1. Good(tree, used) /\ Tied(tree, used) /\ "left" \in Side /\ "right" \in Side
    BY DEF IInv, Good, Side
<1>2. /\ K \in SUBSET Int /\ k \in K /\ k \in Int
      /\ \A m \in used : tree.key[m] \in K /\ tree.key[m] \in Int
      /\ \A m \in used : tree.key[m] = k => m = n
    BY <1>1, <1>k, <1>K, <1>W, RangeFacts DEF Keys, Good, Sorted, Distinct
<1>3. /\ next = Nil => \A j \in K : ~(k < j)
      /\ next # Nil => /\ next \in used /\ k < tree.key[next]
                       /\ \A j \in K : k < j => j = tree.key[next] \/ tree.key[next] < j
  <2>1. /\ next = Nil => \A j \in K : ~Past("left", k, j)
        /\ next # Nil => /\ next \in used /\ Past("left", k, tree.key[next])
                         /\ \A j \in K : Past("left", k, j) =>
                                j = tree.key[next] \/ Past("left", tree.key[next], j)
      BY <1>1, <1>a, <1>k, <1>K, StepTrue
  <2> QED
      BY <2>1 DEF Past
<1>4. /\ previous = Nil => \A j \in K : ~(j < k)
      /\ previous # Nil => /\ previous \in used /\ tree.key[previous] < k
                           /\ \A j \in K : j < k => j = tree.key[previous] \/ j < tree.key[previous]
  <2>1. /\ previous = Nil => \A j \in K : ~Past("right", k, j)
        /\ previous # Nil => /\ previous \in used /\ Past("right", k, tree.key[previous])
                             /\ \A j \in K : Past("right", k, j) =>
                                    j = tree.key[previous] \/ Past("right", tree.key[previous], j)
      BY <1>1, <1>b, <1>k, <1>K, StepTrue
  <2> QED
      BY <2>1 DEF Past
<1>5. ASSUME NEW s \in Side, \A j \in K : j = k \/ Past(s, j, k)
      PROVE  n = End(tree, tree.head, s)
  <2>1. PICK e : e = End(tree, tree.head, s)
      OBVIOUS
  <2>2. tree.head \in used /\ W[tree.head] = K
      BY <1>1, <1>K, <1>W, NilAssumption DEF Tied, Linked, Ranges
  <2>3. e \in used /\ \A j \in W[tree.head] : j = tree.key[e] \/ Past(s, j, tree.key[e])
      BY <1>1, <1>W, <2>1, <2>2, EndTrue
  <2>4. tree.key[e] \in K /\ tree.key[e] \in Int
      BY <1>2, <2>3
  <2>5. k = tree.key[e] \/ Past(s, k, tree.key[e])
      BY <1>2, <2>2, <2>3
  <2>6. tree.key[e] = k
      BY <1>2, <1>5, <2>4, <2>5, PastOrder
  <2> QED
      BY <1>2, <2>1, <2>3, <2>6
<1>6. IF \A j \in K : j <= k THEN next = Nil /\ n = End(tree, tree.head, "left")
      ELSE next # Nil /\ tree.key[next] > k /\ \A j \in K : j > k => tree.key[next] <= j
  <2>1. CASE \A j \in K : j <= k
    <3>1. next = Nil
        BY <1>2, <1>3, <2>1
    <3>3. ASSUME NEW j \in K PROVE j = k \/ j < k
        <4>1. j \in Int /\ k \in Int
            BY <1>2
        <4>2. j <= k
            BY <2>1
        <4> QED
            BY <4>1, <4>2
    <3>2. \A j \in K : j = k \/ Past("left", j, k)
        BY <3>3 DEF Past
    <3> QED
        BY <1>1, <1>5, <2>1, <3>1, <3>2
  <2>2. CASE ~\A j \in K : j <= k
    <3>1. next # Nil
        BY <1>2, <1>3, <2>2
    <3> QED
        BY <1>2, <1>3, <2>2, <3>1
  <2> QED
      BY <2>1, <2>2
<1>7. IF \A j \in K : j >= k THEN previous = Nil /\ n = End(tree, tree.head, "right")
      ELSE previous # Nil /\ Step(tree, previous, "left") = n
  <2>1. CASE \A j \in K : j >= k
    <3>1. previous = Nil
        BY <1>2, <1>4, <2>1
    <3>2. \A j \in K : j = k \/ Past("right", j, k)
        BY <1>2, <2>1 DEF Past
    <3> QED
        BY <1>1, <1>5, <2>1, <3>1, <3>2
  <2>2. CASE ~\A j \in K : j >= k
    <3>1. previous # Nil
        BY <1>2, <1>4, <2>2
    <3>2. previous \in used /\ tree.key[previous] < k /\ tree.key[previous] \in Int
        BY <1>2, <1>4, <3>1
    <3>3. PICK e : e = Step(tree, previous, "left")
        OBVIOUS
    <3>4. PICK l : l = tree.key[previous]
        OBVIOUS
    <3>5. /\ e = Nil => \A j \in K : ~Past("left", l, j)
          /\ e # Nil => /\ e \in used /\ Past("left", l, tree.key[e])
                        /\ \A j \in K : Past("left", l, j) =>
                               j = tree.key[e] \/ Past("left", tree.key[e], j)
        BY <1>1, <1>K, <3>2, <3>3, <3>4, StepTrue
    <3>6. e \in used /\ l < tree.key[e] /\ (k = tree.key[e] \/ tree.key[e] < k)
        BY <1>2, <3>2, <3>4, <3>5 DEF Past
    <3>7. tree.key[e] \in K /\ tree.key[e] \in Int
        BY <1>2, <3>6
    <3>8. tree.key[e] = k
        BY <1>4, <3>1, <3>2, <3>4, <3>6, <3>7
    <3> QED
        BY <1>2, <2>2, <3>1, <3>3, <3>6, <3>8
  <2> QED
      BY <2>1, <2>2
<1> QED
    BY <1>6, <1>7, <1>k, <1>a, <1>b, <1>K DEF Keys

\* The iterators of every tree, however many nodes it has, visit the keys in order.
THEOREM Ordered == Spec => []NeighboursInOrder
<1>1. Spec => []IInv
    BY Invariance
<1>2. IInv => NeighboursInOrder
    BY OrderHolds
<1> QED
    BY <1>1, <1>2, PTL
-----------------------------------------------------------------------------
(***************************************************************************)
(* The tree as a map.                                                      *)
(***************************************************************************)
\* What Map takes the tree t for.
Store(t) == [k \in Key |-> LET n == Find(t, k) IN IF n = Nil THEN Nil ELSE t.data[n]]

\* A key has the data of its node; it has none if no node is its node.
LEMMA StoreIs ==
    ASSUME NEW t, NEW U, Good(t, U), NEW k \in Key
    PROVE  /\ \A n \in U : t.key[n] = k => Store(t)[k] = t.data[n]
           /\ (\A n \in U : t.key[n] # k) => Store(t)[k] = Nil
<1>1. Tied(t, U) /\ Sorted(t, U) /\ Nil \notin U
    BY NilAssumption DEF Good, Tied
<1>2. Store(t)[k] = IF Find(t, k) = Nil THEN Nil ELSE t.data[Find(t, k)]
    BY DEF Store
<1>3. \A n \in U : t.key[n] = k => Find(t, k) = n
    BY <1>1, FindTrue
<1>4. (\A n \in U : t.key[n] # k) => Find(t, k) = Nil
    BY <1>1, FindTrue
<1> QED
    BY <1>1, <1>2, <1>3, <1>4

\* The map does not depend on the links.
LEMMA StoreSame ==
    ASSUME NEW t, NEW r, NEW U, Good(t, U), Good(r, U), r.key = t.key, r.data = t.data
    PROVE  Store(r) = Store(t)
<1>1. ASSUME NEW k \in Key PROVE Store(r)[k] = Store(t)[k]
    BY StoreIs
<1> QED
    BY <1>1 DEF Store

\* t is a record that has the keys f and the data d.
Carries(t, f, d) == /\ t = [x \in DOMAIN t |-> t[x]] /\ {"key", "data"} \subseteq DOMAIN t
                    /\ t.key = f /\ t.data = d

LEMMA PaintedCarries ==
    ASSUME NEW t, NEW f, NEW d, Carries(t, f, d), NEW c
    PROVE  Carries([t EXCEPT !.red = c], f, d)
BY DEF Carries

LEMMA ColouredCarries ==
    ASSUME NEW t, NEW f, NEW d, Carries(t, f, d)
    PROVE  /\ \A N : Carries(Blacken(t, N), f, d)
           /\ \A n : Carries(Redden(t, n), f, d)
BY PaintedCarries DEF Blacken, Redden

LEMMA RotateCarries ==
    ASSUME NEW t, NEW f, NEW d, Carries(t, f, d), NEW n, NEW s
    PROVE  Carries(Rotate(t, n, s), f, d)
<1>1. ASSUME NEW h, NEW c, NEW p
      PROVE  Carries([t EXCEPT !.head = h, !.child = c, !.parent = p], f, d)
    BY DEF Carries
<1> QED
    BY <1>1 DEF Rotate

LEMMA SiblingTurnedCarries ==
    ASSUME NEW f, NEW d, Carries(tree, f, d) PROVE Carries(SiblingTurned, f, d)
<1>1. PICK N, a, s : N = {Sibling(tree)} /\ a = Above_x /\ s = xSide
    OBVIOUS
<1>2. Carries(Rotate(Redden(Blacken(tree, N), a), a, s), f, d)
    BY ColouredCarries, RotateCarries
<1> QED
    BY <1>1, <1>2 DEF SiblingTurned

\* No rebalancing touches the keys or the data.
LEMMA RebalanceKeeps ==
    ASSUME tree \in Tree, Rebalance
    PROVE  tree'.key = tree.key /\ tree'.data = tree.data /\ used' = used
<1>f. PICK f, d : f = tree.key /\ d = tree.data
    OBVIOUS
<1>r. PICK r : r = tree'
    OBVIOUS
<1> SUFFICES Carries(r, f, d) /\ used' = used
    BY <1>f, <1>r DEF Carries
<1>1. Carries(tree, f, d)
    BY <1>f DEF Carries, Tree
<1>2. CASE Flip
    BY <1>1, <1>r, <1>2, ColouredCarries DEF Flip
<1>3. CASE TurnAtBlackUncle
    BY <1>1, <1>r, <1>3, ColouredCarries, RotateCarries DEF TurnAtBlackUncle
<1>4. CASE TurnWithoutUncle
    BY <1>1, <1>r, <1>4, ColouredCarries, RotateCarries DEF TurnWithoutUncle
<1>5. CASE AddDone
    BY <1>1, <1>r, <1>5, ColouredCarries DEF AddDone
<1>6. CASE RemoveCrash
    BY <1>1, <1>r, <1>6 DEF RemoveCrash
<1>7. CASE MoveUp
    BY <1>1, <1>r, <1>7, SiblingTurnedCarries, ColouredCarries DEF MoveUp
<1>8. CASE TurnSibling
    BY <1>1, <1>r, <1>8, SiblingTurnedCarries, ColouredCarries, RotateCarries, PaintedCarries
       DEF TurnSibling
<1>9. CASE RemoveDone
    BY <1>1, <1>r, <1>9, ColouredCarries DEF RemoveDone
<1> QED
    BY <1>2, <1>3, <1>4, <1>5, <1>6, <1>7, <1>8, <1>9 DEF Rebalance
-----------------------------------------------------------------------------
\* Key j has the same in both trees, if it is in either.
Agree(t, U, r, V, j) ==
    /\ \A m \in U : t.key[m] = j => \E n \in V : r.key[n] = j /\ r.data[n] = t.data[m]
    /\ \A n \in V : r.key[n] = j => \E m \in U : t.key[m] = j

LEMMA OneKey ==
    ASSUME NEW t, NEW U, Good(t, U), NEW r, NEW V, Good(r, V), NEW k \in Key, NEW d,
           Store(r)[k] = d,
           \A j \in Key : j # k => Agree(t, U, r, V, j)
    PROVE  Store(r) = [Store(t) EXCEPT ![k] = d]
<1>2. ASSUME NEW j \in Key, j # k PROVE Store(r)[j] = Store(t)[j]
    <2>1. Agree(t, U, r, V, j)
        BY <1>2
    <2>2. CASE \E m \in U : t.key[m] = j
        <3>1. PICK m \in U : t.key[m] = j
            BY <2>2
        <3>2. PICK n \in V : r.key[n] = j /\ r.data[n] = t.data[m]
            BY <2>1, <3>1 DEF Agree
        <3>3. Store(t)[j] = t.data[m]
            BY <3>1, StoreIs
        <3>4. Store(r)[j] = r.data[n]
            BY <3>2, StoreIs
        <3> QED
            BY <3>2, <3>3, <3>4
    <2>3. CASE \A m \in U : t.key[m] # j
        <3>1. \A n \in V : r.key[n] # j
            BY <2>1, <2>3 DEF Agree
        <3>2. Store(t)[j] = Nil
            BY <2>3, StoreIs
        <3>3. Store(r)[j] = Nil
            BY <3>1, StoreIs
        <3> QED
            BY <3>2, <3>3
    <2> QED
        BY <2>2, <2>3
<1>3. PICK f, g : f = Store(t) /\ g = Store(r)
    OBVIOUS
<1>4. f = [j \in Key |-> f[j]] /\ g = [j \in Key |-> g[j]]
    BY <1>3 DEF Store
<1>5. g = [f EXCEPT ![k] = d]
    BY <1>2, <1>3, <1>4
<1> QED
    BY <1>3, <1>5

LEMMA ReplacePuts ==
    ASSUME IInv, NEW k \in Key, NEW d \in Data, Replace(k, d), NEW r, r = tree', Good(r, used)
    PROVE  Store(r) = [Store(tree) EXCEPT ![k] = d]
<1>1. PICK n : n = Find(tree, k)
    OBVIOUS
<1>2. n \in used /\ tree.key[n] = k /\ tree \in Tree /\ used \subseteq Node
    <2>1. n # Nil
        BY <1>1 DEF Replace
    <2> QED
        BY <2>1, <1>1, FindTrue DEF IInv, Good, Tied
<1>3. r = [tree EXCEPT !.data[n] = d]
    BY <1>1 DEF Replace
<1>4. r.key = tree.key /\ \A m \in used : r.data[m] = IF m = n THEN d ELSE tree.data[m]
    BY <1>2, <1>3 DEF Tree
<1>5. \A j \in Key : j # k => Agree(tree, used, r, used, j)
    BY <1>2, <1>4 DEF Agree
<1>6. Good(tree, used) /\ Good(r, used) /\ Store(r)[k] = d
    BY <1>2, <1>4, StoreIs DEF IInv
<1> QED
    BY <1>5, <1>6, OneKey

\* A node that comes has the key and its data; the others keep theirs.
LEMMA NewNodePuts ==
    ASSUME IInv, NEW k \in Key, NEW d \in Data, k \notin Keys(tree, used),
           NEW n \in Node \ used, NEW r, Good(r, used \cup {n}),
           r.key = [tree.key EXCEPT ![n] = k], r.data = [tree.data EXCEPT ![n] = d]
    PROVE  Store(r) = [Store(tree) EXCEPT ![k] = d]
<1>V. PICK V : V = used \cup {n}
    OBVIOUS
<1>1. tree \in Tree /\ used \subseteq Node /\ Good(tree, used)
    BY DEF IInv, Good, Tied
<1>2. \A m \in used \cup {n} : /\ r.key[m] = IF m = n THEN k ELSE tree.key[m]
                               /\ r.data[m] = IF m = n THEN d ELSE tree.data[m]
    BY <1>1, TreeFields
<1>3. \A j \in Key : j # k => Agree(tree, used, r, V, j)
    BY <1>2, <1>V DEF Agree
<1>4. Good(r, V) /\ n \in V /\ r.key[n] = k /\ r.data[n] = d
    BY <1>2, <1>V
<1>5. Store(r)[k] = d
    <2>1. k \in Key
        OBVIOUS
    <2>2. Store(r)[k] = r.data[n]
        BY ONLY <1>4, <2>1, StoreIs
    <2> QED
        BY ONLY <1>4, <2>2
<1> QED
    BY <1>1, <1>3, <1>4, <1>5, OneKey

LEMMA AddFirstPuts ==
    ASSUME IInv, NEW k \in Key, NEW d \in Data, AddFirst(k, d),
           NEW r, r = tree', Good(r, used')
    PROVE  Store(r) = [Store(tree) EXCEPT ![k] = d]
<1>1. PICK n \in Node \ used :
        /\ tree' = [tree EXCEPT !.head = n, !.size = @ + 1, !.key[n] = k, !.data[n] = d]
        /\ used' = used \cup {n}
    BY DEF AddFirst
<1>2. tree \in Tree
    BY DEF IInv, Good, Tied
<1>3. r.key = [tree.key EXCEPT ![n] = k] /\ r.data = [tree.data EXCEPT ![n] = d]
    BY <1>1, <1>2 DEF Tree
<1>4. k \notin Keys(tree, used)
    BY NilAssumption DEF AddFirst, IInv, Good, Tied, Linked, Keys
<1>5. Good(r, used \cup {n}) /\ IInv /\ k \in Key /\ d \in Data /\ n \in Node \ used
    BY <1>1
<1> QED
    BY ONLY <1>3, <1>4, <1>5, NewNodePuts

LEMMA AddPuts ==
    ASSUME IInv, NEW k \in Key, NEW d \in Data, Add(k, d), NEW r, r = tree', Good(r, used')
    PROVE  Store(r) = [Store(tree) EXCEPT ![k] = d]
<1>1. PICK n \in Node \ used, p \in used :
        /\ OnPath(tree, k, p) /\ tree.child[Toward(tree, p, k)][p] = Nil
        /\ tree' = [tree EXCEPT !.size = @ + 1, !.child[Toward(tree, p, k)][p] = n,
                                !.parent[n] = p, !.red[n] = TRUE,
                                !.key[n] = k, !.data[n] = d]
        /\ used' = used \cup {n}
        /\ cur' = n
    BY Zenon DEF Add
<1>2. tree \in Tree
    BY DEF IInv, Good, Tied
<1>3. r.key = [tree.key EXCEPT ![n] = k] /\ r.data = [tree.data EXCEPT ![n] = d]
    BY <1>1, <1>2 DEF Tree
<1>4. k \notin Keys(tree, used)
    <2>1. Find(tree, k) = Nil
        BY DEF Add
    <2>2. Tied(tree, used) /\ Sorted(tree, used) /\ Nil \notin used
        BY NilAssumption DEF IInv, Good, Tied
    <2> QED
        BY <2>1, <2>2, FindTrue
<1>5. Good(r, used \cup {n}) /\ IInv /\ k \in Key /\ d \in Data /\ n \in Node \ used
    BY <1>1
<1> QED
    BY ONLY <1>3, <1>4, <1>5, NewNodePuts

LEMMA RemoveDrops ==
    ASSUME IInv, NEW k \in Key, Remove(k), NEW r, r = tree', Good(r, used')
    PROVE  Store(r) = [Store(tree) EXCEPT ![k] = Nil]
<1>1. PICK n \in used, y \in used :
        LET x == IF tree.child["left"][y] # Nil THEN tree.child["left"][y]
                                               ELSE tree.child["right"][y]
        IN /\ n = Find(tree, k)
           /\ tree' = Unlink(tree, n, y, x)
           /\ used' = used \ {y}
    BY DEF Remove
<1>2. /\ Good(tree, used) /\ tree \in Tree /\ used \subseteq Node
      /\ \A a, b \in used : tree.key[a] = tree.key[b] => a = b
    BY DEF IInv, Good, Tied, Sorted, Distinct
<1>3. tree.key[n] = k
    BY <1>1, FindTrue DEF IInv, Good
<1>4. /\ r.key = [tree.key EXCEPT ![n] = tree.key[y], ![y] = Nil]
      /\ r.data = [tree.data EXCEPT ![n] = tree.data[y], ![y] = Nil]
    BY <1>1, <1>2 DEF Unlink, Bypass, Tree
<1>5. \A m \in used \ {y} : /\ r.key[m] = IF m = n THEN tree.key[y] ELSE tree.key[m]
                            /\ r.data[m] = IF m = n THEN tree.data[y] ELSE tree.data[m]
    BY <1>2, <1>4, TreeFields
<1>6. \A m \in used \ {y} : r.key[m] # k
    BY <1>2, <1>3, <1>5
<1>7. \A j \in Key : j # k => Agree(tree, used, r, used \ {y}, j)
    <2> SUFFICES ASSUME NEW j \in Key, j # k PROVE Agree(tree, used, r, used \ {y}, j)
        OBVIOUS
    <2>1. ASSUME NEW m \in used, tree.key[m] = j
          PROVE  \E a \in used \ {y} : r.key[a] = j /\ r.data[a] = tree.data[m]
        <3>1. m # n
            BY <1>3, <2>1
        <3>2. CASE m = y
            BY <1>5, <2>1, <3>1, <3>2
        <3>3. CASE m # y
            BY <1>5, <2>1, <3>1, <3>3
        <3> QED
            BY <3>2, <3>3
    <2>2. \A a \in used \ {y} : r.key[a] = j => \E m \in used : tree.key[m] = j
        BY <1>5
    <2> QED
        BY <2>1, <2>2 DEF Agree
<1>8. Good(tree, used) /\ Good(r, used \ {y})
    BY <1>1, <1>2
<1>9. Store(r)[k] = Nil
    BY <1>6, <1>8, StoreIs
<1> QED
    BY <1>7, <1>8, <1>9, OneKey

\* Nothing is in an empty tree.
LEMMA NothingStored ==
    ASSUME NEW t, Good(t, {}) PROVE Store(t) = [k \in Key |-> Nil]
<1>1. \A k \in Key : Store(t)[k] = Nil
    BY StoreIs
<1> QED
    BY <1>1 DEF Store
-----------------------------------------------------------------------------
LEMMA StoreSteps ==
    ASSUME IInv, IInv', [Next]_vars
    PROVE  \/ Store(tree)' = Store(tree)
           \/ Store(tree)' = [k \in Key |-> Nil]
           \/ \E k \in Key : \/ Store(tree)' = [Store(tree) EXCEPT ![k] = Nil]
                             \/ \E d \in Data : Store(tree)' = [Store(tree) EXCEPT ![k] = d]
<1>r. PICK r : r = tree'
    OBVIOUS
<1>U. PICK U : U = used'
    OBVIOUS
<1>1. Store(tree)' = Store(r) /\ Good(r, U) /\ Good(tree, used) /\ tree \in Tree
    BY <1>r, <1>U DEF Store, IInv, Good, Tied, Sorted, Ranges
<1>2. CASE UNCHANGED vars
    <2>1. r = tree
        BY <1>2, <1>r DEF vars
    <2> QED
        BY <1>1, <2>1
<1>3. CASE Rebalance
    <2>1. r.key = tree.key /\ r.data = tree.data /\ U = used
        BY <1>1, <1>3, <1>r, <1>U, RebalanceKeeps
    <2>2. Store(r) = Store(tree)
        BY <1>1, <2>1, StoreSame
    <2> QED
        BY <1>1, <2>2
<1>4. ASSUME NEW k \in Key, NEW d \in Data, Replace(k, d) \/ AddFirst(k, d) \/ Add(k, d)
      PROVE  Store(r) = [Store(tree) EXCEPT ![k] = d]
    <2>1. CASE Replace(k, d)
        <3>1. Good(r, used)
            BY <1>1, <1>U, <2>1 DEF Replace
        <3> QED
            BY <1>r, <2>1, <3>1, ReplacePuts
    <2>2. CASE AddFirst(k, d)
        BY <1>1, <1>r, <1>U, <2>2, AddFirstPuts
    <2>3. CASE Add(k, d)
        BY <1>1, <1>r, <1>U, <2>3, AddPuts
    <2> QED
        BY <1>4, <2>1, <2>2, <2>3
<1>5. ASSUME NEW k \in Key, Remove(k)
      PROVE  Store(r) = [Store(tree) EXCEPT ![k] = Nil]
    BY <1>1, <1>5, <1>r, <1>U, RemoveDrops
<1>6. CASE Clear
    <2>1. Good(r, {})
        BY <1>1, <1>6, <1>U DEF Clear
    <2> QED
        BY <1>1, <2>1, NothingStored
<1>7. CASE \E k \in Key, d \in Data : Replace(k, d) \/ AddFirst(k, d) \/ Add(k, d)
    <2>1. PICK k \in Key, d \in Data : Replace(k, d) \/ AddFirst(k, d) \/ Add(k, d)
        BY <1>7
    <2>2. Store(r) = [Store(tree) EXCEPT ![k] = d]
        BY <1>4, <2>1
    <2> QED
        BY <1>1, <2>2
<1>8. CASE \E k \in Key : Remove(k)
    BY <1>1, <1>5, <1>8
<1> QED
    BY <1>2, <1>3, <1>6, <1>7, <1>8 DEF Next, Client

\* Every tree is a map: what is done to the tree does that to the map, in one step,
\* and rebalancing does nothing to the map.
THEOREM IsMap == Spec => MapRefined
<1>1. Init => Map!Init
    <2> SUFFICES ASSUME Init PROVE Map!Init
        OBVIOUS
    <2>1. Good(tree, {})
        BY InitInv DEF Init, IInv
    <2>2. Store(tree) = [k \in Key |-> Nil]
        BY <2>1, NothingStored
    <2> QED
        BY <2>2 DEF Map!Init, Store
<1>2. IInv /\ IInv' /\ [Next]_vars => [Map!Next]_Map!vars
    <2> SUFFICES ASSUME IInv, IInv', [Next]_vars PROVE [Map!Next]_Map!vars
        OBVIOUS
    <2>1. \/ Store(tree)' = Store(tree)
          \/ Store(tree)' = [k \in Key |-> Nil]
          \/ \E k \in Key : \/ Store(tree)' = [Store(tree) EXCEPT ![k] = Nil]
                            \/ \E d \in Data : Store(tree)' = [Store(tree) EXCEPT ![k] = d]
        BY StoreSteps
    <2> QED
        BY <2>1 DEF Map!Next, Map!Put, Map!Drop, Map!Clear, Map!vars, Store
<1> QED
    BY <1>1, <1>2, Invariance, PTL DEF Spec, MapRefined, Map!Spec
=============================================================================
