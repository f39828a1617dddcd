------------------------- MODULE ContainersProofs -------------------------
(***************************************************************************)
(* The lists, the arrays, the hash table, the string set and the           *)
(* registries, for every memory and every size; and from them that what    *)
(* is put into any of the containers is found there (ItemsAreFound).       *)
(***************************************************************************)
EXTENDS MCContainers, FiniteSetTheorems, SequenceTheorems, Induction, TLAPS

ListSpec == ListInit /\ [][ListNext]_listVars

NodeOrNone == Node \cup {NoNode}

ListTypeOK ==
    /\ order \in Seq(Node)
    /\ list \in [head : NodeOrNone, tail : NodeOrNone, count : Nat,
                 next : [Node -> NodeOrNone], prev : [Node -> NodeOrNone]]

\* No node is in the list twice.
OnceEach == \A i, j \in 1..Len(order) : order[i] = order[j] => i = j

\* A node that is not in the list has no links.
FreshNodes == \A n \in Node : (\A i \in 1..Len(order) : order[i] # n) =>
                 list.next[n] = NoNode /\ list.prev[n] = NoNode

ListInv == ListTypeOK /\ OnceEach /\ FreshNodes /\ LinksKept

LEMMA UsedNodes == ASSUME ListTypeOK, NEW n PROVE n \in Used <=> \E i \in 1..Len(order) : order[i] = n
  BY DEF ListTypeOK, Used, ToSet

LEMMA LinksAre ==
    ASSUME LinksKept, NEW k \in Nat, k = Len(order)
    PROVE  /\ list.count = k
           /\ list.tail = IF k = 0 THEN NoNode ELSE order[k]
           /\ list.head = IF k = 0 THEN NoNode ELSE order[1]
           /\ \A i \in 1..k : /\ list.next[order[i]] = IF i = k THEN NoNode ELSE order[i+1]
                              /\ double => list.prev[order[i]] = IF i = 1 THEN NoNode ELSE order[i-1]
<1>1. /\ list.count = k
      /\ list.head = (IF 1 \in 1..k THEN order[1] ELSE NoNode) /\ list.tail = (IF k \in 1..k THEN order[k] ELSE NoNode)
      /\ \A i \in 1..k : /\ list.next[order[i]] = IF i+1 \in 1..k THEN order[i+1] ELSE NoNode
                         /\ double => list.prev[order[i]] = IF i-1 \in 1..k THEN order[i-1] ELSE NoNode
    BY Zenon DEF LinksKept
<1>2. (1 \in 1..k <=> k # 0) /\ (k \in 1..k <=> k # 0)
    OBVIOUS
<1>3. ASSUME NEW i \in 1..k PROVE (i+1 \in 1..k <=> i # k) /\ (i-1 \in 1..k <=> i # 1)
    OBVIOUS
<1> QED
    BY ONLY <1>1, <1>2, <1>3

LEMMA ListInitInv == ListInit => ListInv
  BY NoNodeAssumption DEF ListInit, NoList, ListInv, ListTypeOK, OnceEach, FreshNodes, LinksKept, NodeOrNone

LEMMA AppendKeeps == ASSUME ListInv, NEW n \in Node, ListAppend(n) PROVE ListInv'
<1> DEFINE k == Len(order)
<1>1. /\ k \in Nat /\ Len(order') = k + 1 /\ order' \in Seq(Node) /\ order'[k+1] = n
      /\ \A i \in 1..k : order'[i] = order[i] /\ order[i] # n /\ order[i] \in Node
  BY UsedNodes DEF ListAppend, ListInv, ListTypeOK
<1>2. /\ list.count = k
      /\ list.tail = IF k = 0 THEN NoNode ELSE order[k]
      /\ list.head = IF k = 0 THEN NoNode ELSE order[1]
      /\ \A i \in 1..k : /\ list.next[order[i]] = IF i = k THEN NoNode ELSE order[i+1]
                         /\ double => list.prev[order[i]] = IF i = 1 THEN NoNode ELSE order[i-1]
  BY <1>1, LinksAre DEF ListInv
<1>0. /\ list \in [head : NodeOrNone, tail : NodeOrNone, count : Nat,
                   next : [Node -> NodeOrNone], prev : [Node -> NodeOrNone]]
      /\ n \in NodeOrNone
  BY DEF ListInv, ListTypeOK, NodeOrNone
<1>3. list.next[n] = NoNode /\ list.prev[n] = NoNode
  BY <1>1 DEF ListInv, FreshNodes
<1>4. OnceEach'
  BY <1>1 DEF ListInv, OnceEach
<1> DEFINE L == Linked(list, n)
<1>5. /\ L \in [head : NodeOrNone, tail : NodeOrNone, count : Nat,
                next : [Node -> NodeOrNone], prev : [Node -> NodeOrNone]]
      /\ L.count = k + 1 /\ L.tail = n /\ L.prev = list.prev
      /\ L.head = IF k = 0 THEN n ELSE order[1]
      /\ \A m \in Node : L.next[m] = IF k > 0 /\ m = order[k] THEN n ELSE list.next[m]
  <2>1. CASE k = 0
    <3>1. L = [list EXCEPT !.head = n, !.tail = n, !.count = @ + 1]
      BY <2>1, <1>2 DEF Linked
    <3> HIDE DEF L
    <3>2. L = [head |-> n, tail |-> n, count |-> list.count + 1, next |-> list.next, prev |-> list.prev]
      BY <3>1, <1>0
    <3> QED BY <2>1, <3>2, <1>2, <1>0, <1>1
  <2>2. CASE k > 0
    <3>1. list.tail \in Node /\ list.tail # NoNode /\ list.tail = order[k]
      BY <2>2, <1>1, <1>2, NoNodeAssumption
    <3>2. L = [list EXCEPT !.next[list.tail] = n, !.tail = n, !.count = @ + 1]
      BY <3>1 DEF Linked
    <3> HIDE DEF L
    <3>3. L = [head |-> list.head, tail |-> n, count |-> list.count + 1,
               next |-> [list.next EXCEPT ![list.tail] = n], prev |-> list.prev]
      BY <3>2, <1>0
    <3>4. [list.next EXCEPT ![list.tail] = n] \in [Node -> NodeOrNone]
      BY <3>1, <1>0
    <3> QED BY <2>2, <3>1, <3>3, <3>4, <1>0, <1>1, <1>2
  <2> QED BY <1>1, <2>1, <2>2
<1>6. /\ list' \in [head : NodeOrNone, tail : NodeOrNone, count : Nat,
                    next : [Node -> NodeOrNone], prev : [Node -> NodeOrNone]]
      /\ list'.count = k + 1 /\ list'.tail = n /\ list'.next = L.next
      /\ list'.head = L.head
      /\ \A m \in Node : list'.prev[m] = IF double /\ m = n THEN list.tail ELSE list.prev[m]
  <2>1. list.tail \in NodeOrNone
    BY DEF ListInv, ListTypeOK
  <2>2. CASE double
    <3>1. list' = [L EXCEPT !.prev[n] = list.tail]
      BY <2>2 DEF ListAppend, LinkedLast
    <3> QED BY <3>1, <2>1, <2>2, <1>5
  <2>3. CASE ~double
    BY <2>3, <1>5 DEF ListAppend
  <2> QED BY <2>2, <2>3
<1>7. double' = double BY DEF ListAppend
<1> HIDE DEF L, k
<1>8. \A i \in 1..k+1 : /\ list'.next[order'[i]] = IF i = k+1 THEN NoNode ELSE order'[i+1]
                        /\ double => list'.prev[order'[i]] = IF i = 1 THEN NoNode ELSE order'[i-1]
  <2> TAKE i \in 1..k+1
  <2>1. CASE i = k+1
    <3>1. list'.next[n] = NoNode
      BY <1>1, <1>3, <1>5, <1>6
    <3>2. double => list'.prev[n] = IF k = 0 THEN NoNode ELSE order[k]
      BY <1>2, <1>6
    <3> QED BY <2>1, <3>1, <3>2, <1>1
  <2>2. CASE i = k /\ k > 0
    <3>1. list'.next[order[k]] = n
      BY <2>2, <1>1, <1>5, <1>6
    <3>2. double => list'.prev[order[k]] = list.prev[order[k]]
      BY <2>2, <1>1, <1>6
    <3> QED BY <2>2, <3>1, <3>2, <1>1, <1>2
  <2>3. CASE i \in 1..k-1
    <3>1. order[i] # order[k] /\ order[i] \in Node /\ order[i] # n
      BY <2>3, <1>1 DEF ListInv, OnceEach, k
    <3>2. list'.next[order[i]] = list.next[order[i]] /\ (double => list'.prev[order[i]] = list.prev[order[i]])
      BY <3>1, <1>5, <1>6
    <3>3. i \in 1..k /\ i # k /\ i # k+1 /\ i+1 \in 1..k
      BY <2>3, <1>1
    <3>4. order'[i] = order[i] /\ order'[i+1] = order[i+1] /\ (i # 1 => order'[i-1] = order[i-1])
      <4>1. i # 1 => i-1 \in 1..k
        BY <3>3, <1>1
      <4> QED BY <3>3, <4>1, <1>1
    <3>5. list.next[order[i]] = order[i+1] /\ (double => list.prev[order[i]] = IF i = 1 THEN NoNode ELSE order[i-1])
      BY <3>3, <1>2
    <3> QED BY <3>2, <3>3, <3>4, <3>5
  <2> QED BY <1>1, <2>1, <2>2, <2>3
<1>9. LinksKept'
  BY <1>1, <1>2, <1>5, <1>6, <1>7, <1>8 DEF LinksKept
<1>10. FreshNodes'
  <2> SUFFICES ASSUME NEW m \in Node, \A i \in 1..k+1 : order'[i] # m
               PROVE  list'.next[m] = NoNode /\ list'.prev[m] = NoNode
    BY <1>1 DEF FreshNodes
  <2>1. m # n /\ (\A i \in 1..k : order[i] # m)
    BY <1>1
  <2>2. list.next[m] = NoNode /\ list.prev[m] = NoNode
    BY <2>1 DEF ListInv, FreshNodes, k
  <2> QED BY <2>1, <2>2, <1>1, <1>5, <1>6
<1> QED BY <1>1, <1>4, <1>6, <1>9, <1>10 DEF ListInv, ListTypeOK

LEMMA PrependKeeps == ASSUME ListInv, NEW n \in Node, ListPrepend(n) PROVE ListInv'
<1> DEFINE k == Len(order)
<1>0. /\ list \in [head : NodeOrNone, tail : NodeOrNone, count : Nat,
                   next : [Node -> NodeOrNone], prev : [Node -> NodeOrNone]]
      /\ n \in NodeOrNone /\ n # NoNode
  BY NoNodeAssumption DEF ListInv, ListTypeOK, NodeOrNone
<1>1. /\ k \in Nat /\ Len(order') = k + 1 /\ order' \in Seq(Node) /\ order'[1] = n
      /\ \A i \in 1..k : order'[i+1] = order[i] /\ order[i] # n /\ order[i] \in Node
      /\ \A i \in 2..k+1 : order'[i] = order[i-1]
  BY UsedNodes DEF ListPrepend, ListInv, ListTypeOK
<1>2. /\ list.count = k
      /\ list.tail = IF k = 0 THEN NoNode ELSE order[k]
      /\ list.head = IF k = 0 THEN NoNode ELSE order[1]
      /\ double
      /\ \A i \in 1..k : /\ list.next[order[i]] = IF i = k THEN NoNode ELSE order[i+1]
                         /\ list.prev[order[i]] = IF i = 1 THEN NoNode ELSE order[i-1]
  BY <1>1, LinksAre DEF ListInv, ListPrepend
<1>3. list.next[n] = NoNode /\ list.prev[n] = NoNode
  BY <1>1 DEF ListInv, FreshNodes
<1>4. OnceEach'
  <2>1. \A i, j \in 1..k : order[i] = order[j] => i = j
    BY DEF ListInv, OnceEach
  <2> HIDE DEF k
  <2>2. \A i \in 2..k+1 : i-1 \in 1..k
    BY <1>1
  <2>3. ASSUME NEW i \in 1..k+1, NEW j \in 1..k+1, order'[i] = order'[j] PROVE i = j
    <3>1. CASE i = 1 \/ j = 1
      BY <3>1, <2>3, <2>2, <1>1
    <3>2. CASE i # 1 /\ j # 1
      BY <3>2, <2>1, <2>2, <2>3, <1>1
    <3> QED BY <3>1, <3>2
  <2> QED BY <2>3, <1>1 DEF OnceEach
<1>5. /\ list' \in [head : NodeOrNone, tail : NodeOrNone, count : Nat,
                    next : [Node -> NodeOrNone], prev : [Node -> NodeOrNone]]
      /\ list'.count = k + 1 /\ list'.head = n
      /\ list'.tail = IF k = 0 THEN n ELSE order[k]
      /\ \A m \in Node : list'.next[m] = IF k > 0 /\ m = n THEN order[1] ELSE list.next[m]
      /\ \A m \in Node : list'.prev[m] = IF k > 0 /\ m = order[1] THEN n ELSE list.prev[m]
  <2>1. CASE k = 0
    <3>1. list' = [list EXCEPT !.head = n, !.tail = n, !.count = @ + 1]
      BY <2>1, <1>2 DEF Linked, LinkedFirst, ListPrepend
    <3>2. list' = [head |-> n, tail |-> n, count |-> list.count + 1, next |-> list.next, prev |-> list.prev]
      BY <3>1, <1>0
    <3> QED BY <2>1, <3>2, <1>2, <1>0, <1>1
  <2>2. CASE k > 0
    <3>1. list.head \in Node /\ list.head # NoNode /\ list.head = order[1]
      BY <2>2, <1>1, <1>2, NoNodeAssumption
    <3>2. list' = [list EXCEPT !.next[n] = list.head, !.prev[list.head] = n, !.head = n, !.count = @ + 1]
      BY <3>1 DEF LinkedFirst, ListPrepend
    <3>3. list' = [head |-> n, tail |-> list.tail, count |-> list.count + 1,
                   next |-> [list.next EXCEPT ![n] = list.head],
                   prev |-> [list.prev EXCEPT ![list.head] = n]]
      BY <3>2, <1>0
    <3>4. /\ [list.next EXCEPT ![n] = list.head] \in [Node -> NodeOrNone]
          /\ [list.prev EXCEPT ![list.head] = n] \in [Node -> NodeOrNone]
      BY <3>1, <1>0
    <3> QED BY <2>2, <3>1, <3>3, <3>4, <1>0, <1>1, <1>2
  <2> QED BY <1>1, <2>1, <2>2
<1>6. double' BY <1>2 DEF ListPrepend
<1>7. \A i, j \in 1..k : order[i] = order[j] => i = j
  BY DEF ListInv, OnceEach
<1>8. \A m \in Node : (\A i \in 1..k : order[i] # m) => list.next[m] = NoNode /\ list.prev[m] = NoNode
  BY DEF ListInv, FreshNodes
<1> HIDE DEF k
<1>9. \A i \in 1..k+1 : /\ list'.next[order'[i]] = IF i = k+1 THEN NoNode ELSE order'[i+1]
                        /\ list'.prev[order'[i]] = IF i = 1 THEN NoNode ELSE order'[i-1]
  <2> TAKE i \in 1..k+1
  <2>1. CASE i = 1
    <3>1. list'.next[n] = IF k = 0 THEN NoNode ELSE order[1]
      BY <1>1, <1>3, <1>5
    <3>2. list'.prev[n] = NoNode
      <4>1. k > 0 => order[1] # n
        BY <1>1
      <4> QED BY <4>1, <1>3, <1>5
    <3> QED BY <2>1, <3>1, <3>2, <1>1
  <2>2. CASE i = 2 /\ k > 0
    <3>1. order'[2] = order[1] /\ order[1] \in Node /\ order[1] # n
      BY <2>2, <1>1
    <3>2. list'.next[order[1]] = list.next[order[1]] /\ list'.prev[order[1]] = n
      BY <2>2, <3>1, <1>5
    <3> QED BY <2>2, <3>1, <3>2, <1>1, <1>2
  <2>3. CASE i \in 3..k+1
    <3>1. /\ order'[i] = order[i-1] /\ order[i-1] \in Node /\ order[i-1] # n
          /\ order[i-1] # order[1]
      BY <2>3, <1>1, <1>7, SMTT(30)
    <3>2. /\ list'.next[order[i-1]] = list.next[order[i-1]]
          /\ list'.prev[order[i-1]] = list.prev[order[i-1]]
      BY <3>1, <1>5
    <3>3. PICK j \in 1..k : j = i-1
      BY <2>3, <1>1
    <3>4. j # 1 /\ i = j+1 /\ i # 1 /\ (i = k+1 <=> j = k)
      BY <2>3, <3>3, <1>1
    <3>5. list.next[order[j]] = (IF j = k THEN NoNode ELSE order[j+1]) /\ list.prev[order[j]] = order[j-1]
      BY <3>3, <3>4, <1>2
    <3>6. order'[j+1] = order[j] /\ order'[j] = order[j-1] /\ (j # k => order'[j+2] = order[j+1])
      <4>1. j \in 2..k+1 /\ (j # k => j+1 \in 1..k)
        BY <3>4, <1>1
      <4> QED BY <4>1, <1>1
    <3>7. i+1 = j+2 /\ i-1 = j
      BY <3>4, <1>1
    <3> QED BY <3>2, <3>4, <3>5, <3>6, <3>7
  <2> QED BY <1>1, <2>1, <2>2, <2>3
<1>10. LinksKept'
  BY <1>1, <1>2, <1>5, <1>6, <1>9 DEF LinksKept
<1>11. FreshNodes'
  <2> SUFFICES ASSUME NEW m \in Node, \A i \in 1..k+1 : order'[i] # m
               PROVE  list'.next[m] = NoNode /\ list'.prev[m] = NoNode
    BY <1>1 DEF FreshNodes
  <2>1. m # n /\ (\A i \in 1..k : order[i] # m)
    <3>1. 1 \in 1..k+1 /\ \A i \in 1..k : i+1 \in 1..k+1
      BY <1>1
    <3> QED BY <3>1, <1>1
  <2>2. list.next[m] = NoNode /\ list.prev[m] = NoNode
    BY <2>1, <1>8
  <2> QED BY <2>1, <2>2, <1>1, <1>5
<1> QED BY <1>1, <1>4, <1>5, <1>10, <1>11 DEF ListInv, ListTypeOK

\* Taking element e out of the order.
LEMMA WithoutElement ==
    ASSUME NEW s \in Seq(Node), NEW e \in 1..Len(s)
    PROVE  /\ Without(s, e) \in Seq(Node) /\ Len(Without(s, e)) = Len(s) - 1
           /\ \A j \in 1..Len(s)-1 : Without(s, e)[j] = IF j < e THEN s[j] ELSE s[j+1]
  BY DEF Without

LEMMA EraseKeeps == ASSUME ListInv, ListErase PROVE ListInv'
<1> DEFINE k == Len(order)
           p == list.prev[iter]
           x == list.next[iter]
<1>0. list \in [head : NodeOrNone, tail : NodeOrNone, count : Nat,
                next : [Node -> NodeOrNone], prev : [Node -> NodeOrNone]]
  BY DEF ListInv, ListTypeOK
<1>1. PICK e \in 1..k : order[e] = iter /\ order' = Without(order, e)
  BY DEF ListErase, ListInv, ListTypeOK
<1>2. /\ k \in Nat /\ Len(order') = k - 1 /\ order' \in Seq(Node) /\ k > 0
      /\ \A i \in 1..k : order[i] \in Node /\ order[i] # NoNode
      /\ \A j \in 1..k-1 : order'[j] = IF j < e THEN order[j] ELSE order[j+1]
  <2>1. order \in Seq(Node) /\ k \in Nat /\ k > 0
    BY <1>1 DEF ListInv, ListTypeOK
  <2>2. /\ order' \in Seq(Node) /\ Len(order') = k - 1
        /\ \A j \in 1..k-1 : order'[j] = IF j < e THEN order[j] ELSE order[j+1]
    BY <2>1, <1>1, WithoutElement
  <2>3. \A i \in 1..k : order[i] \in Node /\ order[i] # NoNode
    BY <2>1, NoNodeAssumption
  <2> QED BY <2>1, <2>2, <2>3
<1>3. /\ list.count = k
      /\ list.tail = order[k] /\ list.head = order[1] /\ double /\ double'
      /\ \A i \in 1..k : /\ list.next[order[i]] = IF i = k THEN NoNode ELSE order[i+1]
                         /\ list.prev[order[i]] = IF i = 1 THEN NoNode ELSE order[i-1]
  <2>1. /\ list.count = k
        /\ list.tail = (IF k = 0 THEN NoNode ELSE order[k]) /\ list.head = (IF k = 0 THEN NoNode ELSE order[1])
        /\ \A i \in 1..k : /\ list.next[order[i]] = IF i = k THEN NoNode ELSE order[i+1]
                           /\ double => list.prev[order[i]] = IF i = 1 THEN NoNode ELSE order[i-1]
    BY <1>2, LinksAre DEF ListInv
  <2>2. double /\ double' /\ k # 0
    BY <1>2 DEF ListErase
  <2> QED BY ONLY <2>1, <2>2
<1>4. \A i, j \in 1..k : order[i] = order[j] => i = j
  BY DEF ListInv, OnceEach
<1>5. \A m \in Node : (\A i \in 1..k : order[i] # m) => list.next[m] = NoNode /\ list.prev[m] = NoNode
  BY DEF ListInv, FreshNodes
<1>6. /\ iter \in Node
      /\ x = IF e = k THEN NoNode ELSE order[e+1]
      /\ p = IF e = 1 THEN NoNode ELSE order[e-1]
  BY <1>1, <1>2, <1>3
<1>7. list' = [head |-> IF p = NoNode THEN x ELSE list.head, tail |-> IF x = NoNode THEN p ELSE list.tail,
               count |-> list.count - 1,
               next |-> [m \in Node |-> CASE m = iter -> NoNode [] p # NoNode /\ m = p -> x [] OTHER -> list.next[m]],
               prev |-> [m \in Node |-> CASE m = iter -> NoNode [] x # NoNode /\ m = x -> p [] OTHER -> list.prev[m]]]
  BY <1>0 DEF ListErase, Unlinked
<1>8. x \in NodeOrNone /\ p \in NodeOrNone /\ iter \in Node /\ p # iter /\ x # iter
  BY <1>0, <1>1, <1>2, <1>4, <1>6, SMTT(30) DEF NodeOrNone
<1>9. /\ list' \in [head : NodeOrNone, tail : NodeOrNone, count : Nat,
                    next : [Node -> NodeOrNone], prev : [Node -> NodeOrNone]]
      /\ list'.count = k - 1
      /\ list'.head = IF p = NoNode THEN x ELSE order[1]
      /\ list'.tail = IF x = NoNode THEN p ELSE order[k]
      /\ list'.next[iter] = NoNode /\ list'.prev[iter] = NoNode
      /\ \A m \in Node : m # iter => /\ list'.next[m] = IF p # NoNode /\ m = p THEN x ELSE list.next[m]
                                     /\ list'.prev[m] = IF x # NoNode /\ m = x THEN p ELSE list.prev[m]
  <2> HIDE DEF x, p, k
  <2>1. [m \in Node |-> CASE m = iter -> NoNode [] p # NoNode /\ m = p -> x [] OTHER -> list.next[m]] \in [Node -> NodeOrNone]
    BY <1>0, <1>8 DEF NodeOrNone
  <2>2. [m \in Node |-> CASE m = iter -> NoNode [] x # NoNode /\ m = x -> p [] OTHER -> list.prev[m]] \in [Node -> NodeOrNone]
    BY <1>0, <1>8 DEF NodeOrNone
  <2> QED BY <2>1, <2>2, <1>0, <1>2, <1>3, <1>7, <1>8
<1> HIDE DEF x, p, k
<1>10. OnceEach'
  <2>1. ASSUME NEW i \in 1..k-1, NEW j \in 1..k-1, order'[i] = order'[j] PROVE i = j
    <3> DEFINE Was(m) == IF m < e THEN m ELSE m + 1
    <3>1. ASSUME NEW m \in 1..k-1 PROVE Was(m) \in 1..k /\ order'[m] = order[Was(m)]
      <4>1. Was(m) \in 1..k
        BY <1>2
      <4>2. order'[m] = IF m < e THEN order[m] ELSE order[m+1]
        BY <1>2
      <4> QED BY <4>1, <4>2
    <3>2. Was(i) = Was(j)
      <4> HIDE DEF Was
      <4> QED BY <2>1, <3>1, <1>4
    <3> QED BY <3>2, <1>2
  <2> QED BY <2>1, <1>2 DEF OnceEach
<1>11. \A i \in 1..k-1 : /\ list'.next[order'[i]] = IF i = k-1 THEN NoNode ELSE order'[i+1]
                         /\ list'.prev[order'[i]] = IF i = 1 THEN NoNode ELSE order'[i-1]
  <2> TAKE i \in 1..k-1
  <2>1. PICK a \in 1..k : order'[i] = order[a] /\ a # e /\ a = IF i < e THEN i ELSE i+1
    BY <1>1, <1>2
  <2>2. order[a] # iter /\ order[a] \in Node
    BY <2>1, <1>1, <1>2, <1>4
  <2>3. p # NoNode /\ order[a] = p <=> a = e - 1
    BY <2>1, <1>1, <1>2, <1>4, <1>6
  <2>4. x # NoNode /\ order[a] = x <=> a = e + 1
    BY <2>1, <1>1, <1>2, <1>4, <1>6
  <2>5. list'.next[order[a]] = IF a = e - 1 THEN x ELSE list.next[order[a]]
    BY <2>2, <2>3, <1>9
  <2>6. list'.prev[order[a]] = IF a = e + 1 THEN p ELSE list.prev[order[a]]
    BY <2>2, <2>4, <1>9
  <2>7. list'.next[order'[i]] = IF i = k-1 THEN NoNode ELSE order'[i+1]
    <3>1. list.next[order[a]] = IF a = k THEN NoNode ELSE order[a+1]
      BY <2>1, <1>3
    <3>2. CASE a = e - 1
      <4>1. list'.next[order'[i]] = IF e = k THEN NoNode ELSE order[e+1]
        BY <3>2, <2>1, <2>5, <1>6
      <4>2. e # k => order'[i+1] = order[e+1]
        BY <3>2, <2>1, <1>1, <1>2
      <4> QED BY <4>1, <4>2, <3>2, <2>1, <1>1, <1>2
    <3>3. CASE a # e - 1
      <4>1. list'.next[order'[i]] = IF a = k THEN NoNode ELSE order[a+1]
        BY <3>1, <3>3, <2>1, <2>5
      <4>2. a # k => order'[i+1] = order[a+1]
        BY <3>3, <2>1, <1>1, <1>2
      <4>3. a = k <=> i = k-1
        BY <3>3, <2>1, <1>1, <1>2
      <4> QED BY <4>1, <4>2, <4>3
    <3> QED BY <3>2, <3>3
  <2>8. list'.prev[order'[i]] = IF i = 1 THEN NoNode ELSE order'[i-1]
    <3>1. list.prev[order[a]] = IF a = 1 THEN NoNode ELSE order[a-1]
      BY <2>1, <1>3
    <3>2. CASE a = e + 1
      <4>1. list'.prev[order'[i]] = IF e = 1 THEN NoNode ELSE order[e-1]
        BY <3>2, <2>1, <2>6, <1>6
      <4>2. e # 1 => order'[i-1] = order[e-1]
        BY <3>2, <2>1, <1>1, <1>2
      <4> QED BY <4>1, <4>2, <3>2, <2>1, <1>1, <1>2
    <3>3. CASE a # e + 1
      <4>1. list'.prev[order'[i]] = IF a = 1 THEN NoNode ELSE order[a-1]
        BY <3>1, <3>3, <2>1, <2>6
      <4>2. a # 1 => order'[i-1] = order[a-1]
        BY <3>3, <2>1, <1>1, <1>2
      <4>3. a = 1 <=> i = 1
        BY <3>3, <2>1, <1>1, <1>2
      <4> QED BY <4>1, <4>2, <4>3
    <3> QED BY <3>2, <3>3
  <2> QED BY <2>7, <2>8
<1>12. LinksKept'
  <2>1. list'.head = IF k = 1 THEN NoNode ELSE order'[1]
    BY <1>1, <1>2, <1>6, <1>9
  <2>2. list'.tail = IF k = 1 THEN NoNode ELSE order'[k-1]
    BY <1>1, <1>2, <1>6, <1>9
  <2> QED BY <2>1, <2>2, <1>2, <1>9, <1>11 DEF LinksKept
<1>13. FreshNodes'
  <2> SUFFICES ASSUME NEW m \in Node, \A i \in 1..k-1 : order'[i] # m
               PROVE  list'.next[m] = NoNode /\ list'.prev[m] = NoNode
    BY <1>2 DEF FreshNodes
  <2>1. CASE m = iter
    BY <2>1, <1>9
  <2>2. CASE m # iter
    <3>1. ASSUME NEW a \in 1..k PROVE order[a] # m
      <4>1. CASE a = e
        BY <4>1, <2>2, <1>1
      <4>2. CASE a < e
        BY <4>2, <1>1, <1>2
      <4>3. CASE a > e
        <5>1. a-1 \in 1..k-1 /\ order'[a-1] = order[a]
          BY <4>3, <1>1, <1>2
        <5> QED BY <5>1
      <4> QED BY <4>1, <4>2, <4>3
    <3>2. (p # NoNode => m # p) /\ (x # NoNode => m # x)
      BY <3>1, <1>1, <1>2, <1>6
    <3> QED BY <2>2, <3>1, <3>2, <1>5, <1>9
  <2> QED BY <2>1, <2>2
<1> QED BY <1>2, <1>9, <1>10, <1>12, <1>13 DEF ListInv, ListTypeOK

\* Whatever is appended, prepended and erased, in lists of any length: every link is
\* that to the neighbour, the head and the tail are the ends, and the count is right.
THEOREM Links == ListSpec => []LinksKept
<1>1. ListInv /\ UNCHANGED <<list, double, order>> => ListInv'
  BY DEF ListInv, ListTypeOK, OnceEach, FreshNodes, LinksKept
<1>2. ListInv /\ [ListNext]_listVars => ListInv'
  <2> SUFFICES ASSUME ListInv, [ListNext]_listVars PROVE ListInv'
    OBVIOUS
  <2>1. CASE ListIterate
    BY <2>1, <1>1 DEF ListIterate
  <2>2. CASE ListErase
    BY <2>2, EraseKeeps
  <2>3. CASE ListBegin
    BY <2>3, <1>1 DEF ListBegin
  <2>4. ASSUME NEW n \in Node, ListAppend(n) PROVE ListInv'
    BY <2>4, AppendKeeps
  <2>5. ASSUME NEW n \in Node, ListPrepend(n) PROVE ListInv'
    BY <2>5, PrependKeeps
  <2>6. CASE UNCHANGED listVars
    BY <2>6, <1>1 DEF listVars
  <2> QED BY <2>1, <2>2, <2>3, <2>4, <2>5, <2>6 DEF ListNext
<1>3. ListInv => LinksKept
  BY DEF ListInv
<1> QED BY <1>2, <1>3, ListInitInv, PTL DEF ListSpec
-----------------------------------------------------------------------------
\* What an insertion and a removal leave at each place.
LEMMA ElementInserted ==
    ASSUME NEW S, NEW t \in Seq(S), NEW i \in 1..Len(t)+1, NEW e \in S
    PROVE  /\ InsertAt(t, i, e) \in Seq(S) /\ Len(InsertAt(t, i, e)) = Len(t) + 1
           /\ \A j \in 1..Len(t)+1 :
                InsertAt(t, i, e)[j] = IF j < i THEN t[j] ELSE IF j = i THEN e ELSE t[j-1]
<1> DEFINE r == InsertAt(t, i, e)
           a == SubSeq(t, 1, i-1)
           b == SubSeq(t, i, Len(t))
<1>1. a \in Seq(S) /\ Len(a) = i - 1 /\ \A j \in 1..i-1 : a[j] = t[j]
    BY SMT
<1>2. b \in Seq(S) /\ Len(b) = Len(t) - i + 1 /\ \A j \in 1..Len(b) : b[j] = t[i + j - 1]
    BY SMT
<1>3. <<e>> \in Seq(S) /\ Len(<<e>>) = 1 /\ <<e>>[1] = e
    OBVIOUS
<1> DEFINE c == a \o <<e>>
<1>4. c \in Seq(S) /\ Len(c) = i /\ (\A j \in 1..i-1 : c[j] = t[j]) /\ c[i] = e
  <2> HIDE DEF a
  <2> QED
    BY <1>1, <1>3
<1>5. r = c \o b
    BY DEF InsertAt
<1> HIDE DEF r, a, b, c
<1>6. r \in Seq(S) /\ Len(r) = Len(t) + 1
    BY <1>2, <1>4, <1>5
<1>7. \A j \in 1..Len(t)+1 : r[j] = IF j <= i THEN c[j] ELSE b[j - i]
    BY <1>2, <1>4, <1>5
<1>8. ASSUME NEW j \in 1..Len(t)+1
      PROVE  r[j] = IF j < i THEN t[j] ELSE IF j = i THEN e ELSE t[j-1]
  <2>1. CASE j <= i
    BY <2>1, <1>4, <1>7
  <2>2. CASE j > i
    <3>1. j - i \in 1..Len(b) /\ i + (j - i) - 1 = j - 1
      BY <2>2, <1>2
    <3> QED
      BY <2>2, <3>1, <1>2, <1>7
  <2> QED
    BY <2>1, <2>2
<1> QED
    BY <1>6, <1>8 DEF r

LEMMA ElementRemoved ==
    ASSUME NEW S, NEW t \in Seq(S), NEW i \in 1..Len(t)
    PROVE  /\ RemoveAt(t, i) \in Seq(S) /\ Len(RemoveAt(t, i)) = Len(t) - 1
           /\ \A k \in 1..Len(RemoveAt(t, i)) : RemoveAt(t, i)[k] = IF k < i THEN t[k] ELSE t[k + 1]
<1> DEFINE r == RemoveAt(t, i)
           a == SubSeq(t, 1, i-1)
           b == SubSeq(t, i+1, Len(t))
<1>0. a \in Seq(S) /\ b \in Seq(S)
    BY SMT
<1>1. Len(a) = i - 1 /\ \A k \in 1..i-1 : a[k] = t[k]
    BY SMT
<1>2. Len(b) = Len(t) - i /\ \A k \in 1..Len(b) : b[k] = t[i + k]
    BY SMT
<1>3. r = a \o b
    BY DEF RemoveAt
<1> HIDE DEF r, a, b
<1>4. r \in Seq(S) /\ Len(r) = Len(a) + Len(b)
    BY <1>0, <1>3
<1>n. Len(t) \in Nat /\ i \in Int /\ Len(r) = Len(t) - 1
    BY <1>1, <1>2, <1>4
<1>5. \A k \in 1..Len(r) : r[k] = IF k <= i - 1 THEN a[k] ELSE b[k - (i - 1)]
    BY <1>0, <1>1, <1>3, <1>4
<1>6. ASSUME NEW k \in 1..Len(r)
      PROVE  r[k] = IF k < i THEN t[k] ELSE t[k + 1]
  <2>1. CASE k < i
    BY <2>1, <1>1, <1>5
  <2>2. CASE k >= i
    <3>1. k - (i - 1) \in 1..Len(b) /\ i + (k - (i - 1)) = k + 1
      BY <2>2, <1>2, <1>n
    <3>2. r[k] = b[k - (i - 1)]
      BY <2>2, <1>5, <1>n
    <3>3. b[k - (i - 1)] = t[i + (k - (i - 1))]
      BY <3>1, <1>2
    <3> QED
      BY <2>2, <3>1, <3>2, <3>3, <1>n
  <2> QED
    BY <2>1, <2>2, <1>n
<1> QED
    BY <1>4, <1>6, <1>n DEF r

LEMMA FrontElements ==
    ASSUME NEW s \in Seq(Pointer), s # << >>
    PROVE  LET t == SubSeq(s, 1, Len(s) - 1) IN
           /\ t \in Seq(Pointer) /\ Len(t) = Len(s) - 1
           /\ \A i \in 1..Len(t) : t[i] = s[i]
<1> DEFINE n == Len(s) - 1
           t == SubSeq(s, 1, n)
<1>1. n \in Nat /\ n + 1 = Len(s)
    OBVIOUS
<1>2. \A i \in 1..n : s[i] \in Pointer
    BY <1>1
<1> HIDE DEF n, t
<1>3. /\ t \in Seq(Pointer)
      /\ Len(t) = IF 1 <= n THEN n - 1 + 1 ELSE 0
      /\ \A i \in 1..(n - 1 + 1) : t[i] = s[1 + i - 1]
    BY <1>1, <1>2, SubSeqProperties DEF t
<1>4. Len(t) = n /\ \A i \in 1..n : t[i] = s[i]
    BY <1>1, <1>3
<1>5. QED
    BY <1>3, <1>4 DEF t, n

ArraySpec == ArrayInit /\ [][ArrayNext]_arrayVars

Stored == Pointer \cup {Junk}
ArrayTypeOK ==
    /\ expect \in Seq(Pointer)
    /\ arr = [max |-> arr.max, size |-> arr.size, mem |-> arr.mem]
    /\ arr.max \in Nat /\ arr.size \in Nat
    /\ arr.mem \in [0..arr.max-1 -> Stored]

ArrayInv == ArrayTypeOK /\ ArrayHolds

\* Once there is room one element more still leaves one to spare, and the elements
\* are where they were.
LEMMA RoomLeft ==
    ASSUME ArrayInv
    PROVE  LET a == Room(arr) IN
           /\ a = [max |-> a.max, size |-> arr.size, mem |-> a.mem]
           /\ a.max \in Nat /\ arr.size + 1 < a.max
           /\ a.mem \in [0..a.max-1 -> Stored]
           /\ \A i \in 0..arr.size-1 : a.mem[i] = arr.mem[i]
<1> DEFINE a == Room(arr)
           more == IF arr.size <= DoubleUntil THEN 2 * arr.max ELSE arr.max + GrowSize
<1>1. arr.max \in Nat /\ arr.size \in Nat /\ arr.size < arr.max /\ arr.mem \in [0..arr.max-1 -> Stored]
  BY DEF ArrayInv, ArrayTypeOK, ArrayHolds
<1>2. more \in Nat /\ more > arr.max
  BY <1>1, ArraySizes
<1>3. CASE arr.size # arr.max - 1
  BY <1>1, <1>3 DEF Room, ArrayInv, ArrayTypeOK
<1>4. CASE arr.size = arr.max - 1
  <2>1. a = [arr EXCEPT !.max = more, !.mem = Grown(arr.mem, more)]
    BY <1>4 DEF Room
  <2> HIDE DEF more, a
  <2>2. a = [max |-> more, size |-> arr.size, mem |-> Grown(arr.mem, more)]
    BY <2>1 DEF ArrayInv, ArrayTypeOK
  <2>3. Grown(arr.mem, more) \in [0..more-1 -> Stored]
    BY <1>1, <1>2 DEF Grown, Stored
  <2>4. \A i \in 0..arr.size-1 : Grown(arr.mem, more)[i] = arr.mem[i]
    BY <1>1, <1>2 DEF Grown
  <2>5. a.max = more /\ a.mem = Grown(arr.mem, more)
    BY <2>2
  <2> QED BY <2>2, <2>3, <2>4, <2>5, <1>1, <1>2, <1>4 DEF a
<1> QED BY <1>3, <1>4

LEMMA PushKeeps == ASSUME ArrayInv, NEW x \in Pointer, ArrayPush(x) PROVE ArrayInv'
<1> DEFINE a == Room(arr)
           mem == [i \in DOMAIN a.mem |-> IF i = a.size THEN x ELSE a.mem[i]]
<1>1. /\ a = [max |-> a.max, size |-> arr.size, mem |-> a.mem]
      /\ a.max \in Nat /\ arr.size + 1 < a.max
      /\ a.mem \in [0..a.max-1 -> Stored]
      /\ \A i \in 0..arr.size-1 : a.mem[i] = arr.mem[i]
  BY RoomLeft
<1>2. arr.size \in Nat /\ arr.size = Len(expect) /\ expect \in Seq(Pointer)
      /\ \A i \in 1..arr.size : arr.mem[i-1] = expect[i]
  BY DEF ArrayInv, ArrayTypeOK, ArrayHolds
<1>3. arr' = [a EXCEPT !.mem = mem, !.size = @ + 1] /\ expect' = Append(expect, x)
  BY DEF ArrayPush
<1> HIDE DEF a
<1>4. a.size = arr.size
  BY <1>1
<1>5. mem \in [0..a.max-1 -> Stored] /\ mem[arr.size] = x
      /\ \A i \in 0..arr.size-1 : mem[i] = arr.mem[i]
  BY <1>1, <1>2, <1>4 DEF Stored
<1> HIDE DEF mem
<1>6. arr' = [max |-> a.max, size |-> arr.size + 1, mem |-> mem]
  BY <1>1, <1>3, <1>4
<1>7. arr'.max = a.max /\ arr'.size = arr.size + 1 /\ arr'.mem = mem
  BY <1>6
<1>8. Len(expect') = arr.size + 1 /\ expect' \in Seq(Pointer) /\ expect'[arr.size + 1] = x
      /\ \A i \in 1..arr.size : expect'[i] = expect[i]
  BY <1>2, <1>3
<1>9. \A i \in 1..arr.size+1 : mem[i-1] = expect'[i]
  BY <1>2, <1>5, <1>8
<1> QED BY <1>1, <1>2, <1>5, <1>6, <1>7, <1>8, <1>9 DEF ArrayInv, ArrayTypeOK, ArrayHolds

LEMMA InsertKeeps ==
    ASSUME ArrayInv, NEW o \in Nat, NEW x \in Pointer, ArrayInsert(o, x)
    PROVE  ArrayInv'
<1> DEFINE a == Room(arr)
           mem == [i \in DOMAIN a.mem |-> CASE i \in o+1..a.size -> a.mem[i-1] [] i = o -> x [] OTHER -> a.mem[i]]
<1>1. /\ a = [max |-> a.max, size |-> arr.size, mem |-> a.mem]
      /\ a.max \in Nat /\ arr.size + 1 < a.max
      /\ a.mem \in [0..a.max-1 -> Stored]
      /\ \A i \in 0..arr.size-1 : a.mem[i] = arr.mem[i]
  BY RoomLeft
<1>2. arr.size \in Nat /\ arr.size = Len(expect) /\ expect \in Seq(Pointer)
      /\ \A i \in 1..arr.size : arr.mem[i-1] = expect[i]
  BY DEF ArrayInv, ArrayTypeOK, ArrayHolds
<1>3. arr' = [a EXCEPT !.mem = mem, !.size = @ + 1] /\ expect' = InsertAt(expect, o + 1, x)
      /\ o \in 1..arr.size
  BY DEF ArrayInsert
<1>o. o \in 1..arr.size /\ arr.size + 1 < a.max /\ arr.size \in Nat /\ a.max \in Nat
  BY <1>1, <1>2, <1>3
<1> HIDE DEF a
<1>4. a.size = arr.size
  BY <1>1
<1>5. /\ mem \in [0..a.max-1 -> Stored]
      /\ mem[o] = x
      /\ \A i \in 0..o-1 : mem[i] = arr.mem[i]
      /\ \A i \in o+1..arr.size : mem[i] = arr.mem[i-1]
  <2>1. \A i \in 0..a.max-1 : mem[i] = CASE i \in o+1..arr.size -> a.mem[i-1] [] i = o -> x [] OTHER -> a.mem[i]
    BY <1>1, <1>4
  <2>2. DOMAIN mem = 0..a.max-1 /\ mem = [i \in 0..a.max-1 |-> mem[i]]
    BY <1>1
  <2> HIDE DEF mem
  <2>3. \A i \in 0..a.max-1 : /\ i \in o+1..arr.size => mem[i] = a.mem[i-1]
                              /\ i = o => mem[i] = x
                              /\ i \notin o+1..arr.size /\ i # o => mem[i] = a.mem[i]
    BY <2>1
  <2>4. \A i \in 0..a.max-1 : mem[i] \in Stored
    <3> TAKE i \in 0..a.max-1
    <3>1. CASE i \in o+1..arr.size
      <4>1. i-1 \in 0..a.max-1
        BY <3>1, <1>o
      <4>2. mem[i] = a.mem[i-1]
        BY <3>1, <2>3
      <4> QED BY <4>1, <4>2, <1>1
    <3>2. CASE i \notin o+1..arr.size
      BY <3>2, <2>3, <1>1, <1>o DEF Stored
    <3> QED BY <3>1, <3>2
  <2>5. mem \in [0..a.max-1 -> Stored]
    BY <2>2, <2>4
  <2>6. \A i \in 0..o-1 : mem[i] = arr.mem[i]
    BY <2>3, <1>1, <1>o
  <2>7. \A i \in o+1..arr.size : mem[i] = arr.mem[i-1]
    <3> TAKE i \in o+1..arr.size
    <3>1. i \in 0..a.max-1 /\ i-1 \in 0..arr.size-1
      BY <1>o
    <3> QED BY <3>1, <2>3, <1>1, <1>o
  <2>8. mem[o] = x
    BY <2>3, <1>1, <1>o
  <2> QED BY <2>5, <2>6, <2>7, <2>8
<1> HIDE DEF mem
<1>6. arr' = [max |-> a.max, size |-> arr.size + 1, mem |-> mem]
  BY <1>1, <1>3, <1>4
<1>7. arr'.max = a.max /\ arr'.size = arr.size + 1 /\ arr'.mem = mem
  BY <1>6
<1>8. /\ Len(expect') = arr.size + 1 /\ expect' \in Seq(Pointer) /\ expect'[o + 1] = x
      /\ \A i \in 1..o : expect'[i] = expect[i]
      /\ \A i \in o+2..arr.size+1 : expect'[i] = expect[i-1]
  <2> DEFINE r == InsertAt(expect, o + 1, x)
  <2>1. /\ r \in Seq(Pointer) /\ Len(r) = Len(expect) + 1
        /\ \A j \in 1..Len(expect)+1 :
             r[j] = IF j < o + 1 THEN expect[j] ELSE IF j = o + 1 THEN x ELSE expect[j-1]
    <3>1. PICK q \in 1..Len(expect)+1 : q = o + 1
      BY <1>2, <1>o
    <3>2. expect \in Seq(Pointer) /\ x \in Pointer
      BY <1>2
    <3>3. /\ InsertAt(expect, q, x) \in Seq(Pointer) /\ Len(InsertAt(expect, q, x)) = Len(expect) + 1
          /\ \A j \in 1..Len(expect)+1 :
               InsertAt(expect, q, x)[j] = IF j < q THEN expect[j] ELSE IF j = q THEN x ELSE expect[j-1]
      BY ONLY <3>2, ElementInserted, q \in 1..Len(expect)+1
    <3> QED BY <3>1, <3>3
  <2>2. expect' = r
    BY <1>3
  <2> HIDE DEF r
  <2> QED BY <2>1, <2>2, <1>2, <1>o
<1>9. \A i \in 1..arr.size+1 : mem[i-1] = expect'[i]
  <2> TAKE i \in 1..arr.size+1
  <2>1. CASE i \in 1..o
    <3>1. i-1 \in 0..o-1 /\ i \in 1..arr.size
      BY <2>1, <1>o
    <3> QED BY <2>1, <3>1, <1>2, <1>5, <1>8
  <2>2. CASE i = o + 1
    BY <2>2, <1>3, <1>5, <1>8
  <2>3. CASE i \in o+2..arr.size+1
    <3>1. i-1 \in o+1..arr.size /\ i-1 \in 1..arr.size
      BY <2>3, <1>2, <1>3
    <3>2. mem[i-1] = arr.mem[(i-1)-1] /\ arr.mem[(i-1)-1] = expect[i-1]
      BY <3>1, <1>2, <1>5
    <3> QED BY <2>3, <3>2, <1>8
  <2> QED BY <2>1, <2>2, <2>3, <1>2, <1>3
<1> QED BY <1>1, <1>2, <1>5, <1>6, <1>7, <1>8, <1>9 DEF ArrayInv, ArrayTypeOK, ArrayHolds

LEMMA RemoveKeeps ==
    ASSUME ArrayInv, NEW o \in 0..MaxElements, ArrayRemove(o)
    PROVE  ArrayInv'
<1> DEFINE mem == [i \in DOMAIN arr.mem |-> IF i \in o..arr.size-2 THEN arr.mem[i+1] ELSE arr.mem[i]]
           n == arr.size
<1>1. /\ n \in Nat /\ n = Len(expect) /\ expect \in Seq(Pointer) /\ n > 0
      /\ arr.max \in Nat /\ n < arr.max /\ arr.mem \in [0..arr.max-1 -> Stored]
      /\ \A i \in 1..n : arr.mem[i-1] = expect[i]
      /\ o \in Nat
  BY ArraySizes DEF ArrayInv, ArrayTypeOK, ArrayHolds, ArrayRemove
<1>2. arr' = [arr EXCEPT !.size = @ - 1, !.mem = mem]
  BY DEF ArrayRemove
<1>3. /\ mem \in [0..arr.max-1 -> Stored]
      /\ \A i \in 0..n-2 : mem[i] = IF i >= o THEN arr.mem[i+1] ELSE arr.mem[i]
  <2>1. DOMAIN arr.mem = 0..arr.max-1
    BY <1>1
  <2>2. \A i \in 0..arr.max-1 : mem[i] = IF i \in o..n-2 THEN arr.mem[i+1] ELSE arr.mem[i]
    BY <2>1
  <2>7. \A i \in 0..n-2 : i \in 0..arr.max-1 /\ (i \in o..n-2 <=> i >= o)
    BY <1>1
  <2>3. mem = [i \in 0..arr.max-1 |-> mem[i]]
    BY <2>1
  <2> HIDE DEF mem
  <2>4. \A i \in 0..arr.max-1 : mem[i] \in Stored
    <3> TAKE i \in 0..arr.max-1
    <3>1. CASE i \in o..n-2
      <4>1. i+1 \in 0..arr.max-1
        BY <3>1, <1>1
      <4> QED BY <3>1, <4>1, <2>2, <1>1
    <3>2. CASE i \notin o..n-2
      BY <3>2, <2>2, <1>1
    <3> QED BY <3>1, <3>2
  <2>5. mem \in [0..arr.max-1 -> Stored]
    BY <2>3, <2>4
  <2>6. \A i \in 0..n-2 : mem[i] = IF i >= o THEN arr.mem[i+1] ELSE arr.mem[i]
    <3> TAKE i \in 0..n-2
    <3>1. i \in 0..arr.max-1 /\ (i \in o..n-2 <=> i >= o)
      BY <2>7
    <3>2. mem[i] = IF i \in o..n-2 THEN arr.mem[i+1] ELSE arr.mem[i]
      BY <3>1, <2>2
    <3> HIDE DEF n
    <3> QED BY <3>1, <3>2
  <2> QED BY <2>5, <2>6
<1> HIDE DEF mem
<1>4. arr' = [max |-> arr.max, size |-> n - 1, mem |-> mem]
  BY <1>2 DEF ArrayInv, ArrayTypeOK
<1>5. arr'.max = arr.max /\ arr'.size = n - 1 /\ arr'.mem = mem
  BY <1>4
<1>6. /\ Len(expect') = n - 1 /\ expect' \in Seq(Pointer)
      /\ \A i \in 1..n-1 : expect'[i] = IF i > o THEN expect[i+1] ELSE expect[i]
  <2>1. CASE o < n
    <3> DEFINE r == RemoveAt(expect, o + 1)
    <3>1. o + 1 \in 1..Len(expect)
      BY <2>1, <1>1
    <3>2. r \in Seq(Pointer) /\ Len(r) = n - 1
          /\ \A i \in 1..Len(r) : r[i] = IF i < o + 1 THEN expect[i] ELSE expect[i + 1]
      BY <3>1, <1>1, ElementRemoved
    <3>3. expect' = r
      BY <2>1 DEF ArrayRemove
    <3> HIDE DEF r, n
    <3> QED BY <3>2, <3>3, <1>1
  <2>2. CASE o >= n
    <3> DEFINE r == SubSeq(expect, 1, Len(expect)-1)
    <3>1. expect \in Seq(Pointer) /\ Len(expect) \in Nat \ {0} /\ n = Len(expect)
      BY <1>1
    <3>0. r \in Seq(Pointer) /\ Len(r) = n - 1 /\ \A i \in 1..n-1 : r[i] = expect[i]
      <4>1. expect # << >>
        BY <3>1
      <4>2. r \in Seq(Pointer) /\ Len(r) = Len(expect) - 1 /\ \A i \in 1..Len(r) : r[i] = expect[i]
        BY <4>1, <3>1, FrontElements
      <4> HIDE DEF r, n
      <4> QED BY <4>2, <3>1
    <3>2. expect' = r
      BY <2>2, <1>1 DEF ArrayRemove, Front
    <3> HIDE DEF r, n
    <3> QED BY <2>2, <3>0, <3>2, <1>1
  <2> HIDE DEF n
  <2>3. o < n \/ o >= n
    BY <1>1
  <2> QED BY <2>1, <2>2, <2>3
<1>7. \A i \in 1..n-1 : mem[i-1] = expect'[i]
  <2> HIDE DEF n
  <2> TAKE i \in 1..n-1
  <2>1. i-1 \in 0..n-2 /\ i \in 1..n /\ i+1 \in 1..n /\ (i-1 >= o <=> i > o) /\ (i-1)+1 = i
    BY <1>1
  <2>2. mem[i-1] = IF i > o THEN arr.mem[i] ELSE arr.mem[i-1]
    BY <2>1, <1>3
  <2>3. arr.mem[i-1] = expect[i] /\ arr.mem[(i+1)-1] = expect[i+1]
    BY <2>1, <1>1
  <2> QED BY <2>1, <2>2, <2>3, <1>6, <1>1, SMTT(30)
<1> QED BY <1>1, <1>3, <1>4, <1>5, <1>6, <1>7 DEF ArrayInv, ArrayTypeOK, ArrayHolds

LEMMA ArrayInvariance == ArraySpec => []ArrayInv
<1>1. ArrayInit => ArrayInv
  BY ArraySizes DEF ArrayInit, ArrayInv, ArrayTypeOK, ArrayHolds, Stored
<1>2. ArrayInv /\ UNCHANGED <<arr, expect>> => ArrayInv'
  BY DEF ArrayInv, ArrayTypeOK, ArrayHolds
<1>3. ArrayInv /\ [ArrayNext]_arrayVars => ArrayInv'
  <2> SUFFICES ASSUME ArrayInv, [ArrayNext]_arrayVars PROVE ArrayInv'
    OBVIOUS
  <2>1. ASSUME NEW x \in Pointer, ArrayPush(x) PROVE ArrayInv'
    BY <2>1, PushKeeps
  <2>2. ASSUME NEW x \in Pointer, NEW o \in 1..MaxElements, ArrayInsert(o, x) PROVE ArrayInv'
    BY <2>2, InsertKeeps, ArraySizes
  <2>3. ASSUME NEW o \in 0..MaxElements, ArrayRemove(o) PROVE ArrayInv'
    BY <2>3, RemoveKeeps
  <2>4. CASE ArrayClear
    <3>1. arr' = [max |-> arr.max, size |-> 0, mem |-> arr.mem] /\ expect' = << >>
      BY <2>4 DEF ArrayClear, ArrayInv, ArrayTypeOK
    <3>2. arr'.max = arr.max /\ arr'.size = 0 /\ arr'.mem = arr.mem
      BY <3>1
    <3> QED BY <3>1, <3>2 DEF ArrayInv, ArrayTypeOK, ArrayHolds
  <2>5. CASE ArrayIterate
    BY <2>5, <1>2 DEF ArrayIterate
  <2>6. CASE UNCHANGED arrayVars
    BY <2>6, <1>2 DEF arrayVars
  <2> QED BY <2>1, <2>2, <2>3, <2>4, <2>5, <2>6 DEF ArrayNext
<1> QED BY <1>1, <1>3, PTL DEF ArraySpec

\* Whatever the sizes at which it grows: the array has what was put into it, in its
\* order, and no call writes to memory that was not allocated.
THEOREM Arrays == ArraySpec => []ArrayHolds
<1>1. ArrayInv => ArrayHolds
  BY DEF ArrayInv
<1> QED BY <1>1, ArrayInvariance, PTL

Lands(how, n, to) ==
    Seek(arr, cursor, how, n) = IF to < 0 THEN <<0, TRUE>>
                                ELSE IF to >= arr.size THEN <<arr.size - 1, TRUE>>
                                ELSE <<to, FALSE>>

\* From an element of an array of any size, a seek comes to the one that is so many before
\* or after it, the first or the last, and fails only where there is no such element.
THEOREM SeeksLand == ArraySpec => []SeekLands
<1>1. ArrayInv => SeekLands
  <2> SUFFICES ASSUME ArrayInv, cursor \in 0..arr.size-1, NEW n \in -MaxElements..MaxElements
               PROVE  /\ n >= 0 => Lands("start", n, n)
                      /\ n <= 0 => Lands("end", n, arr.size - 1 + n)
                      /\ Lands("cur", n, cursor + n)
    BY Zenon DEF SeekLands, Lands
  <2>1. PICK size : size = arr.size
    OBVIOUS
  <2>2. size \in Nat \ {0} /\ cursor \in Nat /\ cursor < size /\ n \in Int
    BY <2>1, ArraySizes DEF ArrayInv, ArrayTypeOK
  <2>15. size = arr.size
    BY <2>1
  <2>3. PICK c : c = cursor
    OBVIOUS
  <2>4. size \in Nat \ {0} /\ c \in Nat /\ c < size /\ n \in Int
    BY <2>2, <2>3
  <2>5. Seek(arr, cursor, "start", n) = IF n >= size THEN <<IF size > 0 THEN size - 1 ELSE 0, TRUE>> ELSE <<n, FALSE>>
    BY <2>1 DEF Seek, Landed
  <2>6. n >= 0 => Seek(arr, cursor, "cur", n) = IF c + n >= size THEN <<IF size > 0 THEN size - 1 ELSE 0, TRUE>>
                                                ELSE <<c + n, FALSE>>
    BY <2>1, <2>3 DEF Seek, Landed
  <2>7. n < 0 => Seek(arr, cursor, "cur", n) = IF c >= -n THEN <<c - (-n), FALSE>> ELSE <<0, TRUE>>
    BY <2>3, <2>4 DEF Seek, SteppedBack
  <2>8. PICK m : m = IF n < 0 THEN -n ELSE n
    OBVIOUS
  <2>9. PICK e : e = IF size > 0 THEN size - 1 ELSE c
    OBVIOUS
  <2>10. Seek(arr, cursor, "end", n) = IF e >= m THEN <<e - m, FALSE>> ELSE <<0, TRUE>>
    BY <2>1, <2>3, <2>8, <2>9 DEF Seek, SteppedBack
  <2>11. e = size - 1
    BY <2>4, <2>9
  <2>12. ASSUME n >= 0 PROVE Lands("start", n, n)
    <3>1. ~(n < 0) /\ size > 0
      BY <2>4, <2>12
    <3> QED
      BY ONLY <2>5, <3>1, <2>15 DEF Lands
  <2>13. ASSUME n <= 0 PROVE Lands("end", n, arr.size - 1 + n)
    <3>1. PICK to : to = size - 1 + n
      OBVIOUS
    <3>2. e - m = to /\ (e >= m <=> ~(to < 0)) /\ ~(to >= size)
      BY <2>4, <2>8, <2>11, <2>13, <3>1
    <3>3. Seek(arr, cursor, "end", n) = IF ~(to < 0) THEN <<to, FALSE>> ELSE <<0, TRUE>>
      BY ONLY <2>10, <3>2
    <3>4. Lands("end", n, to)
      BY ONLY <3>2, <3>3, <2>15 DEF Lands
    <3> QED
      BY <2>1, <3>1, <3>4
  <2>14. Lands("cur", n, cursor + n)
    <3>1. PICK to : to = c + n
      OBVIOUS
    <3>4. to = c + n
      BY <3>1
    <3>2. CASE n >= 0
      <4>1. ~(to < 0) /\ size > 0
        BY <2>4, <3>1, <3>2
      <4>2. Seek(arr, cursor, "cur", n) = IF to >= size THEN <<size - 1, TRUE>> ELSE <<to, FALSE>>
        BY ONLY <2>6, <3>1, <3>2, <4>1, <3>4
      <4>3. Lands("cur", n, to)
        BY ONLY <4>1, <4>2, <2>15 DEF Lands
      <4> QED
        BY <2>3, <3>1, <4>3
    <3>3. CASE n < 0
      <4>1. c - (-n) = to /\ (c >= -n <=> ~(to < 0)) /\ ~(to >= size)
        BY <2>4, <3>1, <3>3
      <4>2. Seek(arr, cursor, "cur", n) = IF ~(to < 0) THEN <<to, FALSE>> ELSE <<0, TRUE>>
        BY ONLY <2>7, <3>3, <4>1
      <4>3. Lands("cur", n, to)
        BY ONLY <4>1, <4>2, <2>15 DEF Lands
      <4> QED
        BY <2>3, <3>1, <4>3
    <3> QED
      BY <2>4, <3>2, <3>3
  <2> QED
    BY <2>12, <2>13, <2>14
<1> QED BY <1>1, ArrayInvariance, PTL
-----------------------------------------------------------------------------
(***************************************************************************)
(* The two trees of the asset manager and of the manager of rate classes   *)
(* keep RecordsKept, whatever is added, with ids that were there as well.  *)
(* That needs to be known of more than it says: a place in a tree has only *)
(* records of its own id and type, so that freeing one record touches one  *)
(* id; and the trees by type of the asset manager have living records.     *)
(***************************************************************************)
Record == [id : RecordId, type : RecordType, live : BOOLEAN]

RecordTypes ==
    /\ manager \in {"assets", "rate_classes"}
    /\ records \in Seq(Record)
    /\ byId \in [RecordId -> 0..Len(records)]
    /\ byType \in [RecordType -> [RecordId -> 0..Len(records)]]
    /\ again \in SUBSET RecordId
    /\ stale \in BOOLEAN

InPlace ==
    /\ \A i \in RecordId : byId[i] # 0 => records[byId[i]].id = i
    /\ \A t \in RecordType, i \in RecordId :
        byType[t][i] # 0 => records[byType[t][i]].id = i /\ records[byType[t][i]].type = t

OwnedAlive ==
    manager = "assets" => \A t \in RecordType, i \in RecordId :
                            byType[t][i] # 0 => records[byType[t][i]].live

RInv == RecordTypes /\ InPlace /\ OwnedAlive /\ RecordsKept

\* What the trees are made of stays what it was when a record is added.
LEMMA FreedSeq ==
    ASSUME NEW recs \in Seq(Record), NEW S
    PROVE  /\ Freed(recs, S) \in Seq(Record) /\ Len(Freed(recs, S)) = Len(recs)
           /\ \A a \in 1..Len(recs) :
                /\ Freed(recs, S)[a].id = recs[a].id
                /\ Freed(recs, S)[a].type = recs[a].type
                /\ Freed(recs, S)[a].live = (recs[a].live /\ a \notin S)
<1>1. DOMAIN recs = 1..Len(recs) /\ \A a \in 1..Len(recs) : recs[a] \in Record
  OBVIOUS
<1>2. /\ DOMAIN Freed(recs, S) = 1..Len(recs)
      /\ \A a \in 1..Len(recs) :
           Freed(recs, S)[a] = IF a \in S THEN [recs[a] EXCEPT !.live = FALSE] ELSE recs[a]
  BY <1>1 DEF Freed
<1>3. \A a \in 1..Len(recs) :
        /\ Freed(recs, S)[a] \in Record
        /\ Freed(recs, S)[a].id = recs[a].id
        /\ Freed(recs, S)[a].type = recs[a].type
        /\ Freed(recs, S)[a].live = (recs[a].live /\ a \notin S)
  BY <1>1, <1>2 DEF Record
<1>4. Freed(recs, S) = [a \in 1..Len(recs) |-> Freed(recs, S)[a]]
  BY <1>2 DEF Freed
<1>5. Freed(recs, S) \in Seq(Record) /\ Len(Freed(recs, S)) = Len(recs)
  BY <1>3, <1>4
<1> QED
  BY <1>3, <1>5

\* The records after one was added: the new one, and the old ones but for one that
\* was freed.
LEMMA AddedRecords ==
    ASSUME RecordTypes, NEW i \in RecordId, NEW t \in RecordType, NEW o \in 0..Len(records),
           NEW recs, recs = Freed(Append(records, [id |-> i, type |-> t, live |-> TRUE]), {o})
    PROVE  /\ recs \in Seq(Record) /\ Len(recs) = Len(records) + 1
           /\ recs[Len(records) + 1] = [id |-> i, type |-> t, live |-> TRUE]
           /\ \A a \in 1..Len(records) :
                /\ recs[a].id = records[a].id /\ recs[a].type = records[a].type
                /\ recs[a].live = (records[a].live /\ a # o)
<1> DEFINE made == Append(records, [id |-> i, type |-> t, live |-> TRUE])
<1>1. /\ made \in Seq(Record) /\ Len(made) = Len(records) + 1
      /\ made[Len(records) + 1] = [id |-> i, type |-> t, live |-> TRUE]
      /\ \A a \in 1..Len(records) : made[a] = records[a]
  BY DEF RecordTypes, Record
<1>2. Len(records) \in Nat /\ Len(records) + 1 \in 1..Len(made)
      /\ \A a \in 1..Len(records) : a \in 1..Len(made)
  BY <1>1 DEF RecordTypes
<1> HIDE DEF made
<1>3. /\ recs \in Seq(Record) /\ Len(recs) = Len(made)
      /\ \A a \in 1..Len(made) : /\ recs[a].id = made[a].id
                                 /\ recs[a].type = made[a].type
                                 /\ recs[a].live = (made[a].live /\ a \notin {o})
  BY <1>1, FreedSeq DEF made
<1>4. recs[Len(records) + 1] \in Record
  BY <1>1, <1>2, <1>3
<1>5. recs[Len(records) + 1] = [id |-> i, type |-> t, live |-> TRUE]
  <2>1. /\ recs[Len(records) + 1].id = i /\ recs[Len(records) + 1].type = t
        /\ recs[Len(records) + 1].live = TRUE
    <3>1. Len(records) + 1 \notin {o}
      BY <1>2
    <3>2. /\ made[Len(records) + 1].id = i /\ made[Len(records) + 1].type = t
          /\ made[Len(records) + 1].live = TRUE
      BY <1>1
    <3> QED
      BY <1>2, <1>3, <3>1, <3>2
  <2> QED
    BY <1>4, <2>1 DEF Record
<1>6. \A a \in 1..Len(records) :
        /\ recs[a].id = records[a].id /\ recs[a].type = records[a].type
        /\ recs[a].live = (records[a].live /\ a # o)
  BY <1>1, <1>2, <1>3
<1> QED
  BY <1>1, <1>3, <1>5, <1>6

\* The type part of the invariant and the places, after any addition.
LEMMA AddInPlace ==
    ASSUME RInv, NEW i \in RecordId, NEW t \in RecordType,
           NEW owner \in [RecordId -> 0..Len(records)], NEW other \in [RecordId -> 0..Len(records)],
           AddToBoth(i, t, owner, other)
    PROVE  RecordTypes' /\ InPlace'
<1>0. /\ records' = Freed(Append(records, [id |-> i, type |-> t, live |-> TRUE]), {owner[i]})
      /\ owner[i] \in 0..Len(records) /\ RecordTypes
  BY DEF AddToBoth, RInv
<1>1. /\ records' \in Seq(Record) /\ Len(records') = Len(records) + 1
      /\ records'[Len(records) + 1] = [id |-> i, type |-> t, live |-> TRUE]
      /\ \A a \in 1..Len(records) : /\ records'[a].id = records[a].id
                                    /\ records'[a].type = records[a].type
  <2>1. PICK o \in 0..Len(records) : o = owner[i]
    BY <1>0
  <2>2. RecordTypes /\ records' = Freed(Append(records, [id |-> i, type |-> t, live |-> TRUE]), {o})
    BY <1>0, <2>1
  <2>3. records' \in Seq(Record) /\ Len(records') = Len(records) + 1
    BY <2>2, AddedRecords
  <2>4. records'[Len(records) + 1] = [id |-> i, type |-> t, live |-> TRUE]
    BY <2>2, AddedRecords
  <2>5. \A a \in 1..Len(records) : /\ records'[a].id = records[a].id
                                   /\ records'[a].type = records[a].type
    BY <2>2, AddedRecords
  <2> QED
    BY <2>3, <2>4, <2>5
<1>2. /\ Len(records) \in Nat
      /\ \A j \in RecordId : byId[j] \in 0..Len(records)
      /\ \A u \in RecordType, j \in RecordId : byType[u][j] \in 0..Len(records)
      /\ \A j \in RecordId : byId'[j] = IF j = i THEN Len(records) + 1 ELSE byId[j]
      /\ \A u \in RecordType, j \in RecordId :
           byType'[u][j] = IF u = t /\ j = i THEN Len(records) + 1 ELSE byType[u][j]
  BY DEF RInv, RecordTypes, AddToBoth
<1>2a. 0..Len(records) \subseteq 0..Len(records') /\ Len(records) + 1 \in 0..Len(records')
  BY <1>1, <1>2
<1>3. RecordTypes'
  <2>1. stale' \in BOOLEAN
    BY DEF AddToBoth, ReadsFreed
  <2>2. byId' \in [RecordId -> 0..Len(records')]
    BY <1>2a DEF AddToBoth, RInv, RecordTypes
  <2>3. byType' \in [RecordType -> [RecordId -> 0..Len(records')]]
    <3>1. byType' = [u \in RecordType |-> [j \in RecordId |-> byType'[u][j]]]
      BY DEF AddToBoth, RInv, RecordTypes
    <3>2. \A u \in RecordType, j \in RecordId : byType'[u][j] \in 0..Len(records')
      BY <1>2, <1>2a
    <3> QED
      BY <3>1, <3>2
  <2>4. manager' \in {"assets", "rate_classes"} /\ again' \in SUBSET RecordId
    BY DEF AddToBoth, RInv, RecordTypes
  <2> QED
    BY <1>1, <2>1, <2>2, <2>3, <2>4 DEF RecordTypes
<1>4. InPlace'
  <2>1. ASSUME NEW j \in RecordId, byId'[j] # 0 PROVE records'[byId'[j]].id = j
    <3>1. CASE j = i
      BY <1>1, <1>2, <3>1
    <3>2. CASE j # i
      <4>1. byId'[j] = byId[j] /\ byId[j] \in 1..Len(records) /\ byId[j] # 0
        BY <1>2, <2>1, <3>2
      <4>2. records[byId[j]].id = j
        BY <4>1 DEF RInv, InPlace
      <4> QED
        BY <1>1, <4>1, <4>2
    <3> QED
      BY <3>1, <3>2
  <2>2. ASSUME NEW u \in RecordType, NEW j \in RecordId, byType'[u][j] # 0
        PROVE  records'[byType'[u][j]].id = j /\ records'[byType'[u][j]].type = u
    <3>1. CASE u = t /\ j = i
      BY <1>1, <1>2, <3>1
    <3>2. CASE ~(u = t /\ j = i)
      <4>1. /\ byType'[u][j] = byType[u][j]
            /\ byType[u][j] \in 1..Len(records) /\ byType[u][j] # 0
        BY <1>2, <2>2, <3>2
      <4>2. records[byType[u][j]].id = j /\ records[byType[u][j]].type = u
        BY <4>1 DEF RInv, InPlace
      <4> QED
        BY <1>1, <4>1, <4>2
    <3> QED
      BY <3>1, <3>2
  <2> QED
    BY <2>1, <2>2 DEF InPlace
<1> QED
  BY <1>3, <1>4

\* Adding an asset: the tree by id is the one that may have a freed key, and only
\* that of the id.
LEMMA AssetAddKeeps ==
    ASSUME RInv, NEW i \in RecordId, NEW t \in RecordType, AssetAdd(i, t)
    PROVE  RInv'
<1> DEFINE a == Len(records) + 1
<1>0. /\ byType[t] \in [RecordId -> 0..Len(records)] /\ byId \in [RecordId -> 0..Len(records)]
      /\ Len(records) \in Nat /\ AddToBoth(i, t, byType[t], byId) /\ manager = "assets" /\ ~stale
  BY DEF RInv, RecordTypes, AssetAdd, AddToBoth
<1>1. RecordTypes' /\ InPlace'
  BY <1>0, AddInPlace
<1>2. /\ records'[a] = [id |-> i, type |-> t, live |-> TRUE]
      /\ \A b \in 1..Len(records) :
           /\ records'[b].type = records[b].type
           /\ records'[b].live = (records[b].live /\ b # byType[t][i])
  <2>1. /\ records' = Freed(Append(records, [id |-> i, type |-> t, live |-> TRUE]), {byType[t][i]})
        /\ byType[t][i] \in 0..Len(records) /\ RecordTypes
    BY <1>0 DEF AddToBoth, RInv
  <2> QED
    BY <2>1, AddedRecords, SMTT(30)
<1>3. /\ byId' = [byId EXCEPT ![i] = a] /\ byType' = [byType EXCEPT ![t][i] = a]
      /\ again' = (IF i \in Here(byId) THEN again \cup {i} ELSE again) /\ manager' = manager
      /\ stale' \in ReadsFreed(records', byId, i)
  BY <1>0 DEF AddToBoth
<1>4. ASSUME NEW j \in RecordId, j # i, byId[j] # 0 PROVE records'[byId[j]].live
  <2>1. records[byId[j]].live /\ records[byId[j]].id = j /\ byId[j] \in 1..Len(records)
    BY <1>0, <1>4 DEF RInv, RecordsKept, InPlace, Here
  <2>2. byType[t][i] # byId[j]
    BY <1>0, <1>4, <2>1 DEF RInv, InPlace
  <2> QED
    BY <1>2, <2>1, <2>2
<1>5. stale' => again' # {}
  <2>1. Dangling(records', byId) \subseteq {i} /\ Dangling(records', byId) \subseteq Here(byId)
    BY <1>4 DEF Dangling, Here
  <2> QED
    BY <1>3, <2>1 DEF ReadsFreed
<1>6. \A j \in Here(byId') : records'[byId'[j]].live
  BY <1>0, <1>2, <1>3, <1>4 DEF Here
<1>7. \A j \in RecordId \ again', u \in RecordType :
        byType'[u][j] = IF j \in Here(byId') /\ records'[byId'[j]].type = u THEN byId'[j] ELSE 0
  <2> SUFFICES ASSUME NEW j \in RecordId \ again', NEW u \in RecordType
               PROVE  byType'[u][j] = IF j \in Here(byId') /\ records'[byId'[j]].type = u
                                      THEN byId'[j] ELSE 0
    OBVIOUS
  <2>1. j \notin again /\ byType[u][j] = IF j \in Here(byId) /\ records[byId[j]].type = u
                                         THEN byId[j] ELSE 0
    BY <1>0, <1>3 DEF RInv, RecordsKept
  <2>2. CASE j # i
    <3>1. byId'[j] = byId[j] /\ byType'[u][j] = byType[u][j]
      BY <1>0, <1>3, <2>2 DEF RInv, RecordTypes
    <3>2. byId[j] # 0 => records'[byId[j]].type = records[byId[j]].type
      BY <1>0, <1>2
    <3> QED
      BY <2>1, <3>1, <3>2 DEF Here
  <2>3. CASE j = i
    <3>1. i \notin Here(byId) /\ byType[u][i] = 0
      BY <1>3, <2>1, <2>3
    <3>2. byId'[i] = a /\ i \in Here(byId') /\ records'[byId'[i]].type = t
      BY <1>0, <1>2, <1>3 DEF Here
    <3>3. byType'[u][i] = IF u = t THEN a ELSE 0
      BY <1>0, <1>3, <3>1 DEF RInv, RecordTypes
    <3> QED
      BY <2>3, <3>2, <3>3
  <2> QED
    BY <2>2, <2>3
<1>8. OwnedAlive'
  <2> SUFFICES ASSUME NEW u \in RecordType, NEW j \in RecordId, byType'[u][j] # 0
               PROVE  records'[byType'[u][j]].live
    BY DEF OwnedAlive
  <2>1. CASE u = t /\ j = i
    BY <1>0, <1>2, <1>3, <2>1 DEF RInv, RecordTypes
  <2>2. CASE ~(u = t /\ j = i)
    <3>1. byType'[u][j] = byType[u][j] /\ byType[u][j] \in 1..Len(records)
      BY <1>0, <1>3, <2>2 DEF RInv, RecordTypes
    <3>2. records[byType[u][j]].live /\ byType[u][j] # byType[t][i]
      BY <1>0, <2>2, <3>1 DEF RInv, InPlace, OwnedAlive
    <3> QED
      BY <1>2, <3>1, <3>2
  <2> QED
    BY <2>1, <2>2
<1> QED
  BY <1>1, <1>5, <1>6, <1>7, <1>8 DEF RInv, RecordsKept

\* Adding a rate class: a tree by type has a freed key only of an id that was added
\* when it was there.
LEMMA RateClassAddKeeps ==
    ASSUME RInv, NEW i \in RecordId, NEW t \in RecordType, RateClassAdd(i, t)
    PROVE  RInv'
<1> DEFINE a == Len(records) + 1
<1>0. /\ byType[t] \in [RecordId -> 0..Len(records)] /\ byId \in [RecordId -> 0..Len(records)]
      /\ Len(records) \in Nat /\ AddToBoth(i, t, byId, byType[t])
      /\ manager = "rate_classes" /\ ~stale
  BY DEF RInv, RecordTypes, RateClassAdd, AddToBoth
<1>1. RecordTypes' /\ InPlace'
  BY <1>0, AddInPlace
<1>2. /\ records'[a] = [id |-> i, type |-> t, live |-> TRUE]
      /\ \A b \in 1..Len(records) :
           /\ records'[b].type = records[b].type
           /\ records'[b].live = (records[b].live /\ b # byId[i])
  <2>1. /\ records' = Freed(Append(records, [id |-> i, type |-> t, live |-> TRUE]), {byId[i]})
        /\ byId[i] \in 0..Len(records) /\ RecordTypes
    BY <1>0 DEF AddToBoth, RInv
  <2> QED
    BY <2>1, AddedRecords
<1>3. /\ byId' = [byId EXCEPT ![i] = a] /\ byType' = [byType EXCEPT ![t][i] = a]
      /\ again' = (IF i \in Here(byId) THEN again \cup {i} ELSE again) /\ manager' = manager
      /\ stale' \in ReadsFreed(records', byType[t], i)
  BY <1>0 DEF AddToBoth
<1>4. ASSUME NEW j \in RecordId, j # i, byId[j] # 0 PROVE records'[byId[j]].live
  <2>1. records[byId[j]].live /\ records[byId[j]].id = j /\ byId[j] \in 1..Len(records)
    BY <1>0, <1>4 DEF RInv, RecordsKept, InPlace, Here
  <2>2. byId[i] # byId[j]
    BY <1>0, <1>4, <2>1 DEF RInv, InPlace
  <2> QED
    BY <1>2, <2>1, <2>2
<1>5. stale' => again' # {}
  <2>1. ASSUME NEW j \in Dangling(records', byType[t]) PROVE again' # {}
    <3>1. j \in RecordId /\ byType[t][j] \in 1..Len(records) /\ ~records'[byType[t][j]].live
      BY <1>0, <2>1 DEF Dangling, Here
    <3>2. CASE j \in again
      BY <1>3, <3>2
    <3>3. CASE j \notin again
      <4>1. j \in Here(byId) /\ byType[t][j] = byId[j]
        BY <1>0, <3>1, <3>3 DEF RInv, RecordsKept
      <4>2. j = i
        BY <1>4, <3>1, <4>1 DEF Here
      <4> QED
        BY <1>3, <4>1, <4>2
    <3> QED
      BY <3>2, <3>3
  <2>2. stale' => Dangling(records', byType[t]) # {}
    BY <1>3 DEF ReadsFreed
  <2> QED
    BY <2>1, <2>2
<1>6. \A j \in Here(byId') : records'[byId'[j]].live
  BY <1>0, <1>2, <1>3, <1>4 DEF Here
<1>7. \A j \in RecordId \ again', u \in RecordType :
        byType'[u][j] = IF j \in Here(byId') /\ records'[byId'[j]].type = u THEN byId'[j] ELSE 0
  <2> SUFFICES ASSUME NEW j \in RecordId \ again', NEW u \in RecordType
               PROVE  byType'[u][j] = IF j \in Here(byId') /\ records'[byId'[j]].type = u
                                      THEN byId'[j] ELSE 0
    OBVIOUS
  <2>1. j \notin again /\ byType[u][j] = IF j \in Here(byId) /\ records[byId[j]].type = u
                                         THEN byId[j] ELSE 0
    BY <1>0, <1>3 DEF RInv, RecordsKept
  <2>2. CASE j # i
    <3>1. byId'[j] = byId[j] /\ byType'[u][j] = byType[u][j]
      BY <1>0, <1>3, <2>2 DEF RInv, RecordTypes
    <3>2. byId[j] # 0 => records'[byId[j]].type = records[byId[j]].type
      BY <1>0, <1>2
    <3> QED
      BY <2>1, <3>1, <3>2 DEF Here
  <2>3. CASE j = i
    <3>1. i \notin Here(byId) /\ byType[u][i] = 0
      BY <1>3, <2>1, <2>3
    <3>2. byId'[i] = a /\ i \in Here(byId') /\ records'[byId'[i]].type = t
      BY <1>0, <1>2, <1>3 DEF Here
    <3>3. byType'[u][i] = IF u = t THEN a ELSE 0
      BY <1>0, <1>3, <3>1 DEF RInv, RecordTypes
    <3> QED
      BY <2>3, <3>2, <3>3
  <2> QED
    BY <2>2, <2>3
<1>8. OwnedAlive'
  BY <1>0, <1>3 DEF OwnedAlive
<1> QED
  BY <1>1, <1>5, <1>6, <1>7, <1>8 DEF RInv, RecordsKept

\* Clearing leaves nothing in any tree.
LEMMA AssetClearKeeps == RInv /\ AssetClear => RInv'
<1> SUFFICES ASSUME RInv, AssetClear PROVE RInv'
  OBVIOUS
<1>1. /\ byId' = NoRecords /\ byType' = [t \in RecordType |-> NoRecords] /\ again' = {}
      /\ manager' = manager /\ stale' = stale /\ ~stale
      /\ records' \in Seq(Record) /\ Len(records') = Len(records)
  BY FreedSeq DEF AssetClear, RInv, RecordTypes
<1>2. Len(records') \in Nat
  BY <1>1
<1>3. RecordTypes'
  BY <1>1, <1>2 DEF RInv, RecordTypes, NoRecords
<1>4. InPlace' /\ OwnedAlive'
  BY <1>1 DEF InPlace, OwnedAlive, NoRecords
<1>5. RecordsKept'
  BY <1>1 DEF RecordsKept, NoRecords, Here
<1> QED
  BY <1>3, <1>4, <1>5 DEF RInv

\* The invariant holds of every behaviour of the managers, beside an engine.
THEOREM Registry == RegistrySpec => []RInv
<1>1. RegistryInit => RInv
  <2> SUFFICES ASSUME RegistryInit PROVE RInv
    OBVIOUS
  <2>1. /\ records = << >> /\ Len(records) = 0 /\ again = {} /\ stale = FALSE
        /\ manager \in {"assets", "rate_classes"}
        /\ byId = [i \in RecordId |-> 0]
        /\ byType = [t \in RecordType |-> [i \in RecordId |-> 0]]
    BY DEF RegistryInit, NoRecords
  <2>2. RecordTypes
    <3>1. records \in Seq(Record) /\ 0 \in 0..Len(records)
      BY <2>1
    <3> QED
      BY <2>1, <3>1 DEF RecordTypes
  <2>3. InPlace /\ OwnedAlive /\ RecordsKept
    BY <2>1 DEF InPlace, OwnedAlive, RecordsKept, Here
  <2> QED
    BY <2>2, <2>3 DEF RInv
<1>2. RInv /\ [ManagerNext \/ EngineNext]_registryVars => RInv'
  <2> SUFFICES ASSUME RInv, [ManagerNext \/ EngineNext]_registryVars PROVE RInv'
    OBVIOUS
  <2>1. CASE ManagerNext
    BY <2>1, AssetAddKeeps, RateClassAddKeeps, AssetClearKeeps DEF ManagerNext
  <2>2. CASE EngineNext \/ UNCHANGED registryVars
    <3>1. UNCHANGED managerVars
      BY <2>2 DEF EngineNext, Register, registryVars, managerVars
    <3> QED
      BY <3>1 DEF managerVars, RInv, RecordTypes, InPlace, OwnedAlive, RecordsKept,
                  Here
  <2> QED
    BY <2>1, <2>2
<1> QED
  BY <1>1, <1>2, PTL DEF RegistrySpec

\* For any ids, types and records: as long as no id is added that is there, the two
\* trees of rq_asset_mgr and of rq_rate_class_mgr agree, their records are alive, and
\* no walk reads a freed string.
THEOREM RecordsAreKept == RegistrySpec => []RecordsKept
<1>1. RInv => RecordsKept
  BY DEF RInv
<1> QED
  BY <1>1, Registry, PTL
-----------------------------------------------------------------------------
(***************************************************************************)
(* The engine's tree of products: an unbalanced search tree that is never  *)
(* taken apart.  A node is where a walk led, so what is above a node is    *)
(* there, and a walk ends after no more steps than there are nodes.        *)
(***************************************************************************)
Path == Seq({"left", "right"})
Upper(w, i) == SubSeq(w, 1, i)
Side(product, p) == IF product > p THEN "right" ELSE "left"

\* A walk to a product led there.
Leads(tree, p, w) ==
    /\ w \in Path
    /\ \A i \in 1..Len(w) : /\ Upper(w, i-1) \in DOMAIN tree
                            /\ tree[Upper(w, i-1)].product # p
                            /\ w[i] = Side(tree[Upper(w, i-1)].product, p)

Ends(tree, p, w) == Leads(tree, p, w) /\ (w \notin DOMAIN tree \/ tree[w].product = p)

\* Above a node there are nodes.
Rooted(tree) ==
    /\ DOMAIN tree \subseteq Path /\ IsFiniteSet(DOMAIN tree)
    /\ \A w \in DOMAIN tree : \A i \in 0..Len(w) : Upper(w, i) \in DOMAIN tree

LEMMA Uppers ==
    ASSUME NEW w \in Path, NEW i \in 0..Len(w)
    PROVE  /\ Upper(w, i) \in Path /\ Len(Upper(w, i)) = i
           /\ \A j \in 1..i : Upper(w, i)[j] = w[j]
<1>1. Len(w) \in Nat /\ \A j \in 1..Len(w) : w[j] \in {"left", "right"}
    BY ElementOfSeq DEF Path
<1>2. \A j \in 1..i : w[j] \in {"left", "right"}
    BY <1>1
<1> QED
    BY <1>1, <1>2, SubSeqProperties DEF Path, Upper

LEMMA SamePath ==
    ASSUME NEW v \in Path, NEW w \in Path, Len(v) = Len(w), \A j \in 1..Len(w) : v[j] = w[j]
    PROVE  v = w
BY DEF Path

LEMMA WholePath == ASSUME NEW w \in Path PROVE Upper(w, Len(w)) = w
<1>1. Len(w) \in 0..Len(w)
    BY DEF Path
<1> QED
    BY <1>1, Uppers, SamePath

\* v goes on from w to the side s.
GoesOn(v, w, s) ==
    /\ v \in Path /\ Len(v) = Len(w) + 1 /\ v[Len(w) + 1] = s /\ Len(w) \in Nat
    /\ \A i \in 0..Len(w) : Upper(v, i) = Upper(w, i)
    /\ Upper(v, Len(w)) = w
    /\ \A j \in 1..Len(w) : v[j] = w[j]

LEMMA Further ==
    ASSUME NEW w \in Path, NEW s, s \in {"left", "right"}
    PROVE  GoesOn(Append(w, s), w, s)
<1> DEFINE v == Append(w, s)
<1>1. /\ v \in Path /\ Len(v) = Len(w) + 1 /\ v[Len(w) + 1] = s /\ Len(w) \in Nat
      /\ \A j \in 1..Len(w) : v[j] = w[j]
    BY DEF Path
<1>2. ASSUME NEW i \in 0..Len(w) PROVE Upper(v, i) = Upper(w, i)
  <2>1. i \in 0..Len(v) /\ \A j \in 1..i : j \in 1..Len(w)
    BY <1>1
  <2>2. PICK x, y : x = Upper(v, i) /\ y = Upper(w, i)
    OBVIOUS
  <2>3. x \in Path /\ Len(x) = i /\ \A j \in 1..i : x[j] = v[j]
    BY <1>1, <2>1, <2>2, Uppers
  <2>4. y \in Path /\ Len(y) = i /\ \A j \in 1..i : y[j] = w[j]
    BY <2>2, Uppers
  <2>5. x = y
    BY <1>1, <2>1, <2>3, <2>4, SamePath
  <2> QED
    BY <2>2, <2>5
<1>3. Upper(v, Len(w)) = w
    BY <1>1, <1>2, WholePath
<1> HIDE DEF v
<1>4. GoesOn(v, w, s)
    BY <1>1, <1>2, <1>3 DEF GoesOn
<1> QED
    BY <1>4 DEF v

LEMMA LeadsOn ==
    ASSUME NEW tree, NEW p, NEW w, Leads(tree, p, w), w \in DOMAIN tree, tree[w].product # p
    PROVE  /\ Leads(tree, p, Append(w, Side(tree[w].product, p)))
           /\ Len(Append(w, Side(tree[w].product, p))) = Len(w) + 1
<1>1. PICK s : s = Side(tree[w].product, p) /\ s \in {"left", "right"}
    BY DEF Side
<1>2. PICK v : v = Append(w, s)
    OBVIOUS
<1>3. GoesOn(v, w, s)
    BY <1>1, <1>2, Further DEF Leads
<1>4. /\ v \in Path /\ Len(v) = Len(w) + 1 /\ v[Len(w) + 1] = s /\ Len(w) \in Nat
      /\ \A i \in 0..Len(w) : Upper(v, i) = Upper(w, i)
      /\ Upper(v, Len(w)) = w
    BY <1>3 DEF GoesOn
<1>5. \A j \in 1..Len(w) : v[j] = w[j]
    BY <1>3 DEF GoesOn
<1>6. ASSUME NEW i \in 1..Len(v)
      PROVE  /\ Upper(v, i-1) \in DOMAIN tree
             /\ tree[Upper(v, i-1)].product # p
             /\ v[i] = Side(tree[Upper(v, i-1)].product, p)
  <2>1. CASE i \in 1..Len(w)
    <3>1. i - 1 \in 0..Len(w)
      BY <1>4, <2>1
    <3>2. Upper(v, i-1) = Upper(w, i-1) /\ v[i] = w[i]
      BY <1>4, <1>5, <2>1, <3>1
    <3> QED
      BY <2>1, <3>2 DEF Leads
  <2>2. CASE i \notin 1..Len(w)
    <3>1. i = Len(w) + 1 /\ i - 1 = Len(w)
      BY <1>4, <2>2
    <3>2. Upper(v, i-1) = w /\ v[i] = s
      BY <1>4, <3>1
    <3> QED
      BY <1>1, <3>2
  <2> QED
    BY <2>1, <2>2
<1>7. Leads(tree, p, v)
    BY <1>4, <1>6 DEF Leads
<1> QED
    BY <1>1, <1>2, <1>4, <1>7

\* The walk takes as many steps as there are nodes, and so it ends.
LEMMA WalkEnds ==
    ASSUME NEW tree, Rooted(tree), NEW p
    PROVE  Ends(tree, p, Walk(tree, p))
<1> DEFINE N == Cardinality(DOMAIN tree)
           step == [w \in Path |-> IF w \notin DOMAIN tree \/ tree[w].product = p THEN w
                                   ELSE Append(w, Side(tree[w].product, p))]
           to == CHOOSE f : f = [n \in 0..N |->
                    IF n = 0 THEN << >>
                    ELSE IF f[n-1] \notin DOMAIN tree \/ tree[f[n-1]].product = p THEN f[n-1]
                         ELSE Append(f[n-1], IF tree[f[n-1]].product > p THEN "right" ELSE "left")]
<1>1. N \in Nat
    BY FS_CardinalityType DEF Rooted
<1>2. << >> \in Path
    BY DEF Path
<1>3. step \in [Path -> Path]
  <2>1. ASSUME NEW w \in Path PROVE Append(w, Side(tree[w].product, p)) \in Path
    <3>1. PICK s : s = Side(tree[w].product, p) /\ s \in {"left", "right"}
      BY DEF Side
    <3> QED
      BY <3>1, Further DEF GoesOn
  <2> QED
    BY <2>1
<1>4. PICK f : Iteration(f, Path, << >>, step, N)
    BY <1>1, <1>2, <1>3, Iterates
<1>5. f = [n \in 0..N |->
                    IF n = 0 THEN << >>
                    ELSE IF f[n-1] \notin DOMAIN tree \/ tree[f[n-1]].product = p THEN f[n-1]
                         ELSE Append(f[n-1], IF tree[f[n-1]].product > p THEN "right" ELSE "left")]
  <2>1. f \in [0..N -> Path] /\ f[0] = << >>
    BY <1>4 DEF Iteration
  <2>2. ASSUME NEW n \in 0..N
        PROVE  f[n] = IF n = 0 THEN << >>
                    ELSE IF f[n-1] \notin DOMAIN tree \/ tree[f[n-1]].product = p THEN f[n-1]
                         ELSE Append(f[n-1], IF tree[f[n-1]].product > p THEN "right" ELSE "left")
    <3>1. CASE n = 0
      BY <2>1, <3>1
    <3>2. CASE n # 0
      <4>1. n \in 1..N /\ n - 1 \in 0..N
        BY <1>1, <3>2
      <4>2. f[n] = step[f[n-1]] /\ f[n-1] \in Path
        BY <1>4, <2>1, <4>1 DEF Iteration
      <4> QED
        BY <3>2, <4>2 DEF Side
    <3> QED
      BY <3>1, <3>2
  <2> QED
    BY <2>1, <2>2
<1>6. to = [n \in 0..N |->
                    IF n = 0 THEN << >>
                    ELSE IF to[n-1] \notin DOMAIN tree \/ tree[to[n-1]].product = p THEN to[n-1]
                         ELSE Append(to[n-1], IF tree[to[n-1]].product > p THEN "right" ELSE "left")]
    BY <1>5
<1>7. Walk(tree, p) = to[N]
    BY DEF Walk
<1> HIDE DEF to, step
<1>8. to[0] = << >>
    BY <1>1, <1>6
<1>9. ASSUME NEW n \in 1..N
      PROVE  to[n] = IF to[n-1] \notin DOMAIN tree \/ tree[to[n-1]].product = p THEN to[n-1]
                     ELSE Append(to[n-1], Side(tree[to[n-1]].product, p))
  <2>1. n \in 0..N /\ n # 0
    BY <1>1
  <2> QED
    BY <1>6, <2>1 DEF Side
<1> DEFINE S == {n \in 0..N : Leads(tree, p, to[n]) /\ (Ends(tree, p, to[n]) \/ Len(to[n]) = n)}
<1>10. 0 \in S
  <2>1. Leads(tree, p, << >>)
    BY <1>2 DEF Leads
  <2> QED
    BY <1>1, <1>8, <2>1
<1>11. ASSUME NEW n \in 1..N, n - 1 \in S PROVE n \in S
  <2>1. Leads(tree, p, to[n-1]) /\ (Ends(tree, p, to[n-1]) \/ Len(to[n-1]) = n-1)
    BY <1>11
  <2>2. CASE to[n-1] \notin DOMAIN tree \/ tree[to[n-1]].product = p
    BY <1>1, <1>9, <2>1, <2>2 DEF Ends
  <2>3. CASE ~(to[n-1] \notin DOMAIN tree \/ tree[to[n-1]].product = p)
    <3>1. to[n] = Append(to[n-1], Side(tree[to[n-1]].product, p))
      BY <1>9, <2>3
    <3>2. Leads(tree, p, to[n]) /\ Len(to[n]) = Len(to[n-1]) + 1
      BY <2>1, <2>3, <3>1, LeadsOn
    <3>3. Len(to[n-1]) = n - 1
      BY <2>1, <2>3 DEF Ends
    <3> QED
      BY <1>1, <3>2, <3>3
  <2> QED
    BY <2>2, <2>3
<1> HIDE DEF S
<1>12. N \in S
  <2>1. 0..N \subseteq S
    BY <1>1, <1>10, <1>11, Upwards
  <2> QED
    BY <1>1, <2>1
<1>13. PICK w : w = to[N]
    OBVIOUS
<1>14. Leads(tree, p, w) /\ (Ends(tree, p, w) \/ Len(w) = N)
    BY <1>12, <1>13 DEF S
<1>15. ASSUME ~Ends(tree, p, w) PROVE FALSE
  <2>1. Len(w) = N /\ w \in DOMAIN tree /\ w \in Path
    BY <1>14, <1>15 DEF Ends, Leads
  <2> DEFINE g == [i \in 0..N |-> Upper(w, i)]
  <2>2. \A i \in 0..N : Upper(w, i) \in DOMAIN tree /\ Len(Upper(w, i)) = i
    BY <2>1, Uppers DEF Rooted
  <2>3. g \in [0..N -> DOMAIN tree]
    BY <2>2
  <2>4. IsFiniteSet(0..N) /\ Cardinality(0..N) = N + 1
    BY <1>1, FS_Interval
  <2>5. IsFiniteSet(DOMAIN tree) /\ Cardinality(DOMAIN tree) < Cardinality(0..N)
    BY <1>1, <2>4 DEF Rooted
  <2>6. \E x, y \in 0..N : x # y /\ g[x] = g[y]
    <3> HIDE DEF g, N
    <3> QED
      BY <2>3, <2>4, <2>5, FS_PigeonHole
  <2> QED
    BY <2>2, <2>6
<1> QED
    BY <1>7, <1>13, <1>15

\* It ends at one place.
LEMMA EndsOnce ==
    ASSUME NEW tree, NEW p, NEW v, Ends(tree, p, v), NEW w, Ends(tree, p, w)
    PROVE  v = w
<1>1. ASSUME NEW a, NEW b, Ends(tree, p, a), Leads(tree, p, b), Len(a) <= Len(b)
      PROVE  a = b
  <2>1. a \in Path /\ b \in Path /\ Len(a) \in Nat /\ Len(b) \in Nat
    BY <1>1 DEF Ends, Leads, Path
  <2> DEFINE S == {i \in 0..Len(a) : Upper(a, i) = Upper(b, i)}
  <2>2. 0 \in S
    <3>1. 0 \in 0..Len(a) /\ 0 \in 0..Len(b)
      BY <2>1
    <3> QED
      BY <2>1, <3>1, Uppers, SamePath
  <2>3. ASSUME NEW i \in 1..Len(a), i - 1 \in S PROVE i \in S
    <3>1. Upper(a, i-1) = Upper(b, i-1) /\ i \in 1..Len(b)
      BY <1>1, <2>1, <2>3
    <3>2. a[i] = b[i]
      BY <1>1, <3>1 DEF Ends, Leads
    <3>3. i \in 0..Len(a) /\ i \in 0..Len(b) /\ i - 1 \in 0..Len(a) /\ i - 1 \in 0..Len(b)
      BY <2>1, <3>1
    <3>4. PICK x, y : x = Upper(a, i) /\ y = Upper(b, i)
      OBVIOUS
    <3>5. /\ x \in Path /\ y \in Path /\ Len(x) = i /\ Len(y) = i
          /\ \A j \in 1..i : x[j] = a[j] /\ y[j] = b[j]
      BY <2>1, <3>3, <3>4, Uppers
    <3>6. \A j \in 1..i-1 : a[j] = b[j]
      <4>1. \A j \in 1..i-1 : Upper(a, i-1)[j] = a[j] /\ Upper(b, i-1)[j] = b[j]
        BY <2>1, <3>3, Uppers
      <4> QED
        BY <3>1, <4>1
    <3>7. \A j \in 1..i : x[j] = y[j]
      <4>1. \A j \in 1..i : j = i \/ j \in 1..i-1
        OBVIOUS
      <4> QED
        BY <3>2, <3>5, <3>6, <4>1
    <3>8. x = y
      BY <3>5, <3>7, SamePath
    <3> QED
      BY <3>3, <3>4, <3>8
  <2> HIDE DEF S
  <2>4. Len(a) \in S
    <3>1. 0..Len(a) \subseteq S
      BY <2>1, <2>2, <2>3, Upwards
    <3> QED
      BY <2>1, <3>1
  <2>5. a = Upper(b, Len(a))
    BY <2>1, <2>4, WholePath DEF S
  <2>6. CASE Len(a) = Len(b)
    BY <2>1, <2>5, <2>6, WholePath
  <2>7. CASE Len(a) < Len(b)
    <3>1. Len(a) + 1 \in 1..Len(b) /\ (Len(a) + 1) - 1 = Len(a)
      BY <2>1, <2>7
    <3>2. PICK i \in 1..Len(b) : i - 1 = Len(a)
      BY <3>1
    <3>3. Upper(b, i-1) \in DOMAIN tree /\ tree[Upper(b, i-1)].product # p
      BY <1>1 DEF Leads
    <3> QED
      BY <1>1, <2>5, <3>2, <3>3 DEF Ends
  <2> QED
    BY <1>1, <2>1, <2>6, <2>7
<1>2. Len(v) \in Nat /\ Len(w) \in Nat
    BY DEF Ends, Leads, Path
<1>3. Len(v) <= Len(w) \/ Len(w) <= Len(v)
    BY <1>2
<1> QED
    BY <1>1, <1>3 DEF Ends

\* What registering does: a product's adapter is the one that came, and any other
\* product has the one it had.
Found(grown, tree, p, ad, w) ==
    /\ Rooted(grown)
    /\ DOMAIN grown = DOMAIN tree \cup {w}
    /\ grown[w].adapter = ad
    /\ \A x \in DOMAIN tree : x # w => grown[x] = tree[x]
    /\ GetAdapter(grown, p) = ad
    /\ \A q : q # p => GetAdapter(grown, q) = GetAdapter(tree, q)

LEMMA RegisteredFinds ==
    ASSUME NEW tree, Rooted(tree), NEW p, NEW ad, NEW grown, grown = Registered(tree, p, ad),
           NEW w, w = Walk(tree, p)
    PROVE  Found(grown, tree, p, ad, w)
<1>1. Ends(tree, p, w) /\ w \in Path /\ Len(w) \in Nat
    BY WalkEnds DEF Ends, Leads, Path
<1>2. /\ DOMAIN grown = DOMAIN tree \cup {w}
      /\ \A x \in DOMAIN tree : x # w => grown[x] = tree[x]
      /\ grown[w] = [product |-> p, adapter |-> ad]
    BY DEF Registered
<1>3. grown[w].product = p /\ grown[w].adapter = ad
    BY <1>2
<1>4. ASSUME NEW x \in DOMAIN tree PROVE x \in DOMAIN grown /\ grown[x].product = tree[x].product
  <2>1. CASE x = w
    BY <1>1, <1>2, <1>3, <2>1 DEF Ends
  <2>2. CASE x # w
    BY <1>2, <2>2
  <2> QED
    BY <2>1, <2>2
<1>5. ASSUME NEW i \in 0..Len(w) PROVE Upper(w, i) \in DOMAIN grown
  <2>1. CASE i = Len(w)
    BY <1>1, <1>2, <2>1, WholePath
  <2>2. CASE i # Len(w)
    <3>1. PICK j \in 1..Len(w) : i = j - 1
      <4>1. i + 1 \in 1..Len(w) /\ i = (i + 1) - 1
        BY <1>1, <2>2
      <4> QED
        BY <4>1
    <3>2. Upper(w, j-1) \in DOMAIN tree
      BY <1>1 DEF Ends, Leads
    <3> QED
      BY <1>2, <3>1, <3>2
  <2> QED
    BY <2>1, <2>2
<1>6. Rooted(grown)
  <2>1. DOMAIN grown \subseteq Path /\ IsFiniteSet(DOMAIN grown)
    BY <1>1, <1>2, FS_AddElement DEF Rooted
  <2>2. ASSUME NEW x \in DOMAIN grown, NEW i \in 0..Len(x) PROVE Upper(x, i) \in DOMAIN grown
    <3>1. CASE x = w
      BY <1>5, <2>2, <3>1
    <3>2. CASE x # w
      BY <1>2, <2>2, <3>2 DEF Rooted
    <3> QED
      BY <3>1, <3>2
  <2> QED
    BY <2>1, <2>2 DEF Rooted
<1>7. ASSUME NEW q, NEW u, Leads(tree, q, u) PROVE Leads(grown, q, u)
    BY <1>4, <1>7 DEF Leads
<1>8. GetAdapter(grown, p) = ad
  <2>1. Ends(grown, p, w)
    BY <1>1, <1>3, <1>7 DEF Ends
  <2>2. Walk(grown, p) = w
    BY <1>6, <2>1, WalkEnds, EndsOnce
  <2> QED
    BY <1>2, <1>3, <2>2 DEF GetAdapter
<1>9. ASSUME NEW q, q # p PROVE GetAdapter(grown, q) = GetAdapter(tree, q)
  <2>1. PICK u : u = Walk(tree, q)
    OBVIOUS
  <2>2. Ends(tree, q, u) /\ Leads(grown, q, u)
    BY <1>7, <2>1, WalkEnds DEF Ends
  <2>3. CASE u # w
    <3>1. Ends(grown, q, u)
      BY <1>2, <1>4, <2>2, <2>3 DEF Ends
    <3>2. Walk(grown, q) = u
      BY <1>6, <3>1, WalkEnds, EndsOnce
    <3>3. u \in DOMAIN grown <=> u \in DOMAIN tree
      BY <1>2, <2>3
    <3>4. u \in DOMAIN tree => grown[u] = tree[u]
      BY <1>2, <2>3
    <3> QED
      BY <2>1, <3>2, <3>3, <3>4 DEF GetAdapter
  <2>4. CASE u = w
    <3>1. w \notin DOMAIN tree
      BY <1>1, <1>9, <2>2, <2>4 DEF Ends
    <3>2. GetAdapter(tree, q) = NoAdapter
      BY <2>1, <2>4, <3>1 DEF GetAdapter
    <3>3. PICK s : s = Side(grown[w].product, q) /\ s \in {"left", "right"}
      BY DEF Side
    <3>4. PICK v : v = Append(w, s)
      OBVIOUS
    <3>5. Leads(grown, q, v)
      BY <1>2, <1>3, <1>9, <2>2, <2>4, <3>3, <3>4, LeadsOn
    <3>6. GoesOn(v, w, s)
      BY <1>1, <3>3, <3>4, Further
    <3>7. v \notin DOMAIN grown
      <4>1. v # w
        BY <1>1, <3>6 DEF GoesOn
      <4>2. ASSUME v \in DOMAIN tree PROVE FALSE
        <5>1. Len(w) \in 0..Len(v) /\ Upper(v, Len(w)) = w
          BY <1>1, <3>6 DEF GoesOn
        <5> QED
          BY <3>1, <4>2, <5>1 DEF Rooted
      <4> QED
        BY <1>2, <4>1, <4>2
    <3>8. Walk(grown, q) = v
      BY <1>6, <3>5, <3>7, WalkEnds, EndsOnce DEF Ends
    <3> QED
      BY <3>2, <3>7, <3>8 DEF GetAdapter
  <2> QED
    BY <2>3, <2>4
<1> QED
    BY <1>2, <1>3, <1>6, <1>8, <1>9 DEF Found

\* No two nodes have one adapter, and no node a freed one, unless one was given twice.
EngineInv ==
    /\ Rooted(nodes)
    /\ registered \in [ProductId -> PricingAdapter \cup {NoAdapter}]
    /\ repeated \in BOOLEAN
    /\ \A p \in ProductId : GetAdapter(nodes, p) = registered[p]
    /\ ~repeated => \A x \in DOMAIN nodes :
            /\ nodes[x].adapter \notin lost
            /\ \A y \in DOMAIN nodes : nodes[x].adapter = nodes[y].adapter => x = y

LEMMA RegisterKeeps ==
    ASSUME EngineInv, NEW p \in ProductId, NEW ad \in PricingAdapter, Register(p, ad)
    PROVE  EngineInv'
<1>1. PICK w : w = Walk(nodes, p)
    OBVIOUS
<1>2. PICK grown : grown = Registered(nodes, p, ad)
    OBVIOUS
<1>3. nodes' = grown
    BY <1>2 DEF Register
<1>4. Rooted(nodes)
    BY DEF EngineInv
<1>5. Found(grown, nodes, p, ad, w)
    BY ONLY <1>1, <1>2, <1>4, RegisteredFinds
<1>6. registered' = [registered EXCEPT ![p] = ad] /\ ad \notin lost
    BY DEF Register
<1>7. registered' \in [ProductId -> PricingAdapter \cup {NoAdapter}]
    BY <1>6 DEF EngineInv
<1>8. ASSUME NEW q \in ProductId PROVE GetAdapter(grown, q) = registered'[q]
  <2>1. CASE q = p
    BY <1>5, <1>6, <2>1 DEF EngineInv, Found
  <2>2. CASE q # p
    <3>1. GetAdapter(nodes, q) = registered[q]
      BY DEF EngineInv
    <3>2. registered'[q] = registered[q]
      BY <1>6, <2>2 DEF EngineInv
    <3> QED
      BY <1>5, <2>2, <3>1, <3>2 DEF Found
  <2> QED
    BY <2>1, <2>2
<1>9. repeated' \in BOOLEAN
    BY DEF Register
<1>10. ASSUME ~repeated', NEW x \in DOMAIN grown
       PROVE  /\ grown[x].adapter \notin lost'
              /\ \A y \in DOMAIN grown : grown[x].adapter = grown[y].adapter => x = y
  <2>1. ~repeated /\ \A y \in DOMAIN nodes : nodes[y].adapter # ad
    BY <1>10 DEF Register
  <2>2. lost' = lost \cup ({GetAdapter(nodes, p)} \ {NoAdapter})
    BY DEF Register
  <2>3. /\ \A y \in DOMAIN nodes : nodes[y].adapter \notin lost
        /\ \A y, z \in DOMAIN nodes : nodes[y].adapter = nodes[z].adapter => y = z
    BY <2>1 DEF EngineInv
  <2>4. GetAdapter(nodes, p) = IF w \in DOMAIN nodes THEN nodes[w].adapter ELSE NoAdapter
    BY <1>1 DEF GetAdapter
  <2>5. CASE x = w
    <3>1. ad \notin lost'
      BY <1>6, <2>1, <2>2, <2>4, RegistryAssumption
    <3>2. ASSUME NEW y \in DOMAIN grown, y # w PROVE grown[y].adapter # ad
      BY <1>5, <2>1, <3>2 DEF Found
    <3> QED
      BY <1>5, <2>5, <3>1, <3>2 DEF Found
  <2>6. CASE x # w
    <3>1. x \in DOMAIN nodes /\ grown[x].adapter = nodes[x].adapter
      BY <1>5, <1>10, <2>6 DEF Found
    <3>2. nodes[x].adapter \notin lost'
      BY <2>2, <2>3, <2>4, <2>6, <3>1
    <3>3. ASSUME NEW y \in DOMAIN grown, nodes[x].adapter = grown[y].adapter PROVE x = y
      <4>1. y # w
        BY <1>5, <2>1, <3>1, <3>3 DEF Found
      <4>2. y \in DOMAIN nodes /\ grown[y].adapter = nodes[y].adapter
        BY <1>5, <3>3, <4>1 DEF Found
      <4> QED
        BY <2>3, <3>1, <3>3, <4>2
    <3> QED
      BY <3>1, <3>2, <3>3
  <2> QED
    BY <2>5, <2>6
<1> QED
    BY <1>3, <1>5, <1>7, <1>8, <1>9, <1>10 DEF EngineInv, Found

\* rq_pricing_engine_get_pricing_adapter, for any ids in any order: every product has
\* the adapter it was given last, for which the walk ends at its node, and none has one
\* that was freed unless one was given twice.
THEOREM AdaptersAreKept == RegistrySpec => []AdaptersKept
<1>1. RegistryInit => EngineInv
  <2> SUFFICES ASSUME RegistryInit PROVE EngineInv
    OBVIOUS
  <2>1. nodes = << >> /\ DOMAIN nodes = {}
    BY DEF RegistryInit
  <2>2. Rooted(nodes)
    BY <2>1, FS_EmptySet DEF Rooted
  <2>3. \A p \in ProductId : GetAdapter(nodes, p) = registered[p]
    BY <2>1 DEF GetAdapter, RegistryInit
  <2> QED
    BY <2>1, <2>2, <2>3 DEF EngineInv, RegistryInit
<1>2. EngineInv /\ UNCHANGED engineVars => EngineInv'
    BY DEF EngineInv, engineVars
<1>3. EngineInv /\ [ManagerNext \/ EngineNext]_registryVars => EngineInv'
  <2> SUFFICES ASSUME EngineInv, [ManagerNext \/ EngineNext]_registryVars PROVE EngineInv'
    OBVIOUS
  <2>1. CASE ManagerNext
    BY <1>2, <2>1 DEF ManagerNext, AssetAdd, RateClassAdd, AddToBoth, AssetClear, engineVars
  <2>2. CASE EngineNext
    BY <2>2, RegisterKeeps DEF EngineNext
  <2>3. CASE UNCHANGED registryVars
    BY <1>2, <2>3 DEF registryVars
  <2> QED
    BY <2>1, <2>2, <2>3
<1>4. EngineInv => AdaptersKept
    BY DEF EngineInv, AdaptersKept
<1> QED
    BY <1>1, <1>3, <1>4, PTL DEF RegistrySpec
-----------------------------------------------------------------------------
(***************************************************************************)
(* Vectors and partitioned arrays: an element has a place of its own in    *)
(* the blocks, and a write to the last block changes no other one.         *)
(***************************************************************************)
LEMMA Divided ==
    ASSUME NEW n \in Nat \ {0}, NEW a \in Nat
    PROVE  a \div n \in Nat /\ a % n \in 0..n-1 /\ a = n * (a \div n) + (a % n)
OBVIOUS

LEMMA Products ==
    ASSUME NEW n \in Nat \ {0}, NEW a \in Nat, NEW b \in Nat
    PROVE  /\ n * a \in Nat
           /\ a < b => n * a + n <= n * b
<1>1. ASSUME a < b PROVE n * a + n <= n * b
  <2>1. PICK c \in Nat : b = a + 1 + c
    <3>1. b - a - 1 \in Nat /\ b = a + 1 + (b - a - 1)
      BY <1>1
    <3> QED
      BY <3>1
  <2>2. n * b = n * a + n + n * c /\ n * c \in Nat /\ n * a \in Nat
    BY <2>1
  <2>3. n * b \in Nat
    BY <2>2
  <2> QED
    BY <2>2, <2>3
<1> QED
    BY <1>1

LEMMA OneQuotient ==
    ASSUME NEW n \in Nat \ {0}, NEW a \in Nat, NEW b \in Nat, NEW s \in 0..n-1, NEW t \in 0..n-1,
           n * a + s = n * b + t
    PROVE  a = b /\ s = t
<1>1. n * a \in Nat /\ n * b \in Nat
    BY Products
<1>2. ~(a < b)
    BY <1>1, Products
<1>3. ~(b < a)
    BY <1>1, Products
<1> QED
    BY <1>1, <1>2, <1>3

LEMMA Monotone ==
    ASSUME NEW n \in Nat \ {0}, NEW a \in Nat, NEW b \in Nat, a <= b
    PROVE  a \div n <= b \div n
<1>1. PICK x, y : x = a \div n /\ y = b \div n /\ x \in Nat /\ y \in Nat
    BY Divided
<1>2. PICK s \in 0..n-1 : a = n * x + s
    BY <1>1, Divided
<1>3. PICK t \in 0..n-1 : b = n * y + t
    BY <1>1, Divided
<1>4. n * x \in Nat /\ n * y \in Nat /\ (y < x => n * y + n <= n * x)
    BY <1>1, Products
<1>5. ~(y < x)
    BY <1>2, <1>3, <1>4
<1> QED
    BY <1>1, <1>5
-----------------------------------------------------------------------------
\* The places of the elements: one each.
BlockOf(o) == o \div PerBlock + 1
PageIn(o) == (o % PerBlock) \div PageSize
SlotOf(o) == o % PageSize

LEMMA Sizes == PageSize \in Nat \ {0} /\ BlockSize \in Nat \ {0} /\ PerBlock \in Nat \ {0} /\ MaxOffset \in Nat
<1>1. PageSize \in Nat \ {0} /\ BlockSize \in Nat \ {0} /\ MaxOffset \in Nat
    BY PageAssumption
<1>2. PICK b \in Nat : BlockSize = b + 1
  <2>1. BlockSize - 1 \in Nat /\ BlockSize = (BlockSize - 1) + 1
    BY <1>1
  <2> QED
    BY <2>1
<1>3. PageSize * (b + 1) = PageSize * b + PageSize /\ PageSize * b \in Nat
    BY <1>1
<1>4. PerBlock \in Nat \ {0}
    BY <1>1, <1>2, <1>3 DEF PerBlock
<1> QED
    BY <1>1, <1>4

LEMMA WherePlaced ==
    ASSUME NEW o \in Nat
    PROVE  /\ BlockOf(o) \in Nat \ {0} /\ PageIn(o) \in 0..BlockSize-1 /\ SlotOf(o) \in 0..PageSize-1
           /\ o = PerBlock * (BlockOf(o) - 1) + (PageSize * PageIn(o) + SlotOf(o))
<1>0. PICK P, B, N : P = PageSize /\ B = BlockSize /\ N = PerBlock
    OBVIOUS
<1>1. P \in Nat \ {0} /\ B \in Nat \ {0} /\ N \in Nat \ {0} /\ N = P * B
    BY <1>0, Sizes DEF PerBlock
<1>2. PICK q : q = o \div N
    OBVIOUS
<1>3. PICK r : r = o % N
    OBVIOUS
<1>4. q \in Nat /\ r \in 0..N-1 /\ r \in Nat /\ o = N * q + r
  <2>1. o \div N \in Nat /\ o % N \in 0..N-1 /\ o = N * (o \div N) + (o % N)
    BY <1>1, Divided
  <2>2. q \in Nat /\ r \in 0..N-1 /\ o = N * q + r
    BY ONLY <2>1, <1>2, <1>3, Zenon
  <2> QED
    BY ONLY <2>2, <1>1
<1>5. PICK p : p = r \div P
    OBVIOUS
<1>6. PICK s : s = r % P
    OBVIOUS
<1>7. p \in Nat /\ s \in 0..P-1 /\ s \in Nat /\ r = P * p + s
  <2>1. r \div P \in Nat /\ r % P \in 0..P-1 /\ r = P * (r \div P) + (r % P)
    BY <1>1, <1>4, Divided
  <2>2. p \in Nat /\ s \in 0..P-1 /\ r = P * p + s
    BY ONLY <2>1, <1>5, <1>6, Zenon
  <2> QED
    BY ONLY <2>2, <1>1
<1>8. PICK k : k = o \div P
    OBVIOUS
<1>9. PICK t : t = o % P
    OBVIOUS
<1>10. k \in Nat /\ t \in 0..P-1 /\ o = P * k + t
    BY <1>1, <1>8, <1>9, Divided
<1>11. p \in 0..B-1
  <2>1. B - 1 \in Nat
    BY <1>1
  <2>2. ASSUME B - 1 < p PROVE FALSE
    <3>1. P * (B - 1) + P <= P * p
      BY <1>1, <1>7, <2>1, <2>2, Products
    <3>2. P * (B - 1) + P = P * B
      BY <1>1
    <3>3. P * p \in Nat
      BY <1>1, <1>7, Products
    <3> QED
      BY <1>1, <1>4, <1>7, <3>1, <3>2, <3>3
  <2> QED
    BY <1>1, <1>7, <2>2
<1>12. s = t
  <2>1. PICK c : c = B * q /\ c \in Nat
    BY <1>1, <1>4, Products
  <2>2. N * q = P * c
    BY ONLY <1>1, <1>4, <2>1
  <2>3. P * (c + p) = P * c + P * p /\ c + p \in Nat /\ P * c \in Nat /\ P * p \in Nat
    BY ONLY <1>1, <1>7, <2>1
  <2>4. PICK d : d = c + p /\ d \in Nat
    BY <2>3
  <2>5. P * d + s = P * k + t
    BY ONLY <1>4, <1>7, <1>10, <2>2, <2>3, <2>4, <1>1
  <2>6. P \in Nat \ {0} /\ d \in Nat /\ k \in Nat /\ s \in 0..P-1 /\ t \in 0..P-1
    BY <1>1, <1>7, <1>10, <2>4
  <2>7. d = k /\ s = t
    BY ONLY <2>6, <2>5, OneQuotient
  <2> QED
    BY <2>7
<1>13. BlockOf(o) = q + 1 /\ PageIn(o) = p /\ SlotOf(o) = s
    BY <1>0, <1>2, <1>3, <1>5, <1>9, <1>12 DEF BlockOf, PageIn, SlotOf
<1>14. BlockOf(o) - 1 = q
    BY <1>4, <1>13
<1> QED
    BY <1>0, <1>1, <1>4, <1>7, <1>11, <1>13, <1>14

LEMMA PlacesThere ==
    ASSUME NEW o \in Nat
    PROVE  BlockOf(o) \in Nat \ {0} /\ PageIn(o) \in 0..BlockSize-1 /\ SlotOf(o) \in 0..PageSize-1
BY ONLY WherePlaced, o \in Nat, Zenon

LEMMA OnePlace ==
    ASSUME NEW o \in Nat, NEW u \in Nat,
           BlockOf(o) = BlockOf(u), PageIn(o) = PageIn(u), SlotOf(o) = SlotOf(u)
    PROVE  o = u
BY ONLY WherePlaced, BlockOf(o) = BlockOf(u), PageIn(o) = PageIn(u), SlotOf(o) = SlotOf(u), o \in Nat, u \in Nat

LEMMA BlocksRise == ASSUME NEW o \in Nat, NEW u \in Nat, o <= u PROVE BlockOf(o) <= BlockOf(u)
<1>1. o \div PerBlock <= u \div PerBlock /\ o \div PerBlock \in Nat /\ u \div PerBlock \in Nat
    BY Monotone, Divided, Sizes
<1> QED
    BY <1>1 DEF BlockOf
-----------------------------------------------------------------------------
\* What is read of an element that is on a page; one that is not was never set.
Holds(blocks, o, x) ==
    IF BlockOf(o) <= Len(blocks) /\ PageOf(blocks, o) # NoPage
    THEN PageOf(blocks, o)[SlotOf(o)] = x
    ELSE x = 0

\* A write to an element of the last block, or of one behind it.
Written(new, blocks, o, x) ==
    /\ new \in Seq(Block) /\ Len(new) = BlockOf(o)
    /\ Holds(new, o, x)
    /\ \A u \in Nat : \A y : u # o /\ Holds(blocks, u, y) => Holds(new, u, y)

LEMMA Blanks ==
    /\ BlankPage \in Page /\ BlankBlock \in Block
    /\ \A i \in 0..PageSize-1 : BlankPage[i] = 0
    /\ \A p \in 0..BlockSize-1 : BlankBlock[p] = NoPage
BY DEF BlankPage, BlankBlock, Page, Block

LEMMA WriteHolds ==
    ASSUME NEW blocks \in Seq(Block), NEW o \in Nat, NEW x \in Value,
           ~(BlockOf(o) < Len(blocks)), NEW new, new = Write(blocks, o, x)
    PROVE  Written(new, blocks, o, x)
<1>1. PICK n : n = BlockOf(o)
    OBVIOUS
<1>2. PICK p : p = PageIn(o)
    OBVIOUS
<1>3. PICK c : c = SlotOf(o)
    OBVIOUS
<1>4. n \in Nat \ {0} /\ p \in 0..BlockSize-1 /\ c \in 0..PageSize-1 /\ Len(blocks) \in Nat /\ Len(blocks) <= n
  <2>1. n \in Nat \ {0} /\ p \in 0..BlockSize-1 /\ c \in 0..PageSize-1
    BY <1>1, <1>2, <1>3, PlacesThere
  <2>2. Len(blocks) \in Nat
    OBVIOUS
  <2> QED
    BY <1>1, <2>1, <2>2
<1>5. PICK grown : grown = [b \in 1..n |-> IF b \in DOMAIN blocks THEN blocks[b] ELSE BlankBlock]
    OBVIOUS
<1>6. /\ grown \in Seq(Block) /\ Len(grown) = n /\ DOMAIN grown = 1..n
    BY <1>4, <1>5, Blanks
<1>22. ASSUME NEW b \in 1..n
       PROVE  /\ grown[b] \in Block
              /\ b <= Len(blocks) => grown[b] = blocks[b]
              /\ b > Len(blocks) => grown[b] = BlankBlock
  <2>1. grown[b] = IF b \in DOMAIN blocks THEN blocks[b] ELSE BlankBlock
    BY <1>5
  <2>2. b \in DOMAIN blocks <=> b <= Len(blocks)
    BY <1>4
  <2>3. b \in DOMAIN blocks => blocks[b] \in Block
    BY ElementOfSeq
  <2> QED
    BY <1>4, <2>1, <2>2, <2>3, Blanks
<1>20. /\ grown[n] \in Block
       /\ n <= Len(blocks) => grown[n] = blocks[n]
       /\ n > Len(blocks) => grown[n] = BlankBlock
  <2>1. n \in 1..n
    BY <1>4
  <2> QED
    BY <1>22, <2>1
<1>21. grown[n][p] \in Page \cup {NoPage} /\ (grown[n] = BlankBlock => grown[n][p] = NoPage)
    BY <1>4, <1>20, Blanks DEF Block
<1>7. PICK page : page = IF grown[n][p] = NoPage THEN BlankPage ELSE grown[n][p]
    OBVIOUS
<1>8. page \in Page
    BY <1>7, <1>21, Blanks
<1>9. PICK set : set = [page EXCEPT ![c] = x]
    OBVIOUS
<1>10. /\ set \in Page /\ set # NoPage /\ set[c] = x
       /\ \A i \in 0..PageSize-1 : i # c => set[i] = page[i]
    BY <1>4, <1>8, <1>9, NoPageAssumption DEF Page
<1>11. new = [grown EXCEPT ![n][p] = set]
  <2>1. Larger(Len(blocks), n) = n
    BY <1>4 DEF Larger
  <2> QED
    BY <1>1, <1>2, <1>3, <1>5, <1>7, <1>9, <2>1 DEF Write, BlockOf, PageIn, SlotOf
<1>12. PICK last : last = [grown[n] EXCEPT ![p] = set]
    OBVIOUS
<1>13. /\ last \in Block /\ last[p] = set
       /\ \A q \in 0..BlockSize-1 : q # p => last[q] = grown[n][q]
  <2>1. PICK B : B = grown[n]
    OBVIOUS
  <2>2. B \in [0..BlockSize-1 -> Page \cup {NoPage}] /\ last = [B EXCEPT ![p] = set]
    BY <1>12, <1>20, <2>1 DEF Block
  <2> QED
    BY <1>4, <1>10, <2>1, <2>2 DEF Block
<1>14. new = [grown EXCEPT ![n] = last]
    BY <1>11, <1>12
<1>15. /\ new \in Seq(Block) /\ Len(new) = n /\ new[n] = last
       /\ \A b \in 1..n : b # n => new[b] = grown[b]
    BY <1>4, <1>6, <1>13, <1>14
<1>16. \A u \in Nat : /\ PageOf(new, u) = new[BlockOf(u)][PageIn(u)]
                      /\ PageOf(blocks, u) = blocks[BlockOf(u)][PageIn(u)]
    BY DEF PageOf, BlockOf, PageIn
<1>17. Holds(new, o, x)
    BY <1>1, <1>2, <1>3, <1>4, <1>10, <1>13, <1>15, <1>16 DEF Holds
<1>18. ASSUME NEW u \in Nat, NEW y, u # o, Holds(blocks, u, y) PROVE Holds(new, u, y)
  <2>1. PICK m : m = BlockOf(u)
    OBVIOUS
  <2>2. PICK q : q = PageIn(u)
    OBVIOUS
  <2>3. PICK d : d = SlotOf(u)
    OBVIOUS
  <2>4. m \in Nat \ {0} /\ q \in 0..BlockSize-1 /\ d \in 0..PageSize-1
    BY <2>1, <2>2, <2>3, PlacesThere
  <2>5. PageOf(new, u) = new[m][q] /\ PageOf(blocks, u) = blocks[m][q]
    BY <1>16, <2>1, <2>2
  <2>6. Holds(blocks, u, y) <=> IF m <= Len(blocks) /\ blocks[m][q] # NoPage THEN blocks[m][q][d] = y ELSE y = 0
    BY <2>1, <2>3, <2>5 DEF Holds
  <2>7. Holds(new, u, y) <=> IF m <= n /\ new[m][q] # NoPage THEN new[m][q][d] = y ELSE y = 0
    BY <1>15, <2>1, <2>3, <2>5 DEF Holds
  <2>8. CASE m > n
    BY <1>4, <1>18, <2>4, <2>6, <2>7, <2>8
  <2>9. CASE m <= n /\ ~(m = n /\ q = p)
    <3>1. m \in 1..n
      BY <1>4, <2>4, <2>9
    <3>5. /\ m <= Len(blocks) => grown[m] = blocks[m]
          /\ m > Len(blocks) => grown[m] = BlankBlock
      BY <1>22, <3>1
    <3>2. new[m][q] = grown[m][q]
      BY <1>13, <1>15, <2>4, <2>9, <3>1
    <3>3. CASE m <= Len(blocks)
      BY <1>18, <2>6, <2>7, <2>9, <3>2, <3>3, <3>5
    <3>4. CASE m > Len(blocks)
      <4>1. new[m][q] = NoPage
        BY <2>4, <3>2, <3>4, <3>5, Blanks
      <4>2. y = 0
        BY <1>4, <1>18, <2>4, <2>6, <3>4
      <4> QED
        BY <2>7, <4>1, <4>2
    <3> QED
      BY <1>4, <2>4, <3>3, <3>4
  <2>10. CASE m = n /\ q = p
    <3>1. d # c
      BY <1>1, <1>2, <1>3, <1>18, <2>1, <2>2, <2>3, <2>10, OnePlace
    <3>2. new[m][q] = set /\ set # NoPage /\ set[d] = page[d]
      BY <1>10, <1>13, <1>15, <2>4, <2>10, <3>1
    <3>3. n \in 1..n
      BY <1>4
    <3>4. CASE grown[n][p] = NoPage
      <4>1. page[d] = 0
        BY <1>7, <2>4, <3>4, Blanks
      <4>2. ~(m <= Len(blocks) /\ blocks[m][q] # NoPage)
        BY <1>20, <2>10, <3>4
      <4>3. y = 0
        BY <1>18, <2>6, <4>2
      <4> QED
        BY <1>4, <2>7, <2>10, <3>2, <4>1, <4>3
    <3>5. CASE grown[n][p] # NoPage
      <4>1. n <= Len(blocks)
        BY <1>4, <1>20, <1>21, <3>5
      <4>2. page = blocks[m][q]
        BY <1>7, <1>20, <2>10, <3>5, <4>1
      <4>3. y = page[d]
        BY <1>18, <1>20, <2>6, <2>10, <3>5, <4>1, <4>2
      <4> QED
        BY <1>4, <2>7, <2>10, <3>2, <4>3
    <3> QED
      BY <3>4, <3>5
  <2> QED
    BY <1>4, <2>4, <2>8, <2>9, <2>10
<1>19. \A u \in Nat : \A y : u # o /\ Holds(blocks, u, y) => Holds(new, u, y)
    BY <1>18
<1> QED
    BY <1>1, <1>15, <1>17, <1>19 DEF Written

LEMMA WipedHolds ==
    ASSUME NEW blocks \in Seq(Block), NEW new, new = Wiped(blocks)
    PROVE  /\ new \in Seq(Block) /\ Len(new) = Len(blocks)
           /\ \A o \in Nat : Holds(new, o, 0)
<1>1. Len(blocks) \in Nat /\ DOMAIN blocks = 1..Len(blocks)
    OBVIOUS
<1>2. ASSUME NEW b \in 1..Len(blocks)
      PROVE  /\ new[b] \in Block
             /\ \A p \in 0..BlockSize-1 : new[b][p] = NoPage \/ new[b][p] = BlankPage
  <2>1. new[b] = [p \in 0..BlockSize-1 |-> IF blocks[b][p] = NoPage THEN NoPage ELSE BlankPage]
    BY <1>1 DEF Wiped
  <2> QED
    BY <2>1, Blanks DEF Block
<1>3. DOMAIN new = 1..Len(blocks)
    BY <1>1 DEF Wiped
<1>4. new = [b \in 1..Len(blocks) |-> new[b]]
    BY <1>1 DEF Wiped
<1>5. new \in Seq(Block) /\ Len(new) = Len(blocks)
    BY <1>1, <1>2, <1>4
<1>6. ASSUME NEW o \in Nat PROVE Holds(new, o, 0)
  <2>1. PICK m, q, d : m = BlockOf(o) /\ q = PageIn(o) /\ d = SlotOf(o)
    OBVIOUS
  <2>2. m \in Nat \ {0} /\ q \in 0..BlockSize-1 /\ d \in 0..PageSize-1
    BY <2>1, PlacesThere
  <2>3. PageOf(new, o) = new[m][q]
    BY <2>1 DEF PageOf, BlockOf, PageIn
  <2>4. CASE m <= Len(blocks)
    <3>1. m \in 1..Len(blocks)
      BY <1>1, <2>2, <2>4
    <3>2. new[m][q] = NoPage \/ new[m][q] = BlankPage
      BY <1>2, <2>2, <3>1
    <3>3. BlankPage[d] = 0
      BY <2>2, Blanks
    <3> QED
      BY <2>1, <2>3, <3>2, <3>3 DEF Holds
  <2>5. CASE ~(m <= Len(blocks))
    BY <1>5, <2>1, <2>5 DEF Holds
  <2> QED
    BY <2>4, <2>5
<1> QED
    BY <1>5, <1>6

\* While back is FALSE: of the right kind, with a block for every element.
PagedTyped ==
    /\ vec.blocks \in Seq(Block)
    /\ vec.size \in 0..MaxOffset+1
    /\ given \in [0..MaxOffset -> Value \cup {0}]
    /\ \A o \in 0..vec.size-1 : BlockOf(o) <= Len(vec.blocks)

\* In a vector what is behind the end is zero wherever there is a page.
VectorInv ==
    /\ back \in BOOLEAN
    /\ ~back => PagedTyped /\ \A o \in 0..MaxOffset : Holds(vec.blocks, o, given[o])

\* In a partitioned array it may be anything.
PartitionedInv ==
    /\ back \in BOOLEAN
    /\ ~back => /\ PagedTyped
                /\ \A o \in 0..MaxOffset : IF o < vec.size THEN Holds(vec.blocks, o, given[o])
                                            ELSE given[o] = 0

LEMMA OffsetsAreNat == \A o \in 0..MaxOffset : o \in Nat
BY Sizes

LEMMA HeldIsKept ==
    ASSUME ~back => PagedTyped /\ \A o \in 0..vec.size-1 : Holds(vec.blocks, o, given[o])
    PROVE  ElementsKept
<1> SUFFICES ASSUME ~back, NEW o \in 0..vec.size-1
             PROVE  IF PageOf(vec.blocks, o) = NoPage THEN given[o] = 0
                    ELSE ElementAt(vec, o) = given[o]
    BY DEF ElementsKept
<1>1. PagedTyped /\ Holds(vec.blocks, o, given[o])
    OBVIOUS
<1>2. BlockOf(o) <= Len(vec.blocks) /\ ~(o >= vec.size)
    BY <1>1, Sizes DEF PagedTyped
<1>3. ElementAt(vec, o) = PageOf(vec.blocks, o)[SlotOf(o)]
    BY <1>2 DEF ElementAt, SlotOf
<1> QED
    BY <1>1, <1>2, <1>3 DEF Holds

LEMMA StartHolds ==
    ASSUME PagedInit
    PROVE  PagedTyped /\ \A o \in 0..MaxOffset : given[o] = 0 /\ Holds(vec.blocks, o, 0)
<1>1. PICK first : first = [BlankBlock EXCEPT ![0] = BlankPage]
    OBVIOUS
<1>2. vec.blocks = <<first>> /\ vec.size = 0 /\ given = [o \in 0..MaxOffset |-> 0]
    BY <1>1 DEF PagedInit
<1>3. 0 \in 0..BlockSize-1
    BY Sizes
<1>4. /\ first \in Block /\ first[0] = BlankPage
      /\ \A p \in 0..BlockSize-1 : first[p] = NoPage \/ first[p] = BlankPage
    BY <1>1, <1>3, Blanks DEF Block
<1>5. PagedTyped
    BY <1>2, <1>4, Sizes DEF PagedTyped
<1>6. ASSUME NEW o \in 0..MaxOffset PROVE Holds(vec.blocks, o, 0)
  <2>1. BlockOf(o) \in Nat \ {0} /\ PageIn(o) \in 0..BlockSize-1 /\ SlotOf(o) \in 0..PageSize-1
    BY OffsetsAreNat, PlacesThere
  <2>2. PageOf(vec.blocks, o) = <<first>>[BlockOf(o)][PageIn(o)] /\ Len(vec.blocks) = 1
    BY <1>2 DEF PageOf, BlockOf, PageIn
  <2>3. CASE BlockOf(o) = 1
    <3>1. PageOf(vec.blocks, o) = NoPage \/ PageOf(vec.blocks, o) = BlankPage
      BY <1>4, <2>1, <2>2, <2>3
    <3>2. BlankPage[SlotOf(o)] = 0
      BY <2>1, Blanks
    <3> QED
      BY <3>1, <3>2 DEF Holds
  <2>4. CASE BlockOf(o) # 1
    BY <2>1, <2>2, <2>4 DEF Holds
  <2> QED
    BY <2>3, <2>4
<1> QED
    BY <1>2, <1>5, <1>6

\* What rq_vector_set and rq_array_partitioned_push_back have in common.
LEMMA SetHolds ==
    ASSUME PagedTyped, NEW o \in 0..MaxOffset, NEW x \in Value, ~IsBack(o),
           vec'.blocks = Write(vec.blocks, o, x), vec'.size = Larger(vec.size, o + 1),
           given' = [given EXCEPT ![o] = x]
    PROVE  /\ PagedTyped'
           /\ Holds(vec'.blocks, o, given'[o])
           /\ \A u \in 0..MaxOffset : u # o /\ Holds(vec.blocks, u, given[u]) => Holds(vec'.blocks, u, given'[u])
<1>1. PICK new : new = Write(vec.blocks, o, x)
    OBVIOUS
<1>2. vec.blocks \in Seq(Block) /\ o \in Nat /\ ~(BlockOf(o) < Len(vec.blocks))
    BY OffsetsAreNat DEF PagedTyped, IsBack, BlockOf
<1>3. Written(new, vec.blocks, o, x)
    BY <1>1, <1>2, WriteHolds
<1>4. /\ new \in Seq(Block) /\ Len(new) = BlockOf(o) /\ Holds(new, o, x)
      /\ \A u \in Nat : \A y : u # o /\ Holds(vec.blocks, u, y) => Holds(new, u, y)
    BY <1>3 DEF Written
<1>5. given' \in [0..MaxOffset -> Value \cup {0}] /\ given'[o] = x
      /\ \A u \in 0..MaxOffset : u # o => given'[u] = given[u]
    BY DEF PagedTyped
<1>6. vec'.size \in 0..MaxOffset+1 /\ ((vec'.size = vec.size /\ o < vec.size) \/ vec'.size = o + 1)
    BY <1>2, Sizes DEF PagedTyped, Larger
<1>7. ASSUME NEW u \in 0..vec'.size-1 PROVE BlockOf(u) <= Len(new)
  <2>1. u \in Nat /\ BlockOf(u) \in Nat /\ BlockOf(o) \in Nat
    BY <1>2, <1>6, Sizes, PlacesThere
  <2>2. CASE u <= o
    BY <1>2, <1>4, <2>1, <2>2, BlocksRise
  <2>3. CASE ~(u <= o)
    <3>1. u \in 0..vec.size-1
      BY <1>2, <1>6, <2>1, <2>3, Sizes
    <3>2. BlockOf(u) <= Len(vec.blocks)
      BY <3>1 DEF PagedTyped
    <3>3. Len(vec.blocks) \in Nat
      BY <1>2
    <3> QED
      BY <1>2, <1>4, <2>1, <3>2, <3>3
  <2> QED
    BY <2>2, <2>3
<1>8. PagedTyped'
    BY <1>1, <1>4, <1>5, <1>6, <1>7 DEF PagedTyped
<1>9. ASSUME NEW u \in 0..MaxOffset, u # o, Holds(vec.blocks, u, given[u]) PROVE Holds(new, u, given'[u])
  <2>1. u \in Nat /\ given'[u] = given[u]
    BY <1>5, <1>9, OffsetsAreNat
  <2> QED
    BY <1>4, <1>9, <2>1
<1> QED
    BY <1>1, <1>4, <1>5, <1>8, <1>9

\* rq_vector: as long as only elements of the last block are set, each is read as it was
\* set last, and one without a page was never set, whatever the sizes of pages and blocks.
THEOREM VectorsKeep == VectorSpec => []ElementsKept
<1>1. PagedInit => VectorInv
    BY StartHolds DEF VectorInv, PagedInit
<1>2. VectorInv /\ UNCHANGED pagedVars => VectorInv'
    BY DEF VectorInv, PagedTyped, pagedVars
<1>3. ASSUME VectorInv, NEW o \in 0..MaxOffset, NEW x \in Value, VectorSet(o, x)
      PROVE  VectorInv'
  <2>1. back' \in BOOLEAN /\ (~back' => ~back /\ ~IsBack(o))
    BY <1>3 DEF VectorSet, Told, VectorInv
  <2>2. /\ vec'.blocks = Write(vec.blocks, o, x) /\ vec'.size = Larger(vec.size, o + 1)
        /\ given' = [given EXCEPT ![o] = x]
    BY <1>3 DEF VectorSet, Told
  <2>3. ASSUME ~back'
        PROVE  PagedTyped' /\ \A u \in 0..MaxOffset : Holds(vec'.blocks, u, given'[u])
    <3>1. /\ PagedTyped /\ ~IsBack(o)
          /\ \A u \in 0..MaxOffset : Holds(vec.blocks, u, given[u])
      BY <1>3, <2>1, <2>3 DEF VectorInv
    <3>2. /\ PagedTyped'
          /\ Holds(vec'.blocks, o, given'[o])
          /\ \A u \in 0..MaxOffset : u # o /\ Holds(vec.blocks, u, given[u])
                                      => Holds(vec'.blocks, u, given'[u])
      BY <2>2, <3>1, SetHolds
    <3> QED
      BY <3>1, <3>2
  <2> QED
    BY <2>1, <2>3 DEF VectorInv
<1>4. ASSUME VectorInv, VectorClear PROVE VectorInv'
  <2>1. PICK new : new = Wiped(vec.blocks)
    OBVIOUS
  <2>2. vec'.blocks = new /\ vec'.size = 0 /\ given' = [o \in 0..MaxOffset |-> 0] /\ back' = back
    BY <1>4, <2>1 DEF VectorClear
  <2>3. ASSUME ~back PROVE PagedTyped' /\ \A u \in 0..MaxOffset : Holds(vec'.blocks, u, given'[u])
    <3>1. vec.blocks \in Seq(Block)
      BY <1>4, <2>3 DEF VectorInv, PagedTyped
    <3>2. new \in Seq(Block) /\ \A o \in Nat : Holds(new, o, 0)
      BY <2>1, <3>1, WipedHolds
    <3>3. PagedTyped'
      BY <2>2, <3>2, Sizes DEF PagedTyped
    <3>4. ASSUME NEW u \in 0..MaxOffset PROVE Holds(new, u, given'[u])
      <4>1. u \in Nat /\ given'[u] = 0
        BY <2>2, OffsetsAreNat
      <4> QED
        BY <3>2, <4>1
    <3> QED
      BY <2>2, <3>3, <3>4
  <2> QED
    BY <1>4, <2>2, <2>3 DEF VectorInv
<1>5. VectorInv /\ [VectorNext]_pagedVars => VectorInv'
    BY <1>2, <1>3, <1>4 DEF VectorNext
<1>6. VectorInv => ElementsKept
  <2> SUFFICES ASSUME VectorInv PROVE ElementsKept
    OBVIOUS
  <2>1. ~back => PagedTyped /\ \A o \in 0..vec.size-1 : Holds(vec.blocks, o, given[o])
    <3> SUFFICES ASSUME ~back, NEW o \in 0..vec.size-1 PROVE PagedTyped /\ Holds(vec.blocks, o, given[o])
      BY DEF VectorInv
    <3>1. PagedTyped /\ \A u \in 0..MaxOffset : Holds(vec.blocks, u, given[u])
      BY DEF VectorInv
    <3>2. o \in 0..MaxOffset
      BY <3>1, Sizes DEF PagedTyped
    <3> QED
      BY <3>1, <3>2
  <2> QED
    BY <2>1, HeldIsKept
<1> QED
    BY <1>1, <1>5, <1>6, PTL DEF VectorSpec

\* rq_array_partitioned: the same, although clearing leaves what the array does not own
\* on its pages: what is behind the end is written before it is read.
THEOREM PartitionedKeep == PartitionedSpec => []ElementsKept
<1>1. PagedInit => PartitionedInv
    BY StartHolds DEF PartitionedInv, PagedInit
<1>2. PartitionedInv /\ UNCHANGED pagedVars => PartitionedInv'
    BY DEF PartitionedInv, PagedTyped, pagedVars
<1>3. ASSUME PartitionedInv, NEW x \in Value, PartitionedPush(x)
      PROVE  PartitionedInv'
  <2>1. PICK o : o = vec.size
    OBVIOUS
  <2>2. back' \in BOOLEAN /\ (~back' => ~back /\ ~IsBack(o))
    BY <1>3, <2>1 DEF PartitionedPush, Told, PartitionedInv
  <2>3. /\ vec'.blocks = Write(vec.blocks, o, x) /\ vec'.size = o + 1
        /\ given' = [given EXCEPT ![o] = x] /\ vec.size <= MaxOffset
    BY <1>3, <2>1 DEF PartitionedPush, Told
  <2>4. ASSUME ~back'
        PROVE  PagedTyped' /\ \A u \in 0..MaxOffset : IF u < vec'.size THEN Holds(vec'.blocks, u, given'[u])
                                                      ELSE given'[u] = 0
    <3>1. /\ PagedTyped /\ ~IsBack(o)
          /\ \A u \in 0..MaxOffset : IF u < vec.size THEN Holds(vec.blocks, u, given[u]) ELSE given[u] = 0
      BY <1>3, <2>2, <2>4 DEF PartitionedInv
    <3>2. o \in 0..MaxOffset /\ vec'.size = Larger(vec.size, o + 1)
      BY <2>1, <2>3, <3>1, Sizes DEF PagedTyped, Larger
    <3>3. /\ PagedTyped'
          /\ Holds(vec'.blocks, o, given'[o])
          /\ \A u \in 0..MaxOffset : u # o /\ Holds(vec.blocks, u, given[u])
                                      => Holds(vec'.blocks, u, given'[u])
      BY <2>3, <3>1, <3>2, SetHolds
    <3>4. ASSUME NEW u \in 0..MaxOffset, u < vec'.size PROVE Holds(vec'.blocks, u, given'[u])
      <4>1. u = o \/ u < vec.size
        BY <2>1, <2>3, <3>2, <3>4, Sizes
      <4> QED
        BY <2>1, <3>1, <3>3, <3>4, <4>1
    <3>5. ASSUME NEW u \in 0..MaxOffset, ~(u < vec'.size) PROVE given'[u] = 0
      <4>1. u # o /\ ~(u < vec.size)
        BY <2>1, <2>3, <3>2, <3>5, Sizes
      <4>2. given'[u] = given[u]
        BY <2>3, <3>1, <4>1 DEF PagedTyped
      <4> QED
        BY <3>1, <4>1, <4>2
    <3> QED
      BY <3>3, <3>4, <3>5
  <2> QED
    BY <2>2, <2>4 DEF PartitionedInv
<1>4. ASSUME PartitionedInv, PartitionedClear PROVE PartitionedInv'
  <2>1. /\ vec'.blocks \in {vec.blocks, Wiped(vec.blocks)} /\ vec'.size = 0
        /\ given' = [o \in 0..MaxOffset |-> 0] /\ back' = back
    BY <1>4 DEF PartitionedClear
  <2>2. ASSUME ~back PROVE PagedTyped'
    <3>1. vec.blocks \in Seq(Block)
      BY <1>4, <2>2 DEF PartitionedInv, PagedTyped
    <3>2. vec'.blocks \in Seq(Block)
      BY <2>1, <3>1, WipedHolds
    <3> QED
      BY <2>1, <3>2, Sizes DEF PagedTyped
  <2>3. \A u \in 0..MaxOffset : ~(u < vec'.size) /\ given'[u] = 0
    BY <2>1, Sizes
  <2> QED
    BY <1>4, <2>1, <2>2, <2>3 DEF PartitionedInv
<1>5. PartitionedInv /\ [PartitionedNext]_pagedVars => PartitionedInv'
    BY <1>2, <1>3, <1>4 DEF PartitionedNext
<1>6. PartitionedInv => ElementsKept
  <2> SUFFICES ASSUME PartitionedInv PROVE ElementsKept
    OBVIOUS
  <2>1. ~back => PagedTyped /\ \A o \in 0..vec.size-1 : Holds(vec.blocks, o, given[o])
    <3> SUFFICES ASSUME ~back, NEW o \in 0..vec.size-1 PROVE PagedTyped /\ Holds(vec.blocks, o, given[o])
      BY DEF PartitionedInv
    <3>1. PagedTyped /\ \A u \in 0..MaxOffset : u < vec.size => Holds(vec.blocks, u, given[u])
      BY DEF PartitionedInv
    <3>2. o \in 0..MaxOffset /\ o < vec.size
      BY <3>1, Sizes DEF PagedTyped
    <3> QED
      BY <3>1, <3>2
  <2> QED
    BY <2>1, HeldIsKept
<1> QED
    BY <1>1, <1>5, <1>6, PTL DEF PartitionedSpec
-----------------------------------------------------------------------------
(***************************************************************************)
(* The hash table: whatever is moved and inserted, each node is in the bin *)
(* of its hash, once.                                                      *)
(***************************************************************************)
TNode == [hash : Nat, key : TableKey, data : Datum]
OnceKeyed(s) == \A i, j \in 1..Len(s) : s[i].key = s[j].key => i = j
Has(s, x) == \E i \in 1..Len(s) : s[i] = x

\* r has what s has, and x.
Gained(s, r, x) ==
    /\ r \in Seq(TNode) /\ OnceKeyed(r)
    /\ \A y : Has(r, y) <=> y = x \/ Has(s, y)

LEMMA AppendGains ==
    ASSUME NEW s \in Seq(TNode), NEW x \in TNode, OnceKeyed(s), \A y : Has(s, y) => y.key # x.key
    PROVE  Gained(s, Append(s, x), x)
<1> DEFINE r == Append(s, x)
<1>1. /\ r \in Seq(TNode) /\ Len(r) = Len(s) + 1 /\ r[Len(s) + 1] = x
      /\ \A i \in 1..Len(s) : r[i] = s[i]
    OBVIOUS
<1>2. Len(s) \in Nat /\ \A i \in 1..Len(s) : s[i].key # x.key
    BY DEF Has
<1> HIDE DEF r
<1>3. OnceKeyed(r)
  <2> SUFFICES ASSUME NEW i \in 1..Len(r), NEW j \in 1..Len(r), r[i].key = r[j].key PROVE i = j
    BY DEF OnceKeyed
  <2>1. CASE i = Len(s) + 1 \/ j = Len(s) + 1
    BY <1>1, <1>2, <2>1
  <2>2. CASE i # Len(s) + 1 /\ j # Len(s) + 1
    <3>1. i \in 1..Len(s) /\ j \in 1..Len(s)
      BY <1>1, <1>2, <2>2
    <3> QED
      BY <1>1, <3>1 DEF OnceKeyed
  <2> QED
    BY <2>1, <2>2
<1>4. ASSUME NEW y PROVE Has(r, y) <=> y = x \/ Has(s, y)
  <2>1. ASSUME NEW i \in 1..Len(r), r[i] = y PROVE y = x \/ Has(s, y)
    <3>1. CASE i = Len(s) + 1
      BY <1>1, <2>1, <3>1
    <3>2. CASE i # Len(s) + 1
      <4>1. i \in 1..Len(s)
        BY <1>1, <1>2, <3>2
      <4> QED
        BY <1>1, <2>1, <4>1 DEF Has
    <3> QED
      BY <3>1, <3>2
  <2>2. ASSUME NEW i \in 1..Len(s), s[i] = y PROVE Has(r, y)
    <3>1. i \in 1..Len(r) /\ r[i] = y
      BY <1>1, <1>2, <2>2
    <3> QED
      BY <3>1 DEF Has
  <2>3. Has(r, x)
    <3>1. Len(s) + 1 \in 1..Len(r)
      BY <1>1, <1>2
    <3> QED
      BY <1>1, <3>1 DEF Has
  <2> QED
    BY <2>1, <2>2, <2>3 DEF Has
<1> QED
    BY <1>1, <1>3, <1>4 DEF Gained, r

LEMMA InsertGains ==
    ASSUME NEW s \in Seq(TNode), NEW x \in TNode, OnceKeyed(s), \A y : Has(s, y) => y.key # x.key,
           NEW p \in 1..Len(s)
    PROVE  Gained(s, InsertAt(s, p, x), x)
<1> DEFINE r == InsertAt(s, p, x)
<1>0. Len(s) \in Nat /\ p \in 1..Len(s) + 1 /\ p \in Nat
    OBVIOUS
<1>1. /\ r \in Seq(TNode) /\ Len(r) = Len(s) + 1
      /\ \A i \in 1..Len(s) + 1 : r[i] = IF i < p THEN s[i] ELSE IF i = p THEN x ELSE s[i-1]
    BY <1>0, ElementInserted
<1>2. \A i \in 1..Len(s) : s[i].key # x.key
    BY DEF Has
<1> HIDE DEF r
<1>3. OnceKeyed(r)
  <2> SUFFICES ASSUME NEW i \in 1..Len(r), NEW j \in 1..Len(r), r[i].key = r[j].key PROVE i = j
    BY DEF OnceKeyed
  <2> DEFINE At(k) == IF k < p THEN k ELSE k - 1
  <2>1. ASSUME NEW k \in 1..Len(r), k # p PROVE At(k) \in 1..Len(s) /\ r[k] = s[At(k)]
    BY <1>0, <1>1, <2>1
  <2>2. r[p] = x
    BY <1>0, <1>1
  <2>3. At(i) = At(j) /\ i # p /\ j # p => i = j
    BY <1>0, <1>1
  <2>x. ASSUME NEW k \in 1..Len(r), k # p PROVE r[k].key # x.key
    <3>1. At(k) \in 1..Len(s) /\ r[k] = s[At(k)]
      BY <2>1, <2>x
    <3> HIDE DEF At
    <3> QED
      BY <1>2, <3>1
  <2>4. CASE i = p \/ j = p
    BY <2>2, <2>4, <2>x
  <2>5. CASE i # p /\ j # p
    <3>1. At(i) = At(j)
      BY <2>1, <2>5 DEF OnceKeyed
    <3> QED
      BY <2>3, <2>5, <3>1
  <2> QED
    BY <2>4, <2>5
<1>4. ASSUME NEW y PROVE Has(r, y) <=> y = x \/ Has(s, y)
  <2>1. ASSUME NEW i \in 1..Len(r), r[i] = y PROVE y = x \/ Has(s, y)
    <3>1. CASE i = p
      BY <1>0, <1>1, <2>1, <3>1
    <3>2. CASE i < p
      <4>1. i \in 1..Len(s) /\ s[i] = y
        BY <1>0, <1>1, <2>1, <3>2
      <4> QED
        BY <4>1 DEF Has
    <3>3. CASE i > p
      <4>1. i - 1 \in 1..Len(s) /\ s[i-1] = y
        BY <1>0, <1>1, <2>1, <3>3
      <4> QED
        BY <4>1 DEF Has
    <3> QED
      BY <1>0, <1>1, <3>1, <3>2, <3>3
  <2>2. ASSUME NEW i \in 1..Len(s), s[i] = y PROVE Has(r, y)
    <3>1. CASE i < p
      <4>1. i \in 1..Len(r) /\ r[i] = y
        BY <1>0, <1>1, <2>2, <3>1
      <4> QED
        BY <4>1 DEF Has
    <3>2. CASE i >= p
      <4>1. i + 1 \in 1..Len(r) /\ r[i+1] = y
        BY <1>0, <1>1, <2>2, <3>2
      <4> QED
        BY <4>1 DEF Has
    <3> QED
      BY <1>0, <3>1, <3>2
  <2>3. Has(r, x)
    <3>1. p \in 1..Len(r) /\ r[p] = x
      BY <1>0, <1>1
    <3> QED
      BY <3>1 DEF Has
  <2> QED
    BY <2>1, <2>2, <2>3 DEF Has
<1> QED
    BY <1>1, <1>3, <1>4 DEF Gained, r

\* A node finds its place in a chain.
LEMMA PlacedGains ==
    ASSUME NEW s \in Seq(TNode), NEW x \in TNode, OnceKeyed(s), \A y : Has(s, y) => y.key # x.key
    PROVE  Gained(s, Placed(s, x), x)
<1> DEFINE I == {i \in 1..Len(s) : s[i].hash > x.hash}
<1>1. Before(s, x.hash) = IF I # {} THEN Min(I) ELSE 0
    BY DEF Before, SelectInSeq
<1>2. I # {} => Min(I) \in 1..Len(s)
  <2> SUFFICES ASSUME I # {} PROVE Min(I) \in 1..Len(s)
    OBVIOUS
  <2>0. I \in SUBSET Nat /\ I \subseteq 1..Len(s)
    OBVIOUS
  <2> HIDE DEF I
  <2>1. PICK n \in I : \A m \in I : n <= m
    BY <2>0, LeastExists
  <2>2. Min(I) \in I
    BY <2>1 DEF Min
  <2> QED
    BY <2>0, <2>2
<1> HIDE DEF I
<1>3. CASE I = {}
    BY <1>1, <1>3, AppendGains DEF Placed
<1>4. CASE I # {}
  <2>1. Before(s, x.hash) \in 1..Len(s) /\ Before(s, x.hash) # 0
    BY <1>1, <1>2, <1>4
  <2> QED
    BY <2>1, InsertGains DEF Placed
<1> QED
    BY <1>3, <1>4

\* Two chains without a key in common.
LEMMA JoinedHas ==
    ASSUME NEW s \in Seq(TNode), NEW r \in Seq(TNode), OnceKeyed(s), OnceKeyed(r),
           \A y, z : Has(s, y) /\ Has(r, z) => y.key # z.key
    PROVE  s \o r \in Seq(TNode) /\ OnceKeyed(s \o r) /\ \A y : Has(s \o r, y) <=> Has(s, y) \/ Has(r, y)
<1> DEFINE c == s \o r
<1>0. Len(s) \in Nat /\ Len(r) \in Nat
    OBVIOUS
<1>1. /\ c \in Seq(TNode) /\ Len(c) = Len(s) + Len(r)
      /\ \A i \in 1..Len(s) + Len(r) : c[i] = IF i <= Len(s) THEN s[i] ELSE r[i - Len(s)]
    OBVIOUS
<1> HIDE DEF c
<1>2. \A i \in 1..Len(s), j \in 1..Len(r) : s[i].key # r[j].key
    BY DEF Has
<1>a. ASSUME NEW i \in 1..Len(c), i <= Len(s) PROVE i \in 1..Len(s) /\ c[i] = s[i]
    BY <1>0, <1>1, <1>a
<1>b. ASSUME NEW i \in 1..Len(c), ~(i <= Len(s)) PROVE i - Len(s) \in 1..Len(r) /\ c[i] = r[i - Len(s)]
    BY <1>0, <1>1, <1>b
<1>3. OnceKeyed(c)
  <2> SUFFICES ASSUME NEW i \in 1..Len(c), NEW j \in 1..Len(c), c[i].key = c[j].key PROVE i = j
    BY DEF OnceKeyed
  <2>1. CASE i <= Len(s) /\ j <= Len(s)
    BY <1>a, <2>1 DEF OnceKeyed
  <2>2. CASE ~(i <= Len(s)) /\ ~(j <= Len(s))
    <3>1. i - Len(s) = j - Len(s)
      BY <1>b, <2>2 DEF OnceKeyed
    <3> QED
      BY <1>0, <1>1, <3>1
  <2> QED
    BY <1>2, <1>a, <1>b, <2>1, <2>2
<1>4. ASSUME NEW y PROVE Has(c, y) <=> Has(s, y) \/ Has(r, y)
  <2>1. ASSUME NEW i \in 1..Len(c), c[i] = y PROVE Has(s, y) \/ Has(r, y)
    BY <1>a, <1>b, <2>1 DEF Has
  <2>2. ASSUME NEW i \in 1..Len(s), s[i] = y PROVE Has(c, y)
    <3>1. i \in 1..Len(c) /\ c[i] = y
      BY <1>0, <1>1, <2>2
    <3> QED
      BY <3>1 DEF Has
  <2>3. ASSUME NEW i \in 1..Len(r), r[i] = y PROVE Has(c, y)
    <3>1. Len(s) + i \in 1..Len(c) /\ c[Len(s) + i] = y
      BY <1>0, <1>1, <2>3
    <3> QED
      BY <3>1 DEF Has
  <2> QED
    BY <2>1, <2>2, <2>3 DEF Has
<1> QED
    BY <1>1, <1>3, <1>4 DEF c
-----------------------------------------------------------------------------
\* The bins have the nodes N, each in the bin of its hash.
BinsHold(bins, n, N) ==
    /\ n \in Nat \ {0} /\ bins \in [0..n-1 -> Seq(TNode)]
    /\ \A b \in 0..n-1 : OnceKeyed(bins[b])
    /\ \A b \in 0..n-1 : \A y : Has(bins[b], y) <=> y \in N /\ y.hash % n = b

\* No two nodes have a key in common.
Keyed(N) == N \subseteq TNode /\ \A x, y \in N : x.key = y.key => x = y

LEMMA EmptyHolds ==
    ASSUME NEW n \in Nat \ {0}
    PROVE  BinsHold(Empty(n).bins, n, {})
<1> DEFINE bins == Empty(n).bins
<1>1. bins = [b \in 0..n-1 |-> << >>]
    BY DEF Empty
<1> HIDE DEF bins
<1>2. bins \in [0..n-1 -> Seq(TNode)]
    BY <1>1
<1>3. \A b \in 0..n-1 : bins[b] = << >>
    BY <1>1
<1>4. \A b \in 0..n-1 : 1..Len(bins[b]) = {}
    BY <1>3
<1>5. QED
    BY <1>2, <1>4 DEF BinsHold, OnceKeyed, Has, bins

LEMMA PlacedIn ==
    ASSUME NEW s \in Seq(TNode), NEW x \in TNode
    PROVE  Placed(s, x) \in Seq(TNode)
<1> DEFINE I == {i \in 1..Len(s) : s[i].hash > x.hash}
<1>1. Before(s, x.hash) = IF I # {} THEN Min(I) ELSE 0
    BY DEF Before, SelectInSeq
<1>0. I \in SUBSET Nat /\ I \subseteq 1..Len(s)
    OBVIOUS
<1> HIDE DEF I
<1>2. ASSUME I # {} PROVE Min(I) \in 1..Len(s)
  <2>1. PICK n \in I : \A m \in I : n <= m
    BY <1>0, <1>2, LeastExists
  <2> QED
    BY <1>0, <2>1 DEF Min
<1>3. CASE I = {}
    BY <1>1, <1>3 DEF Placed
<1>4. CASE I # {}
  <2>1. Before(s, x.hash) \in 1..Len(s) + 1 /\ Before(s, x.hash) # 0
    BY <1>1, <1>2, <1>4
  <2> QED
    BY <2>1, ElementInserted DEF Placed
<1> QED
    BY <1>3, <1>4

LEMMA WithNodeIn ==
    ASSUME NEW n \in Nat \ {0}, NEW bins \in [0..n-1 -> Seq(TNode)], NEW x \in TNode
    PROVE  WithNode(bins, x.hash % n, x) \in [0..n-1 -> Seq(TNode)]
<1>1. x.hash \in Nat /\ x.hash % n \in 0..n-1
    BY Divided DEF TNode
<1>2. Placed(bins[x.hash % n], x) \in Seq(TNode)
    BY <1>1, PlacedIn
<1> QED
    BY <1>1, <1>2 DEF WithNode

\* A node more.
LEMMA WithNodeHolds ==
    ASSUME NEW n, NEW bins, NEW N, BinsHold(bins, n, N), NEW x \in TNode, \A y \in N : y.key # x.key
    PROVE  BinsHold(WithNode(bins, x.hash % n, x), n, N \cup {x})
<1> DEFINE b == x.hash % n
           new == WithNode(bins, b, x)
           s == bins[b]
           r == Placed(s, x)
<1>0. n \in Nat \ {0} /\ bins \in [0..n-1 -> Seq(TNode)]
    BY DEF BinsHold
<1>1. b \in 0..n-1
    BY <1>0, Divided DEF TNode
<1>2. s \in Seq(TNode) /\ OnceKeyed(s) /\ \A y : Has(s, y) <=> y \in N /\ y.hash % n = b
    BY <1>0, <1>1 DEF BinsHold
<1>3. Gained(s, r, x)
    BY <1>2, PlacedGains
<1>4. /\ new \in [0..n-1 -> Seq(TNode)] /\ new[b] = r
      /\ \A c \in 0..n-1 : c # b => new[c] = bins[c]
    BY <1>0, <1>1, <1>3 DEF WithNode, Gained
<1>5. x.hash % n = b
    OBVIOUS
<1> HIDE DEF new, s, r, b
<1>6. ASSUME NEW c \in 0..n-1
      PROVE  OnceKeyed(new[c]) /\ \A y : Has(new[c], y) <=> y \in N \cup {x} /\ y.hash % n = c
  <2>1. CASE c = b
    <3>1. new[c] = r
      BY <1>4, <2>1
    <3>2. OnceKeyed(r) /\ \A y : Has(r, y) <=> y = x \/ (y \in N /\ y.hash % n = b)
      BY <1>2, <1>3 DEF Gained
    <3> QED
      BY <1>5, <2>1, <3>1, <3>2
  <2>2. CASE c # b
    <3>1. new[c] = bins[c]
      BY <1>4, <2>2
    <3>2. OnceKeyed(bins[c]) /\ \A y : Has(bins[c], y) <=> y \in N /\ y.hash % n = c
      BY DEF BinsHold
    <3> QED
      BY <1>5, <2>2, <3>1, <3>2
  <2> QED
    BY <2>1, <2>2
<1> QED
    BY <1>0, <1>4, <1>6 DEF BinsHold, new, b

\* rq_hashtable_foreach meets every node, once.
Flat(q, f) == f = [i \in 1..Len(q) |-> IF i = 1 THEN q[i] ELSE f[i-1] \o q[i]]

LEMMA Flattens ==
    ASSUME NEW n \in Nat \ {0}, NEW q \in [1..n -> Seq(TNode)]
    PROVE  \E f : /\ FlattenSeq(q) = f[n] /\ f[1] = q[1]
                  /\ \A i \in 2..n : f[i] = f[i-1] \o q[i]
<1> DEFINE V == Seq(TNode)
           step == [i \in 1..n |-> [v \in V |-> v \o q[i]]]
<1>1. step \in [1..n -> [V -> V]]
    OBVIOUS
<1>2. << >> \in V
    OBVIOUS
<1>3. \A i \in 1..n, v \in V : step[i][v] = v \o q[i]
    OBVIOUS
<1>4. q[1] \in V /\ << >> \o q[1] = q[1]
    OBVIOUS
<1>5. Len(q) = n
    OBVIOUS
<1> HIDE DEF V, step
<1>6. PICK g : Followed(g, V, << >>, step, n)
    BY <1>1, <1>2, Follows
<1>7. g \in [0..n -> V] /\ g[0] = << >> /\ \A i \in 1..n : g[i] = step[i][g[i-1]]
    BY <1>6 DEF Followed
<1>8. ASSUME NEW i \in 1..n PROVE g[i] = g[i-1] \o q[i]
  <2>1. i - 1 \in 0..n
    OBVIOUS
  <2>2. g[i-1] \in V
    BY <1>7, <2>1
  <2> QED
    BY <1>3, <1>7, <2>2
<1> DEFINE h == [i \in 1..n |-> g[i]]
<1>9. Flat(q, h)
  <2>1. \A i \in 1..n : h[i] = g[i]
    OBVIOUS
  <2>2. h[1] = q[1]
    <3>1. 1 \in 1..n
      OBVIOUS
    <3>2. g[1] = << >> \o q[1]
      <4>1. 1 - 1 = 0
        OBVIOUS
      <4>2. g[1] = g[1-1] \o q[1]
        BY <1>8, <3>1
      <4> QED
        BY ONLY <1>7, <4>1, <4>2
    <3> QED
      BY <1>4, <2>1, <3>1, <3>2
  <2>3. ASSUME NEW i \in 1..n, i # 1 PROVE h[i] = h[i-1] \o q[i]
    <3>1. i - 1 \in 1..n
      BY <2>3
    <3> QED
      BY <1>8, <2>1, <3>1
  <2>4. h = [i \in 1..n |-> h[i]]
    OBVIOUS
  <2> HIDE DEF h
  <2>5. h = [i \in 1..n |-> IF i = 1 THEN q[i] ELSE h[i-1] \o q[i]]
    BY <2>2, <2>3, <2>4
  <2> QED
    BY <1>5, <2>5 DEF Flat
<1>10. PICK f : f = CHOOSE e : Flat(q, e)
    OBVIOUS
<1>11. Flat(q, f)
    BY <1>9, <1>10
<1>12. FlattenSeq(q) = f[n]
    BY <1>5, <1>10 DEF FlattenSeq, Flat
<1>13. \A i \in 1..n : f[i] = IF i = 1 THEN q[i] ELSE f[i-1] \o q[i]
  <2>1. f = [i \in 1..n |-> IF i = 1 THEN q[i] ELSE f[i-1] \o q[i]]
    BY <1>5, <1>11 DEF Flat
  <2> QED
    BY ONLY <2>1
<1>14. f[1] = q[1] /\ \A i \in 2..n : f[i] = f[i-1] \o q[i]
  <2>1. 1 \in 1..n /\ \A i \in 2..n : i \in 1..n /\ i # 1
    OBVIOUS
  <2> QED
    BY ONLY <1>13, <2>1
<1> QED
    BY <1>12, <1>14

LEMMA ForeachHas ==
    ASSUME NEW t, NEW n, NEW N, BinsHold(t.bins, n, N), Keyed(N)
    PROVE  /\ NumBins(t) = n /\ Foreach(t) \in Seq(TNode) /\ OnceKeyed(Foreach(t))
           /\ \A y : Has(Foreach(t), y) <=> y \in N
<1> DEFINE q == [i \in 1..n |-> t.bins[i-1]]
<1>0. n \in Nat \ {0} /\ t.bins \in [0..n-1 -> Seq(TNode)]
    BY DEF BinsHold
<1>1. NumBins(t) = n
  <2>1. DOMAIN t.bins = 0..n-1
    BY <1>0
  <2>2. Cardinality(0..n-1) = n
    BY <1>0, FS_Interval
  <2> QED
    BY <2>1, <2>2 DEF NumBins
<1>2. Foreach(t) = FlattenSeq(q)
    BY <1>1 DEF Foreach
<1>3. q \in [1..n -> Seq(TNode)]
    BY <1>0
<1>4. \A i \in 1..n : i - 1 \in 0..n-1 /\ q[i] = t.bins[i-1]
    BY <1>0
<1> HIDE DEF q
<1>5. PICK f : /\ FlattenSeq(q) = f[n] /\ f[1] = q[1]
               /\ \A i \in 2..n : f[i] = f[i-1] \o q[i]
    BY <1>0, <1>3, Flattens
<1>6. ASSUME NEW i \in 1..n
      PROVE  q[i] \in Seq(TNode) /\ OnceKeyed(q[i]) /\ \A y : Has(q[i], y) <=> y \in N /\ y.hash % n = i - 1
    BY <1>3, <1>4 DEF BinsHold
<1>7. \A y \in N : y.hash % n \in 0..n-1
    BY <1>0, Divided DEF Keyed, TNode
<1> DEFINE Met(i) == /\ f[i] \in Seq(TNode) /\ OnceKeyed(f[i])
                     /\ \A y : Has(f[i], y) <=> y \in N /\ y.hash % n < i
           S == {i \in 0..n : i > 0 => Met(i)}
<1>8. Met(1)
  <2>1. 1 \in 1..n
    BY <1>0
  <2>2. \A y \in N : y.hash % n = 0 <=> y.hash % n < 1
    BY <1>0, <1>7
  <2>3. 1 - 1 = 0
    OBVIOUS
  <2>4. f[1] \in Seq(TNode) /\ OnceKeyed(f[1]) /\ \A y : Has(f[1], y) <=> y \in N /\ y.hash % n = 0
    BY <1>5, <1>6, <2>1, <2>3
  <2>5. \A y : Has(f[1], y) <=> y \in N /\ y.hash % n < 1
    BY ONLY <2>2, <2>4
  <2> QED
    BY ONLY <2>4, <2>5
<1>9. ASSUME NEW i \in 2..n, Met(i-1) PROVE Met(i)
  <2>1. i \in 1..n /\ i \in Nat /\ f[i] = f[i-1] \o q[i]
    <3>1. i \in 1..n /\ i \in Nat
      BY <1>0
    <3>2. f[i] = f[i-1] \o q[i]
      BY ONLY <1>5, i \in 2..n
    <3> QED
      BY ONLY <3>1, <3>2
  <2>2. q[i] \in Seq(TNode) /\ OnceKeyed(q[i]) /\ \A y : Has(q[i], y) <=> y \in N /\ y.hash % n = i - 1
    BY <1>6, <2>1
  <2>3. f[i-1] \in Seq(TNode) /\ OnceKeyed(f[i-1]) /\ \A y : Has(f[i-1], y) <=> y \in N /\ y.hash % n < i-1
    BY <1>9
  <2>4. ASSUME NEW y, NEW z, Has(f[i-1], y), Has(q[i], z) PROVE y.key # z.key
    <3>1. y \in N /\ z \in N /\ y.hash % n < i - 1 /\ z.hash % n = i - 1
      BY <2>2, <2>3, <2>4
    <3>2. y # z
      BY <1>7, <2>1, <3>1
    <3> QED
      BY <3>1, <3>2 DEF Keyed
  <2>5. /\ f[i] \in Seq(TNode) /\ OnceKeyed(f[i])
        /\ \A y : Has(f[i], y) <=> Has(f[i-1], y) \/ Has(q[i], y)
    BY <2>1, <2>2, <2>3, <2>4, JoinedHas
  <2>6. \A y \in N : y.hash % n < i <=> y.hash % n < i - 1 \/ y.hash % n = i - 1
    BY <1>0, <1>7, <2>1
  <2> QED
    BY <2>2, <2>3, <2>5, <2>6
<1> HIDE DEF Met
<1>10. 0 \in S
    BY <1>0
<1>11. ASSUME NEW i \in 1..n, i - 1 \in S PROVE i \in S
  <2>1. CASE i = 1
    BY <1>8, <2>1
  <2>2. CASE i # 1
    <3>1. i \in 2..n /\ i - 1 > 0
      BY <1>0, <2>2
    <3> QED
      BY <1>9, <1>11, <3>1
  <2> QED
    BY <2>1, <2>2
<1> HIDE DEF S
<1>12. 0..n \subseteq S
    BY <1>0, <1>10, <1>11, Upwards
<1>13. Met(n)
    BY <1>0, <1>12 DEF S
<1>14. \A y \in N : y.hash % n < n
    BY <1>0, <1>7
<1> QED
    BY <1>1, <1>2, <1>5, <1>13, <1>14 DEF Met
-----------------------------------------------------------------------------
\* What rq_hashtable_rehash makes of the nodes, one after the other.
Moves(t, m, f) ==
    f = [i \in 0..Len(Foreach(t)) |->
            IF i = 0 THEN Empty(m).bins
            ELSE WithNode(f[i-1], Foreach(t)[i].hash % m, Foreach(t)[i])]

LEMMA RehashMoves ==
    ASSUME NEW t, NEW m \in Nat \ {0}, m = CalcSize(NumBins(t) + 1), Foreach(t) \in Seq(TNode)
    PROVE  \E f : /\ Rehash(t) = [t EXCEPT !.bins = f[Len(Foreach(t))]]
                  /\ f[0] = Empty(m).bins
                  /\ \A i \in 1..Len(Foreach(t)) :
                        f[i] = WithNode(f[i-1], Foreach(t)[i].hash % m, Foreach(t)[i])
<1> DEFINE V == [0..m-1 -> Seq(TNode)]
           s == Foreach(t)
           n == Len(s)
           step == [i \in 1..n |-> [v \in V |-> WithNode(v, s[i].hash % m, s[i])]]
<1>1. n \in Nat /\ s \in Seq(TNode) /\ \A i \in 1..n : s[i] \in TNode
    OBVIOUS
<1>2. ASSUME NEW i \in 1..n, NEW v \in V PROVE WithNode(v, s[i].hash % m, s[i]) \in V
  <2>1. s[i] \in TNode
    BY <1>1
  <2> HIDE DEF s, n
  <2> QED
    BY <2>1, WithNodeIn
<1> HIDE DEF s, n
<1>3. step \in [1..n -> [V -> V]]
  <2> HIDE DEF V
  <2> QED
    BY <1>2
<1>4. \A i \in 1..n, v \in V : step[i][v] = WithNode(v, s[i].hash % m, s[i])
    OBVIOUS
<1>5. Empty(m).bins \in V
    BY DEF Empty
<1> HIDE DEF V, step
<1>6. PICK g : Followed(g, V, Empty(m).bins, step, n)
    BY <1>1, <1>3, <1>5, Follows
<1>7. g \in [0..n -> V] /\ g[0] = Empty(m).bins /\ \A i \in 1..n : g[i] = step[i][g[i-1]]
    BY <1>6 DEF Followed
<1>8. ASSUME NEW i \in 1..n PROVE g[i] = WithNode(g[i-1], s[i].hash % m, s[i])
  <2>1. i - 1 \in 0..n
    BY <1>1
  <2>2. g[i-1] \in V
    BY <1>7, <2>1
  <2> QED
    BY <1>4, <1>7, <2>2
<1>9. Moves(t, m, g)
  <2>1. g = [i \in 0..n |-> g[i]]
    BY <1>7
  <2>2. \A i \in 0..n : g[i] = IF i = 0 THEN Empty(m).bins ELSE WithNode(g[i-1], s[i].hash % m, s[i])
    BY <1>1, <1>7, <1>8
  <2>3. g = [i \in 0..n |-> IF i = 0 THEN Empty(m).bins ELSE WithNode(g[i-1], s[i].hash % m, s[i])]
    BY ONLY <2>1, <2>2
  <2> QED
    BY <2>3 DEF Moves, s, n
<1>10. PICK f : f = CHOOSE h : Moves(t, m, h)
    OBVIOUS
<1>11. Moves(t, m, f)
    BY <1>9, <1>10
<1>12. Rehash(t) = [t EXCEPT !.bins = f[n]]
    BY <1>10 DEF Rehash, Moves, s, n
<1>13. f[0] = Empty(m).bins /\ \A i \in 1..n : f[i] = WithNode(f[i-1], s[i].hash % m, s[i])
  <2>1. f = [i \in 0..n |-> IF i = 0 THEN Empty(m).bins ELSE WithNode(f[i-1], s[i].hash % m, s[i])]
    BY <1>11 DEF Moves, s, n
  <2>2. \A i \in 0..n : f[i] = IF i = 0 THEN Empty(m).bins ELSE WithNode(f[i-1], s[i].hash % m, s[i])
    BY ONLY <2>1
  <2>3. 0 \in 0..n /\ \A i \in 1..n : i \in 0..n /\ i # 0
    BY <1>1
  <2> QED
    BY ONLY <2>2, <2>3
<1> QED
    BY <1>12, <1>13 DEF s, n

\* A rehash keeps the nodes.
LEMMA RehashHolds ==
    ASSUME NEW t, NEW n, NEW N, BinsHold(t.bins, n, N), Keyed(N),
           NEW m \in Nat \ {0}, m = CalcSize(n + 1)
    PROVE  \E r : Rehash(t) = [t EXCEPT !.bins = r] /\ BinsHold(r, m, N)
<1>1. /\ NumBins(t) = n /\ Foreach(t) \in Seq(TNode) /\ OnceKeyed(Foreach(t))
      /\ \A y : Has(Foreach(t), y) <=> y \in N
    BY ForeachHas
<1> DEFINE s == Foreach(t)
           l == Len(s)
<1>2. PICK f : /\ Rehash(t) = [t EXCEPT !.bins = f[l]]
               /\ f[0] = Empty(m).bins
               /\ \A i \in 1..l : f[i] = WithNode(f[i-1], s[i].hash % m, s[i])
    BY <1>1, RehashMoves
<1>3. /\ l \in Nat /\ \A i \in 1..l : s[i] \in TNode
      /\ \A i, j \in 1..l : s[i].key = s[j].key => i = j
    BY <1>1 DEF OnceKeyed
<1>4. \A y : y \in N <=> \E i \in 1..l : s[i] = y
    BY <1>1 DEF Has
<1> HIDE DEF s, l
<1> DEFINE First(i) == {s[j] : j \in 1..i}
           S == {i \in 0..l : BinsHold(f[i], m, First(i))}
<1>5. 0 \in S
  <2>1. First(0) = {}
    OBVIOUS
  <2> HIDE DEF First
  <2>2. BinsHold(f[0], m, First(0))
    BY <1>2, <2>1, EmptyHolds
  <2> QED
    BY <1>3, <2>2
<1>6. ASSUME NEW i \in 1..l, i - 1 \in S PROVE i \in S
  <2>1. BinsHold(f[i-1], m, First(i-1))
    BY <1>6
  <2>2. s[i] \in TNode /\ \A y \in First(i-1) : y.key # s[i].key
    BY <1>3
  <2>3. First(i) = First(i-1) \cup {s[i]}
    <3>1. \A j : j \in 1..i <=> j \in 1..(i-1) \/ j = i
      BY <1>3
    <3> QED
      BY ONLY <3>1
  <2>4. f[i] = WithNode(f[i-1], s[i].hash % m, s[i])
    BY <1>2
  <2> HIDE DEF First
  <2> DEFINE v == f[i-1]
             x == s[i]
             M == First(i-1)
  <2>5. BinsHold(WithNode(v, x.hash % m, x), m, M \cup {x})
    <3>1. BinsHold(v, m, M) /\ x \in TNode /\ \A y \in M : y.key # x.key
      BY ONLY <2>1, <2>2
    <3> HIDE DEF v, x, M
    <3> QED
      BY ONLY <3>1, WithNodeHolds
  <2>6. BinsHold(f[i], m, First(i))
    BY ONLY <2>3, <2>4, <2>5
  <2> QED
    BY <1>3, <2>6
<1>7. First(l) = N
    BY <1>4
<1> HIDE DEF S, First
<1>8. 0..l \subseteq S
    BY <1>3, <1>5, <1>6, Upwards
<1>9. BinsHold(f[l], m, N)
    BY <1>3, <1>7, <1>8 DEF S
<1> QED
    BY <1>2, <1>9

\* There are as many nodes as keys.
LEMMA NodesCounted ==
    ASSUME NEW s \in Seq(TNode), OnceKeyed(s), NEW K, \A k : k \in K <=> \E y : Has(s, y) /\ y.key = k
    PROVE  IsFiniteSet(K) /\ Cardinality(K) = Len(s)
<1> DEFINE f == [i \in 1..Len(s) |-> s[i].key]
<1>0. Len(s) \in Nat
    OBVIOUS
<1>1. f \in [1..Len(s) -> K]
    BY DEF Has
<1>2. \A i, j \in 1..Len(s) : f[i] = f[j] => i = j
    BY DEF OnceKeyed
<1>3. \A k \in K : \E i \in 1..Len(s) : f[i] = k
    BY DEF Has
<1> HIDE DEF f
<1>4. f \in Bijection(1..Len(s), K)
  <2>1. f \in Injection(1..Len(s), K)
    BY ONLY <1>1, <1>2 DEF Injection, IsInjective
  <2>2. f \in Surjection(1..Len(s), K)
    BY ONLY <1>1, <1>3 DEF Surjection
  <2> QED
    BY <2>1, <2>2 DEF Bijection
<1>5. IsFiniteSet(1..Len(s)) /\ Cardinality(1..Len(s)) = Len(s)
    BY <1>0, FS_Interval
<1> QED
    BY <1>4, <1>5, FS_Bijection DEF ExistsBijection

\* A chain is searched for its first node that has the key.
WithKey(s, k) == SelectInSeq(s, LAMBDA x : x.key = k)
WithHash(s, h, k) == SelectInSeq(s, LAMBDA x : x.hash = h /\ x.key = k)

LEMMA SelectedKey ==
    ASSUME NEW s \in Seq(TNode), NEW k, NEW i, i = WithKey(s, k)
    PROVE  IF i = 0 THEN \A y : Has(s, y) => y.key # k ELSE i \in 1..Len(s) /\ s[i].key = k
<1> DEFINE I == {j \in 1..Len(s) : s[j].key = k}
<1>1. i = IF I # {} THEN Min(I) ELSE 0
    BY DEF SelectInSeq, WithKey
<1>2. I \in SUBSET Nat /\ \A j : j \in I <=> j \in 1..Len(s) /\ s[j].key = k
    OBVIOUS
<1> HIDE DEF I
<1>3. ASSUME I # {} PROVE Min(I) \in I
  <2>1. PICK n \in I : \A m \in I : n <= m
    BY <1>2, <1>3, LeastExists
  <2> QED
    BY <2>1 DEF Min
<1>4. CASE I = {}
    BY <1>1, <1>2, <1>4 DEF Has
<1>5. CASE I # {}
  <2>1. i \in I /\ i # 0
    BY <1>1, <1>2, <1>3, <1>5
  <2> QED
    BY <1>2, <2>1
<1> QED
    BY <1>4, <1>5

LEMMA SelectedNode ==
    ASSUME NEW s \in Seq(TNode), NEW h, NEW k, NEW i, i = WithHash(s, h, k)
    PROVE  IF i = 0 THEN \A y : Has(s, y) => ~(y.hash = h /\ y.key = k)
           ELSE i \in 1..Len(s) /\ s[i].hash = h /\ s[i].key = k
<1> DEFINE I == {j \in 1..Len(s) : s[j].hash = h /\ s[j].key = k}
<1>1. i = IF I # {} THEN Min(I) ELSE 0
    BY DEF SelectInSeq, WithHash
<1>2. I \in SUBSET Nat /\ \A j : j \in I <=> j \in 1..Len(s) /\ s[j].hash = h /\ s[j].key = k
    OBVIOUS
<1> HIDE DEF I
<1>3. ASSUME I # {} PROVE Min(I) \in I
  <2>1. PICK n \in I : \A m \in I : n <= m
    BY <1>2, <1>3, LeastExists
  <2> QED
    BY <2>1 DEF Min
<1>4. CASE I = {}
    BY <1>1, <1>2, <1>4 DEF Has
<1>5. CASE I # {}
  <2>1. i \in I /\ i # 0
    BY <1>1, <1>2, <1>3, <1>5
  <2> QED
    BY <1>2, <2>1
<1> QED
    BY <1>4, <1>5
-----------------------------------------------------------------------------
\* The nodes of what the keys were given.
KeysGiven(told) == {k \in TableKey : told[k] # Absent}
NodesGiven(told) == {x \in TNode : x.hash = HashOf[x.key] /\ x.data = told[x.key]}

TableInv ==
    /\ inserted \in [TableKey -> Datum \cup {Absent}]
    /\ table = [bins |-> table.bins, entries |-> table.entries]
    /\ NumBins(table) \in ToSet(Primes)
    /\ BinsHold(table.bins, NumBins(table), NodesGiven(inserted))
    /\ table.entries = Cardinality(KeysGiven(inserted))

LEMMA BinsCounted ==
    ASSUME NEW t, NEW n, NEW N, BinsHold(t.bins, n, N)
    PROVE  NumBins(t) = n
<1>1. n \in Nat \ {0} /\ DOMAIN t.bins = 0..n-1
    BY DEF BinsHold
<1>2. Cardinality(0..n-1) = n
  <2>1. 0 \in Int /\ n - 1 \in Int /\ ~(0 > n - 1) /\ n - 1 - 0 + 1 = n
    BY ONLY <1>1
  <2> QED
    BY ONLY <2>1, FS_Interval
<1> QED
    BY <1>1, <1>2 DEF NumBins

LEMMA PrimesArePositive == ToSet(Primes) \subseteq Nat \ {0}
    BY PrimesAssumption DEF ToSet

LEMMA GivenKeyed == ASSUME NEW told PROVE Keyed(NodesGiven(told))
<1>1. \A x, y \in TNode : x.hash = y.hash /\ x.key = y.key /\ x.data = y.data => x = y
    BY DEF TNode
<1> QED
    BY <1>1 DEF Keyed, NodesGiven

LEMMA GivenKeys ==
    ASSUME NEW told \in [TableKey -> Datum \cup {Absent}]
    PROVE  /\ \A k : k \in KeysGiven(told) <=> \E y : y \in NodesGiven(told) /\ y.key = k
           /\ \A k \in KeysGiven(told) : [hash |-> HashOf[k], key |-> k, data |-> told[k]] \in NodesGiven(told)
<1>1. ASSUME NEW k \in KeysGiven(told)
      PROVE  [hash |-> HashOf[k], key |-> k, data |-> told[k]] \in NodesGiven(told)
  <2>1. k \in TableKey /\ told[k] \in Datum
    BY <1>1 DEF KeysGiven
  <2>2. HashOf[k] \in Nat
    BY <2>1, HashAssumption
  <2> QED
    BY <2>1, <2>2 DEF NodesGiven, TNode
<1>2. ASSUME NEW y \in NodesGiven(told) PROVE y.key \in KeysGiven(told)
  <2>1. y.key \in TableKey /\ y.data \in Datum /\ y.data = told[y.key]
    BY <1>2 DEF NodesGiven, TNode
  <2> QED
    BY <2>1, AbsentAssumption DEF KeysGiven
<1>3. ASSUME NEW k \in KeysGiven(told) PROVE \E y : y \in NodesGiven(told) /\ y.key = k
  <2>1. [hash |-> HashOf[k], key |-> k, data |-> told[k]].key = k
    OBVIOUS
  <2> QED
    BY <1>1, <2>1
<1> QED
    BY <1>1, <1>2, <1>3

\* What a key is told, and what it is told no more.
Tell(told, k, d) == [told EXCEPT ![k] = d]

LEMMA TellIn ==
    ASSUME NEW told \in [TableKey -> Datum \cup {Absent}], NEW k, NEW d \in Datum \cup {Absent}
    PROVE  Tell(told, k, d) \in [TableKey -> Datum \cup {Absent}]
BY DEF Tell

LEMMA ToldNodes ==
    ASSUME NEW told \in [TableKey -> Datum \cup {Absent}], NEW k \in TableKey, NEW d \in Datum,
           NEW x, x = [hash |-> HashOf[k], key |-> k, data |-> d]
    PROVE  /\ x \in TNode
           /\ NodesGiven(Tell(told, k, d)) = {y \in NodesGiven(told) : y.key # k} \cup {x}
<1>1. x \in TNode
    BY HashAssumption DEF TNode
<1>2. ASSUME NEW y \in TNode, y.key = k, y.hash = HashOf[k], y.data = d PROVE y = x
    BY <1>2 DEF TNode
<1>3. x.key = k /\ x.hash = HashOf[k] /\ x.data = d
    OBVIOUS
<1> DEFINE new == Tell(told, k, d)
<1>4. new[k] = d /\ \A j \in TableKey : j # k => new[j] = told[j]
    BY DEF Tell
<1>5. \A y \in TNode : y.key \in TableKey
    BY DEF TNode
<1> HIDE DEF new
<1>6. ASSUME NEW y PROVE y \in NodesGiven(new) <=> (y \in NodesGiven(told) /\ y.key # k) \/ y = x
    BY <1>1, <1>2, <1>3, <1>4, <1>5 DEF NodesGiven
<1> QED
    BY <1>1, <1>6 DEF new

LEMMA UntoldNodes ==
    ASSUME NEW told \in [TableKey -> Datum \cup {Absent}], NEW k \in TableKey
    PROVE  NodesGiven(Tell(told, k, Absent)) = {y \in NodesGiven(told) : y.key # k}
<1> DEFINE old == Tell(told, k, Absent)
<1>1. old[k] = Absent /\ \A j \in TableKey : j # k => old[j] = told[j]
    BY DEF Tell
<1>2. \A y \in TNode : y.key \in TableKey /\ y.data \in Datum
    BY DEF TNode
<1> HIDE DEF old
<1>3. ASSUME NEW y PROVE y \in NodesGiven(old) <=> y \in NodesGiven(told) /\ y.key # k
    BY <1>1, <1>2, AbsentAssumption DEF NodesGiven
<1> QED
    BY <1>3 DEF old

\* The data of a node is replaced.
LEMMA ReplacedNode ==
    ASSUME NEW bins, NEW n, NEW N, BinsHold(bins, n, N), Keyed(N),
           NEW b \in 0..n-1, NEW i \in 1..Len(bins[b]), NEW d \in Datum,
           NEW x, x = [bins[b][i] EXCEPT !.data = d]
    PROVE  BinsHold([bins EXCEPT ![b][i].data = d], n, {y \in N : y.key # x.key} \cup {x})
<1> DEFINE s == bins[b]
           r == [s EXCEPT ![i].data = d]
           new == [bins EXCEPT ![b][i].data = d]
           M == {y \in N : y.key # x.key} \cup {x}
<1>0. n \in Nat \ {0} /\ bins \in [0..n-1 -> Seq(TNode)] /\ s \in Seq(TNode)
    BY DEF BinsHold
<1>1. OnceKeyed(s) /\ \A y : Has(s, y) <=> y \in N /\ y.hash % n = b
    BY DEF BinsHold
<1>2. s[i] \in TNode /\ s[i] \in N /\ s[i].hash % n = b
    BY <1>0, <1>1 DEF Has
<1>3. x \in TNode /\ x.key = s[i].key /\ x.hash = s[i].hash /\ x = [s[i] EXCEPT !.data = d]
    BY <1>2 DEF TNode
<1>4. /\ r \in Seq(TNode) /\ Len(r) = Len(s) /\ r[i] = x
      /\ \A j \in 1..Len(s) : j # i => r[j] = s[j]
    BY <1>0, <1>3
<1>5. new \in [0..n-1 -> Seq(TNode)] /\ new[b] = r /\ \A c \in 0..n-1 : c # b => new[c] = bins[c]
    BY <1>0, <1>4
<1>6. x.hash % n = b
    BY <1>2, <1>3
<1>7. \A y : y \in M <=> (y \in N /\ y.key # x.key) \/ y = x
    OBVIOUS
<1>8. \A j \in 1..Len(s) : s[j].key = s[i].key => j = i
    BY <1>1 DEF OnceKeyed
<1>9. i \in 1..Len(s)
    OBVIOUS
<1>10. \A y \in N : y.key = s[i].key => y = s[i]
    BY <1>2 DEF Keyed
<1> HIDE DEF s, r, new, M
<1>11. OnceKeyed(r)
  <2> SUFFICES ASSUME NEW j \in 1..Len(s), NEW k \in 1..Len(s), r[j].key = r[k].key PROVE j = k
    BY <1>4 DEF OnceKeyed
  <2>1. r[j].key = s[j].key /\ r[k].key = s[k].key
    BY <1>3, <1>4
  <2> QED
    BY <1>1, <2>1 DEF OnceKeyed
<1>12. ASSUME NEW y PROVE Has(r, y) <=> y \in M /\ y.hash % n = b
  <2>1. ASSUME Has(r, y) PROVE y \in M /\ y.hash % n = b
    <3>1. PICK j \in 1..Len(s) : r[j] = y
      BY <1>4, <2>1 DEF Has
    <3>2. CASE j = i
      BY <1>4, <1>6, <1>7, <3>1, <3>2
    <3>3. CASE j # i
      <4>1. y = s[j] /\ y.key # x.key
        BY <1>3, <1>4, <1>8, <3>1, <3>3
      <4>2. y \in N /\ y.hash % n = b
        BY <1>1, <4>1 DEF Has
      <4> QED
        BY <1>7, <4>1, <4>2
    <3> QED
      BY <3>2, <3>3
  <2>2. ASSUME y \in N, y.key # x.key, y.hash % n = b PROVE Has(r, y)
    <3>1. PICK j \in 1..Len(s) : s[j] = y
      BY <1>1, <2>2 DEF Has
    <3>2. j # i
      BY <1>3, <2>2, <3>1
    <3> QED
      BY <1>4, <3>1, <3>2 DEF Has
  <2>3. Has(r, x)
    BY <1>4, <1>9 DEF Has
  <2> QED
    BY <1>7, <2>1, <2>2, <2>3
<1>13. ASSUME NEW c \in 0..n-1
       PROVE  OnceKeyed(new[c]) /\ \A y : Has(new[c], y) <=> y \in M /\ y.hash % n = c
  <2>1. CASE c = b
    BY <1>5, <1>11, <1>12, <2>1
  <2>2. CASE c # b
    <3>1. new[c] = bins[c] /\ OnceKeyed(bins[c]) /\ \A y : Has(bins[c], y) <=> y \in N /\ y.hash % n = c
      BY <1>5, <2>2 DEF BinsHold
    <3>2. ASSUME NEW y, y.hash % n = c PROVE y \in M <=> y \in N
      <4>1. y # x /\ y # s[i]
        BY <1>2, <1>6, <2>2, <3>2
      <4>2. y \in N => y.key # x.key
        BY <1>3, <1>10, <4>1
      <4> QED
        BY <1>7, <4>1, <4>2
    <3> QED
      BY <3>1, <3>2
  <2> QED
    BY <2>1, <2>2
<1>14. BinsHold(new, n, M)
    BY <1>0, <1>5, <1>13 DEF BinsHold
<1> QED
    BY <1>14 DEF new, M

\* A node is taken out.
LEMMA RemovedNode ==
    ASSUME NEW bins, NEW n, NEW N, BinsHold(bins, n, N), Keyed(N),
           NEW b \in 0..n-1, NEW i \in 1..Len(bins[b])
    PROVE  BinsHold([bins EXCEPT ![b] = RemoveAt(@, i)], n, {y \in N : y.key # bins[b][i].key})
<1> DEFINE s == bins[b]
           r == RemoveAt(s, i)
           new == [bins EXCEPT ![b] = RemoveAt(@, i)]
           M == {y \in N : y.key # s[i].key}
<1>0. n \in Nat \ {0} /\ bins \in [0..n-1 -> Seq(TNode)] /\ s \in Seq(TNode) /\ i \in 1..Len(s)
    BY DEF BinsHold
<1>1. OnceKeyed(s) /\ \A y : Has(s, y) <=> y \in N /\ y.hash % n = b
    BY DEF BinsHold
<1>2. s[i] \in N /\ s[i].hash % n = b
    BY <1>0, <1>1 DEF Has
<1>4. /\ r \in Seq(TNode) /\ Len(r) = Len(s) - 1
      /\ \A k \in 1..Len(r) : r[k] = IF k < i THEN s[k] ELSE s[k + 1]
    BY <1>0, ElementRemoved
<1>n. Len(s) \in Nat /\ i \in Nat
    BY <1>0
<1> HIDE DEF r
<1>5. new \in [0..n-1 -> Seq(TNode)] /\ new[b] = r /\ \A c \in 0..n-1 : c # b => new[c] = bins[c]
    BY <1>0, <1>4 DEF r
<1>7. \A y : y \in M <=> y \in N /\ y.key # s[i].key
    OBVIOUS
<1>8. \A j \in 1..Len(s) : s[j].key = s[i].key => j = i
    BY <1>0, <1>1 DEF OnceKeyed
<1>10. \A y \in N : y.key = s[i].key => y = s[i]
    BY <1>2 DEF Keyed
<1> HIDE DEF s, new, M
<1> DEFINE At(k) == IF k < i THEN k ELSE k + 1
<1>9. ASSUME NEW k \in 1..Len(r) PROVE At(k) \in 1..Len(s) /\ At(k) # i /\ r[k] = s[At(k)]
  <2>1. CASE k < i
    BY <1>4, <1>n, <2>1
  <2>2. CASE ~(k < i)
    BY <1>4, <1>n, <2>2
  <2> QED
    BY <2>1, <2>2
<1>11. OnceKeyed(r)
  <2> SUFFICES ASSUME NEW j \in 1..Len(r), NEW k \in 1..Len(r), r[j].key = r[k].key PROVE j = k
    BY DEF OnceKeyed
  <2>1. At(j) = At(k)
    BY <1>1, <1>9 DEF OnceKeyed
  <2> QED
    BY <1>4, <1>n, <2>1
<1>12. ASSUME NEW y PROVE Has(r, y) <=> y \in M /\ y.hash % n = b
  <2>1. ASSUME Has(r, y) PROVE y \in M /\ y.hash % n = b
    <3>1. PICK k \in 1..Len(r) : r[k] = y
      BY <2>1 DEF Has
    <3>2. PICK j \in 1..Len(s) : j # i /\ s[j] = y
      BY <1>9, <3>1
    <3>3. y.key # s[i].key
      BY <1>8, <3>2
    <3>4. y \in N /\ y.hash % n = b
      BY <1>1, <3>2 DEF Has
    <3> QED
      BY <1>7, <3>3, <3>4
  <2>2. ASSUME y \in M, y.hash % n = b PROVE Has(r, y)
    <3>1. PICK j \in 1..Len(s) : s[j] = y
      BY <1>1, <1>7, <2>2 DEF Has
    <3>2. j # i
      BY <1>7, <2>2, <3>1
    <3>3. CASE j < i
      <4>1. j \in 1..Len(r) /\ r[j] = y
        BY <1>4, <1>n, <3>1, <3>3, <1>0
      <4> QED
        BY <4>1 DEF Has
    <3>4. CASE j > i
      <4>1. j - 1 \in 1..Len(r) /\ ~(j - 1 < i) /\ j - 1 + 1 = j
        BY <1>4, <1>n, <1>0, <3>4
      <4>2. r[j-1] = y
        BY <1>4, <3>1, <4>1
      <4> QED
        BY <4>1, <4>2 DEF Has
    <3> QED
      BY <1>n, <3>2, <3>3, <3>4
  <2> QED
    BY <2>1, <2>2
<1>13. ASSUME NEW c \in 0..n-1
       PROVE  OnceKeyed(new[c]) /\ \A y : Has(new[c], y) <=> y \in M /\ y.hash % n = c
  <2>1. CASE c = b
    BY <1>5, <1>11, <1>12, <2>1
  <2>2. CASE c # b
    <3>1. new[c] = bins[c] /\ OnceKeyed(bins[c]) /\ \A y : Has(bins[c], y) <=> y \in N /\ y.hash % n = c
      BY <1>5, <2>2 DEF BinsHold
    <3>2. ASSUME NEW y, y.hash % n = c PROVE y \in M <=> y \in N
      BY <1>2, <1>7, <1>10, <2>2, <3>2
    <3> QED
      BY <3>1, <3>2
  <2> QED
    BY <2>1, <2>2
<1>14. BinsHold(new, n, M)
    BY <1>0, <1>5, <1>13 DEF BinsHold
<1> QED
    BY <1>14 DEF new, M, s
-----------------------------------------------------------------------------
\* What a key was given is found.
LEMMA FindsGiven ==
    ASSUME NEW t, NEW n, NEW told \in [TableKey -> Datum \cup {Absent}], NEW k \in TableKey,
           NumBins(t) = n, BinsHold(t.bins, n, NodesGiven(told))
    PROVE  TableFind(t, k) = told[k]
<1> DEFINE b == HashOf[k] % n
           s == t.bins[b]
<1>1. n \in Nat \ {0} /\ HashOf[k] \in Nat
    BY HashAssumption DEF BinsHold
<1>2. b \in 0..n-1
    BY <1>1, Divided
<1> HIDE DEF b
<1>3. s \in Seq(TNode) /\ \A y : Has(s, y) <=> y \in NodesGiven(told) /\ y.hash % n = b
    BY <1>2 DEF BinsHold
<1> HIDE DEF s
<1>4. PICK i : i = WithHash(s, HashOf[k], k)
    OBVIOUS
<1>5. IF i = 0 THEN \A y : Has(s, y) => ~(y.hash = HashOf[k] /\ y.key = k)
      ELSE i \in 1..Len(s) /\ s[i].hash = HashOf[k] /\ s[i].key = k
    BY <1>3, <1>4, SelectedNode
<1>6. TableFind(t, k) = IF i = 0 THEN Absent ELSE s[i].data
    BY <1>4 DEF TableFind, WithHash, b, s
<1>7. CASE i = 0
  <2>1. ASSUME k \in KeysGiven(told) PROVE FALSE
    <3>1. PICK x : x = [hash |-> HashOf[k], key |-> k, data |-> told[k]]
      OBVIOUS
    <3>2. x \in NodesGiven(told) /\ x.hash = HashOf[k] /\ x.key = k
      BY <2>1, <3>1, GivenKeys
    <3>3. x.hash % n = b
      BY <3>2 DEF b
    <3> QED
      BY <1>3, <1>5, <1>7, <3>2, <3>3
  <2> QED
    BY <1>6, <1>7, <2>1 DEF KeysGiven
<1>8. CASE i # 0
  <2>1. s[i] \in NodesGiven(told) /\ s[i].key = k
    BY <1>3, <1>5, <1>8 DEF Has
  <2> QED
    BY <1>6, <1>8, <2>1 DEF NodesGiven
<1> QED
    BY <1>7, <1>8

\* What one key is told changes the count by one at most.
LEMMA CountTold ==
    ASSUME NEW told \in [TableKey -> Datum \cup {Absent}], NEW k \in TableKey, NEW d \in Datum,
           IsFiniteSet(KeysGiven(told))
    PROVE  /\ KeysGiven(Tell(told, k, d)) = KeysGiven(told) \cup {k}
           /\ k \notin KeysGiven(told) =>
                Cardinality(KeysGiven(Tell(told, k, d))) = Cardinality(KeysGiven(told)) + 1
           /\ k \in KeysGiven(told) =>
                /\ Cardinality(KeysGiven(Tell(told, k, d))) = Cardinality(KeysGiven(told))
                /\ Cardinality(KeysGiven(Tell(told, k, Absent))) = Cardinality(KeysGiven(told)) - 1
<1> DEFINE new == Tell(told, k, d)
           old == Tell(told, k, Absent)
<1>1. /\ new[k] = d /\ old[k] = Absent /\ d # Absent
      /\ \A j \in TableKey : j # k => new[j] = told[j] /\ old[j] = told[j]
    BY AbsentAssumption DEF Tell
<1> HIDE DEF new, old
<1>2. KeysGiven(new) = KeysGiven(told) \cup {k} /\ KeysGiven(old) = KeysGiven(told) \ {k}
    BY <1>1 DEF KeysGiven
<1>3. k \in KeysGiven(told) => KeysGiven(told) \cup {k} = KeysGiven(told)
    OBVIOUS
<1>4. /\ Cardinality(KeysGiven(told) \cup {k}) =
           IF k \in KeysGiven(told) THEN Cardinality(KeysGiven(told)) ELSE Cardinality(KeysGiven(told)) + 1
      /\ Cardinality(KeysGiven(told) \ {k}) =
           IF k \in KeysGiven(told) THEN Cardinality(KeysGiven(told)) - 1 ELSE Cardinality(KeysGiven(told))
    BY FS_AddElement, FS_RemoveElement
<1> QED
    BY <1>2, <1>4 DEF new, old

LEMMA StoreHolds ==
    ASSUME NEW t, NEW n, NEW told \in [TableKey -> Datum \cup {Absent}],
           t = [bins |-> t.bins, entries |-> t.entries], BinsHold(t.bins, n, NodesGiven(told)),
           IsFiniteSet(KeysGiven(told)), t.entries = Cardinality(KeysGiven(told)),
           NEW k \in TableKey, NEW d \in Datum, NEW new, new = Store(t, HashOf[k] % n, k, d)
    PROVE  /\ new = [bins |-> new.bins, entries |-> new.entries]
           /\ BinsHold(new.bins, n, NodesGiven(Tell(told, k, d)))
           /\ new.entries = Cardinality(KeysGiven(Tell(told, k, d)))
<1> DEFINE b == HashOf[k] % n
           s == t.bins[b]
           N == NodesGiven(told)
<1>0. n \in Nat \ {0} /\ t.bins \in [0..n-1 -> Seq(TNode)] /\ Keyed(N)
    BY GivenKeyed DEF BinsHold
<1>1. PICK x : x = [hash |-> HashOf[k], key |-> k, data |-> d]
    OBVIOUS
<1>2. x \in TNode /\ NodesGiven(Tell(told, k, d)) = {y \in N : y.key # k} \cup {x}
    BY <1>1, ToldNodes
<1>3. x.hash = HashOf[k] /\ x.key = k /\ x.data = d
    BY <1>1
<1>4. b \in 0..n-1 /\ x.hash % n = b
    BY <1>0, <1>2, <1>3, Divided DEF TNode
<1> HIDE DEF b
<1>5. s \in Seq(TNode) /\ OnceKeyed(s) /\ \A y : Has(s, y) <=> y \in N /\ y.hash % n = b
    BY <1>4 DEF BinsHold
<1> HIDE DEF s, N
<1>6. PICK i : i = WithHash(s, HashOf[k], k)
    OBVIOUS
<1>7. IF i = 0 THEN \A y : Has(s, y) => ~(y.hash = HashOf[k] /\ y.key = k)
      ELSE i \in 1..Len(s) /\ s[i].hash = HashOf[k] /\ s[i].key = k
    BY <1>5, <1>6, SelectedNode
<1>8. new = IF i # 0 THEN [t EXCEPT !.bins[b][i].data = d]
                     ELSE [bins |-> WithNode(t.bins, b, x), entries |-> t.entries + 1]
    BY <1>1, <1>6 DEF Store, WithHash, b, s
<1>9. \A y \in N : y.hash = HashOf[y.key] /\ y.data = told[y.key] /\ y.key \in TableKey /\ y.data \in Datum
    BY DEF N, NodesGiven, TNode
<1>10. k \in KeysGiven(told) <=> \E y \in N : y.key = k
    BY GivenKeys DEF N
<1>11. CASE i = 0
  <2>1. ASSUME NEW y \in N PROVE y.key # k
    <3>1. y.key = k => y.hash % n = b /\ y.hash = HashOf[k]
      BY <1>9 DEF b
    <3> QED
      BY <1>5, <1>7, <1>11, <3>1
  <2>2. {y \in N : y.key # k} \cup {x} = N \cup {x}
    BY <2>1
  <2>3. BinsHold(WithNode(t.bins, b, x), n, N \cup {x})
    BY <1>2, <1>3, <1>4, <2>1, WithNodeHolds DEF N
  <2>4. k \notin KeysGiven(told)
    BY <1>10, <2>1
  <2>5. new.entries = t.entries + 1 /\ new.bins = WithNode(t.bins, b, x)
    BY <1>8, <1>11
  <2>6. new = [bins |-> new.bins, entries |-> new.entries]
    BY <1>8, <1>11
  <2>7. new.entries = Cardinality(KeysGiven(Tell(told, k, d)))
    BY <2>4, <2>5, CountTold
  <2> QED
    BY <1>2, <2>2, <2>3, <2>5, <2>6, <2>7
<1>12. CASE i # 0
  <2>1. i \in 1..Len(s) /\ s[i].hash = HashOf[k] /\ s[i].key = k
    BY <1>7, <1>12
  <2>2. s[i] \in TNode /\ s[i] \in N
    BY <1>5, <2>1 DEF Has
  <2>3. [s[i] EXCEPT !.data = d] = x
    BY <1>1, <2>1, <2>2 DEF TNode
  <2>4. BinsHold([t.bins EXCEPT ![b][i].data = d], n, {y \in N : y.key # x.key} \cup {x})
    <3>1. i \in 1..Len(t.bins[b]) /\ [t.bins[b][i] EXCEPT !.data = d] = x
      BY <2>1, <2>3 DEF s
    <3> QED
      BY <1>0, <1>4, <3>1, ReplacedNode DEF N
  <2>5. k \in KeysGiven(told)
    BY <1>10, <2>1, <2>2
  <2>6. new = [t EXCEPT !.bins = [t.bins EXCEPT ![b][i].data = d]]
    BY <1>8, <1>12
  <2>7. new.entries = t.entries /\ new.bins = [t.bins EXCEPT ![b][i].data = d]
    BY <2>6
  <2>8. new = [bins |-> new.bins, entries |-> new.entries]
    BY <2>6
  <2>9. new.entries = Cardinality(KeysGiven(Tell(told, k, d)))
    BY <2>5, <2>7, CountTold
  <2> QED
    BY <1>2, <1>3, <2>4, <2>7, <2>8, <2>9
<1> QED
    BY <1>11, <1>12

\* The next size is there when a table is full.
LEMMA SizeThere ==
    ASSUME PrimesSuffice, IsFiniteSet(TableKey), NEW told, NEW n \in ToSet(Primes), NEW e,
           e = Cardinality(KeysGiven(told)), e \div n > Density
    PROVE  CalcSize(n + 1) \in ToSet(Primes)
<1>0. n \in Nat \ {0} /\ Density \in Nat
    BY PrimesArePositive, PrimesAssumption
<1>1. KeysGiven(told) \subseteq TableKey
    BY DEF KeysGiven
<1>2. e \in Nat /\ e <= Cardinality(TableKey) /\ Cardinality(TableKey) \in Nat
    BY <1>1, FS_Subset, FS_CardinalityType
<1>3. PICK q \in Nat : q = e \div n
    BY <1>0, <1>2, Divided
<1>r. PICK r \in 0..n-1 : e = n * q + r
    BY <1>0, <1>2, <1>3, Divided
<1>4. q \in Nat /\ q > Density /\ e >= n * q
  <2>1. n * q \in Nat
    BY <1>0, Products
  <2> QED
    BY <1>0, <1>2, <1>3, <1>r, <2>1
<1>5. n * (Density + 1) <= n * q /\ n * (Density + 1) \in Nat /\ n * q \in Nat
  <2>1. CASE q = Density + 1
    BY <1>0, <1>4, <2>1, Products
  <2>2. CASE q # Density + 1
    <3>1. Density + 1 < q /\ Density + 1 \in Nat
      BY <1>0, <1>4, <2>2
    <3>2. n * (Density + 1) + n <= n * q /\ n * (Density + 1) \in Nat /\ n * q \in Nat
      BY <1>0, <1>4, <3>1, Products
    <3> QED
      BY <1>0, <3>2
  <2> QED
    BY <2>1, <2>2
<1>6. n * (Density + 1) <= Cardinality(TableKey)
    BY <1>2, <1>4, <1>5
<1>7. PICK i \in DOMAIN Primes : FirstAbove(n + 1, i)
    BY <1>6 DEF PrimesSuffice
<1>8. CalcSize(n + 1) = Primes[CHOOSE j \in DOMAIN Primes : FirstAbove(n + 1, j)]
    BY DEF CalcSize
<1> QED
    BY <1>7, <1>8 DEF ToSet

LEMMA TableAddHolds ==
    ASSUME PrimesSuffice, IsFiniteSet(TableKey), TableInv, NEW k \in TableKey, NEW d \in Datum,
           TableInsert(k, d)
    PROVE  TableInv'
<1> DEFINE n == NumBins(table)
           N == NodesGiven(inserted)
           s == IF Full(table) THEN Rehash(table) ELSE table
           m == NumBins(s)
<1>1. table' = Store(s, HashOf[k] % m, k, d) /\ inserted' = Tell(inserted, k, d)
    BY DEF TableInsert, TableAdd, Tell
<1>2. IsFiniteSet(KeysGiven(inserted))
  <2>1. KeysGiven(inserted) \subseteq TableKey
    BY DEF KeysGiven
  <2> QED
    BY <2>1, FS_Subset
<1>3. /\ m \in ToSet(Primes) /\ BinsHold(s.bins, m, N) /\ s.entries = table.entries
      /\ s = [bins |-> s.bins, entries |-> s.entries]
  <2>1. CASE ~Full(table)
    BY <2>1 DEF TableInv
  <2>2. CASE Full(table)
    <3>1. n \in ToSet(Primes) /\ table.entries \div n > Density
      BY <2>2 DEF Full, TableInv
    <3>2. CalcSize(n + 1) \in ToSet(Primes) /\ CalcSize(n + 1) \in Nat \ {0}
      BY <3>1, SizeThere, PrimesArePositive DEF TableInv
    <3>3. PICK r : Rehash(table) = [table EXCEPT !.bins = r] /\ BinsHold(r, CalcSize(n + 1), N)
      BY <3>2, RehashHolds, GivenKeyed DEF TableInv
    <3>4. s.bins = r /\ s.entries = table.entries /\ s = [bins |-> s.bins, entries |-> s.entries]
      BY <2>2, <3>3 DEF TableInv
    <3>5. BinsHold(s.bins, CalcSize(n + 1), N)
      BY <3>3, <3>4
    <3> HIDE DEF s, N
    <3>6. m = CalcSize(n + 1)
      BY ONLY <3>5, BinsCounted
    <3> QED
      BY <3>2, <3>3, <3>4, <3>6
  <2> QED
    BY <2>1, <2>2
<1> HIDE DEF s, m, N, n
<1>4. inserted \in [TableKey -> Datum \cup {Absent}] /\ s.entries = Cardinality(KeysGiven(inserted))
    BY <1>3 DEF TableInv
<1>5. PICK new : new = table'
    OBVIOUS
<1>6. /\ new = [bins |-> new.bins, entries |-> new.entries]
      /\ BinsHold(new.bins, m, NodesGiven(Tell(inserted, k, d)))
      /\ new.entries = Cardinality(KeysGiven(Tell(inserted, k, d)))
    BY <1>1, <1>2, <1>3, <1>4, <1>5, StoreHolds DEF N
<1>7. NumBins(new) = m
    BY <1>6, BinsCounted
<1>8. inserted' \in [TableKey -> Datum \cup {Absent}]
    BY <1>1, <1>4, TellIn
<1> QED
    BY <1>1, <1>3, <1>5, <1>6, <1>7, <1>8 DEF TableInv

LEMMA TableDeleteHolds ==
    ASSUME IsFiniteSet(TableKey), TableInv, NEW k \in TableKey, TableDelete(k)
    PROVE  TableInv'
<1> DEFINE n == NumBins(table)
           N == NodesGiven(inserted)
           b == HashOf[k]
           s == table.bins[b]
<1>0. n \in Nat \ {0} /\ b \in 0..n-1 /\ Keyed(N) /\ BinsHold(table.bins, n, N)
    BY GivenKeyed, HashAssumption DEF TableDelete, TableInv, BinsHold
<1>1. s \in Seq(TNode) /\ \A y : Has(s, y) <=> y \in N /\ y.hash % n = b
    BY <1>0 DEF BinsHold
<1>2. PICK i : i = WithKey(s, k)
    OBVIOUS
<1>3. i = 0 => UNCHANGED <<table, inserted>>
    BY <1>2 DEF TableDelete, WithKey, Tell
<1>4. i # 0 => /\ table' = [bins |-> [table.bins EXCEPT ![b] = RemoveAt(@, i)], entries |-> table.entries - 1]
               /\ inserted' = Tell(inserted, k, Absent)
    BY <1>2 DEF TableDelete, WithKey, Tell
<1> HIDE DEF s
<1>5. i # 0 => i \in 1..Len(s) /\ s[i].key = k
    BY <1>1, <1>2, SelectedKey
<1>6. CASE i = 0
    BY <1>3, <1>6 DEF TableInv
<1>7. CASE i # 0
  <2>1. s[i] \in N /\ s[i].key = k
    BY <1>1, <1>5, <1>7 DEF Has
  <2>2. k \in KeysGiven(inserted) /\ inserted \in [TableKey -> Datum \cup {Absent}]
        /\ s[i].data \in Datum
    BY <2>1, GivenKeys DEF TableInv, N, NodesGiven, TNode
  <2>3. NodesGiven(inserted') = {y \in N : y.key # k}
    BY <1>4, <1>7, <2>2, UntoldNodes DEF N
  <2>4. PICK r : r = [table.bins EXCEPT ![b] = RemoveAt(@, i)]
    OBVIOUS
  <2>5. BinsHold(r, n, {y \in N : y.key # k})
    <3>1. i \in 1..Len(table.bins[b]) /\ table.bins[b][i].key = k
      BY <1>5, <1>7 DEF s
    <3> HIDE DEF b, n, N
    <3> QED
      BY <1>0, <2>4, <3>1, RemovedNode
  <2>6. table' = [bins |-> r, entries |-> table.entries - 1]
    BY <1>4, <1>7, <2>4
  <2>7. IsFiniteSet(KeysGiven(inserted))
    <3>1. KeysGiven(inserted) \subseteq TableKey
      BY DEF KeysGiven
    <3> QED
      BY <3>1, FS_Subset
  <2>8. Cardinality(KeysGiven(inserted')) = table.entries - 1
    BY <1>4, <1>7, <2>2, <2>7, CountTold DEF TableInv
  <2>9. PICK new : new = table'
    OBVIOUS
  <2>10. new.bins = r /\ new.entries = table.entries - 1 /\ new = [bins |-> new.bins, entries |-> new.entries]
    BY <2>6, <2>9
  <2>11. NumBins(new) = n
    <3>1. BinsHold(new.bins, n, {y \in N : y.key # k})
      BY <2>5, <2>10
    <3> HIDE DEF n, N
    <3> QED
      BY ONLY <3>1, BinsCounted
  <2>12. inserted' \in [TableKey -> Datum \cup {Absent}] /\ n \in ToSet(Primes)
    BY <1>4, <1>7, <2>2, TellIn DEF TableInv
  <2> HIDE DEF n, N
  <2> QED
    BY <2>3, <2>5, <2>8, <2>9, <2>10, <2>11, <2>12 DEF TableInv
<1> QED
    BY <1>6, <1>7

\* rq_hashtable: whatever the keys' hashes, as long as there are primes enough, each key
\* is found with the data it was given last until it was deleted, through any rehash; and
\* a walk over the bins meets each key once, as many as the count says.
THEOREM TableIsMap ==
    ASSUME IsFiniteSet(TableKey), PrimesSuffice
    PROVE  TableSpec => []TableKeeps
<1>1. TableInit => TableInv
  <2> SUFFICES ASSUME TableInit PROVE TableInv
    OBVIOUS
  <2>1. PICK i \in DOMAIN Primes : FirstAbove(0, i)
    BY DEF PrimesSuffice
  <2>2. CalcSize(0) \in ToSet(Primes)
    BY <2>1 DEF CalcSize, ToSet
  <2>3. PICK n \in Nat \ {0} : n = CalcSize(0) /\ n \in ToSet(Primes)
    BY <2>2, PrimesArePositive
  <2>4. table = Empty(n) /\ inserted = [k \in TableKey |-> Absent]
    BY <2>3 DEF TableInit
  <2>5. table.bins = Empty(n).bins /\ table.entries = 0
        /\ table = [bins |-> table.bins, entries |-> table.entries]
    BY <2>4 DEF Empty
  <2>6. BinsHold(table.bins, n, {})
    BY <2>5, EmptyHolds
  <2>7. NumBins(table) = n
    BY <2>6, BinsCounted
  <2>8. NodesGiven(inserted) = {} /\ KeysGiven(inserted) = {}
    BY <2>4, AbsentAssumption DEF NodesGiven, KeysGiven, TNode
  <2> QED
    BY <2>3, <2>4, <2>5, <2>6, <2>7, <2>8, FS_EmptySet DEF TableInv
<1>2. TableInv /\ [TableNext]_tableVars => TableInv'
  <2> SUFFICES ASSUME TableInv, [TableNext]_tableVars PROVE TableInv'
    OBVIOUS
  <2>1. ASSUME NEW k \in TableKey, TableDeleteOutside(k) PROVE TableInv'
    BY <2>1 DEF TableDeleteOutside, TableInv
  <2>2. CASE UNCHANGED tableVars
    BY <2>2 DEF tableVars, TableInv
  <2> QED
    BY <2>1, <2>2, TableAddHolds, TableDeleteHolds DEF TableNext
<1>3. TableInv => TableKeeps
  <2> SUFFICES ASSUME TableInv PROVE TableKeeps
    OBVIOUS
  <2> DEFINE n == NumBins(table)
             N == NodesGiven(inserted)
             s == Foreach(table)
  <2>1. BinsHold(table.bins, n, N) /\ Keyed(N) /\ inserted \in [TableKey -> Datum \cup {Absent}]
    BY GivenKeyed DEF TableInv
  <2>2. \A k \in TableKey : TableFind(table, k) = inserted[k]
    BY <2>1, FindsGiven
  <2>3. s \in Seq(TNode) /\ OnceKeyed(s) /\ \A y : Has(s, y) <=> y \in N
    BY <2>1, ForeachHas
  <2>4. \A k : k \in KeysGiven(inserted) <=> \E y : Has(s, y) /\ y.key = k
    BY <2>1, <2>3, GivenKeys
  <2>5. Cardinality(KeysGiven(inserted)) = Len(s)
    BY <2>3, <2>4, NodesCounted
  <2>6. {x.key : x \in ToSet(s)} = KeysGiven(inserted)
    <3>1. \A y : y \in ToSet(s) <=> Has(s, y)
      BY <2>3 DEF Has, ToSet
    <3> QED
      BY <2>4, <3>1
  <2>7. KeysGiven(inserted) = {k \in TableKey : inserted[k] # Absent}
    BY DEF KeysGiven
  <2>8. table.entries = Cardinality(KeysGiven(inserted))
    BY DEF TableInv
  <2> HIDE DEF s, N, n
  <2>9. \A there : there = KeysGiven(inserted) =>
            /\ table.entries = Cardinality(there) /\ Len(s) = table.entries
            /\ {x.key : x \in ToSet(s)} = there
    BY <2>5, <2>6, <2>8
  <2> QED
    BY <2>2, <2>7, <2>9 DEF TableKeeps, s
<1> QED
    BY <1>1, <1>2, <1>3, PTL DEF TableSpec

-----------------------------------------------------------------------------
(***************************************************************************)
(* The set: what its nodes lead to, and what the colours promise the walk. *)
(***************************************************************************)
SetSide == {"left", "right"}
WordOrNone == Word \cup {NoWord}
SetTree == [head : WordOrNone, child : [SetSide -> [Word -> WordOrNone]], red : [Word -> BOOLEAN]]

LEMMA SetSides ==
    /\ "left" \in SetSide /\ "right" \in SetSide /\ "left" # "right"
    /\ \A s \in SetSide : s = "left" \/ s = "right"
    /\ \A s \in SetSide : Turned(s) \in SetSide /\ Turned(s) # s /\ Turned(Turned(s)) = s
    /\ \A r, s \in SetSide : r = s \/ r = Turned(s)
    /\ \A n, k : Way(n, k) \in SetSide
    /\ \A cmp : Toward(cmp) \in SetSide
  BY DEF SetSide, Turned, Way, Toward

\* Of what strcmp answers, the way takes only the sign.
LEMMA WayIs ==
    ASSUME NEW n \in Word, NEW k \in Word
    PROVE  Way(n, k) = (IF n < k THEN "left" ELSE "right") /\ n \in Int /\ k \in Int
<1>1. Strcmp[n, k] < 0 <=> n < k
    BY StrcmpAssumption
<1>2. n \in Int /\ k \in Int
    BY WordAssumption
<1>3. Way(n, k) = IF Strcmp[n, k] < 0 THEN "left" ELSE "right"
    BY Zenon DEF Way, Toward
<1> QED
    BY <1>1, <1>2, <1>3

\* Two keys on the way to a third.
LEMMA WaysAgree ==
    ASSUME NEW n \in Word, NEW c \in Word, NEW k \in Word, c # n
    PROVE  /\ Way(n, k) # Way(n, c) => Way(c, k) = Turned(Way(n, c)) /\ k # c
           /\ k = n => Way(c, k) = Turned(Way(n, c))
           /\ k # c /\ Way(c, k) = Way(n, c) => Way(n, k) = Way(n, c) /\ k # n
<1>1. /\ n \in Int /\ c \in Int /\ k \in Int
      /\ Way(n, k) = (IF n < k THEN "left" ELSE "right")
      /\ Way(n, c) = (IF n < c THEN "left" ELSE "right")
      /\ Way(c, k) = (IF c < k THEN "left" ELSE "right")
    BY WayIs
<1> QED
    BY <1>1 DEF Turned

LEMMA TreeFieldsOf ==
    ASSUME NEW t \in SetTree
    PROVE  /\ t = [head |-> t.head, child |-> t.child, red |-> t.red]
           /\ t.head \in WordOrNone
           /\ t.red \in [Word -> BOOLEAN] /\ t.child \in [SetSide -> [Word -> WordOrNone]]
           /\ \A s \in SetSide : t.child[s] \in [Word -> WordOrNone]
           /\ \A s \in SetSide, n \in Word : t.child[s][n] \in WordOrNone
  BY DEF SetTree

\* Of the keys A in the tree, R[n] are those to which the way leads through n, and E[k]
\* is where the way to k ends.
SetLeads(t, A, R, E) ==
    /\ t \in SetTree /\ A \subseteq Word
    /\ IF t.head = NoWord THEN A = {} ELSE t.head \in A /\ \A k \in Word : k \in R[t.head]
    /\ \A n \in A : n \in R[n]
    /\ \A n \in A, s \in SetSide : t.child[s][n] # NoWord =>
           /\ t.child[s][n] \in A
           /\ \A k \in Word : k \in R[t.child[s][n]] <=> k \in R[n] /\ k # n /\ Way(n, k) = s
    /\ \A n \in A, k \in Word : k \in R[n] /\ (k = n \/ t.child[Way(n, k)][n] = NoWord) => E[k] = n
    /\ \A n \in Word \ A : ~t.red[n] /\ \A s \in SetSide : t.child[s][n] = NoWord

OneAbove(t) ==
    /\ \A a, b \in Word, s, r \in SetSide :
           t.child[s][a] # NoWord /\ t.child[s][a] = t.child[r][b] => a = b /\ s = r
    /\ t.head # NoWord => \A a \in Word, s \in SetSide : t.child[s][a] # t.head

SearchTree(t, A) == OneAbove(t) /\ \E R, E : SetLeads(t, A, R, E)

Inside(R, n) == {m \in Word : m \in R[n]}
WalkDownSet(t, k) == [n \in WordOrNone |-> IF n \in {k, NoWord} THEN n ELSE t.child[Way(n, k)][n]]

LEMMA SetFindIs ==
    ASSUME NEW t \in SetTree, NEW k \in Word, NEW N \in Nat, N = Cardinality(Word)
    PROVE  \E at : /\ Iteration(at, WordOrNone, t.head, WalkDownSet(t, k), N)
                   /\ SetFind(t, k) = at[N]
<1>1. t.head \in WordOrNone
    BY TreeFieldsOf
<1>2. WalkDownSet(t, k) \in [WordOrNone -> WordOrNone]
    BY SetSides, TreeFieldsOf DEF WalkDownSet, WordOrNone
<1>3. PICK below : below = WalkDownSet(t, k)
    OBVIOUS
<1>4. PICK at : at = CHOOSE f : f = [i \in 0..N |-> IF i = 0 THEN t.head ELSE below[f[i-1]]]
    OBVIOUS
<1>5. Iteration(at, WordOrNone, t.head, below, N)
    BY <1>1, <1>2, <1>3, <1>4, Iterated
<1>6. SetFind(t, k) = at[N]
    BY <1>3, <1>4 DEF SetFind, WalkDownSet, WordOrNone
<1> QED
    BY <1>3, <1>5, <1>6

\* rq_set_rb_find: in as many steps as there are keys the walk is at the key or at the end.
LEMMA SetFinds ==
    ASSUME IsFiniteSet(Word), NEW t, NEW A, NEW R, NEW E, SetLeads(t, A, R, E), NEW k \in Word
    PROVE  SetFind(t, k) = IF k \in A THEN k ELSE NoWord
<1>1. PICK N \in Nat : N = Cardinality(Word)
    BY FS_CardinalityType
<1>2. PICK at : Iteration(at, WordOrNone, t.head, WalkDownSet(t, k), N) /\ SetFind(t, k) = at[N]
    BY <1>1, SetFindIs DEF SetLeads
<1>3. PICK step : step = WalkDownSet(t, k)
    OBVIOUS
<1>4. step[NoWord] = NoWord /\ step[k] = k /\ \A n \in Word : n # k => step[n] = t.child[Way(n, k)][n]
    BY <1>3, WordAssumption DEF WalkDownSet, WordOrNone
<1>5. at[0] = t.head /\ \A i \in 1..N : at[i] = step[at[i-1]]
    BY <1>2, <1>3 DEF Iteration
<1> DEFINE Far(i) == \/ at[i] = NoWord /\ k \notin A
                     \/ at[i] = k /\ k \in A
                     \/ at[i] \in A /\ k \in R[at[i]] /\ at[i] # k /\ Cardinality(Inside(R, at[i])) + i <= N
           S == {i \in 0..N : Far(i)}
<1>6. \A n : IsFiniteSet(Inside(R, n)) /\ Cardinality(Inside(R, n)) \in Nat /\ Cardinality(Inside(R, n)) <= N
    BY <1>1, FS_Subset, FS_CardinalityType DEF Inside
<1>7. 0 \in S
    BY <1>1, <1>5, <1>6 DEF SetLeads
<1>8. ASSUME NEW i \in 1..N, i - 1 \in S PROVE i \in S
    <2>1. CASE at[i-1] \in {NoWord, k}
        <3>1. at[i] = at[i-1]
            BY <1>4, <1>5, <2>1
        <3>2. Far(i-1) /\ i \in 0..N
            BY <1>8
        <3>3. NoWord \notin A /\ k # NoWord
            BY WordAssumption DEF SetLeads
        <3>4. (at[i-1] = NoWord /\ k \notin A) \/ (at[i-1] = k /\ k \in A)
            BY <2>1, <3>2, <3>3
        <3> QED
            BY <3>1, <3>2, <3>4
    <2>2. CASE at[i-1] \notin {NoWord, k}
        <3>1. PICK n \in A : n = at[i-1] /\ k \in R[n] /\ n # k /\ Cardinality(Inside(R, n)) + (i - 1) <= N
            BY <1>8, <2>2
        <3>2. n \in Word /\ n # NoWord /\ at[i] = t.child[Way(n, k)][n]
            BY <1>4, <1>5, <3>1, WordAssumption DEF SetLeads
        <3>3. CASE at[i] = NoWord
            <4>1. E[k] = n
                <5>1. \A m \in A, j \in Word : j \in R[m] /\ (j = m \/ t.child[Way(m, j)][m] = NoWord) => E[j] = m
                    BY DEF SetLeads
                <5> QED
                    BY <5>1, <3>1, <3>2, <3>3
            <4>2. k \in A => E[k] = k
                BY DEF SetLeads
            <4> QED
                BY <3>1, <3>3, <4>1, <4>2
        <3>4. CASE at[i] # NoWord
            <4>1. PICK c \in A : /\ c = at[i]
                                 /\ \A m \in Word : m \in R[c] <=> m \in R[n] /\ m # n /\ Way(n, m) = Way(n, k)
                BY <3>2, <3>4, SetSides DEF SetLeads
            <4>2. Inside(R, c) \subseteq Inside(R, n) /\ n \in Inside(R, n) /\ n \notin Inside(R, c)
                BY <3>1, <3>2, <4>1 DEF SetLeads, Inside
            <4>3. Cardinality(Inside(R, c)) < Cardinality(Inside(R, n))
                BY <1>6, <4>2, FS_Subset
            <4>4. Cardinality(Inside(R, c)) + i <= N
                BY <1>6, <3>1, <4>3
            <4>5. k \in R[c]
                BY <3>1, <4>1
            <4> QED
                BY <4>1, <4>4, <4>5
        <3> QED
            BY <3>3, <3>4
    <2> QED
        BY <2>1, <2>2
<1> HIDE DEF S
<1>9. 0..N \subseteq S
    BY <1>7, <1>8, Upwards
<1>10. Far(N)
    BY <1>1, <1>9 DEF S
<1>11. ASSUME at[N] \in A, Cardinality(Inside(R, at[N])) + N <= N PROVE FALSE
    <2>1. at[N] \in Inside(R, at[N])
        BY <1>11 DEF SetLeads, Inside
    <2>2. Cardinality(Inside(R, at[N])) # 0
        BY <1>6, <2>1, FS_EmptySet
    <2> QED
        BY <1>1, <1>6, <1>11, <2>2
<1> QED
    BY <1>2, <1>10, <1>11

OnlyHung(r, t, s, n, c) ==
    /\ r \in SetTree /\ r.head = t.head /\ r.red = t.red /\ r.child[s][n] = c
    /\ \A z \in SetSide, m \in Word : z # s \/ m # n => r.child[z][m] = t.child[z][m]

LEMMA ChildHung ==
    ASSUME NEW t \in SetTree, NEW s \in SetSide, NEW n \in Word, NEW c \in WordOrNone, NEW r, r = Hung(t, s, n, c)
    PROVE  OnlyHung(r, t, s, n, c)
<1>0. PICK h, e, d : t = [head |-> h, child |-> e, red |-> d] /\ h = t.head /\ e = t.child /\ d = t.red
    BY TreeFieldsOf
<1>1. r = [head |-> h, child |-> [e EXCEPT ![s][n] = c], red |-> d]
    BY <1>0 DEF Hung
<1>2. PICK f : f = [t.child EXCEPT ![s][n] = c]
    OBVIOUS
<1>3. /\ f \in [SetSide -> [Word -> WordOrNone]] /\ f[s][n] = c
      /\ \A z \in SetSide, m \in Word : z # s \/ m # n => f[z][m] = t.child[z][m]
    BY <1>2, TreeFieldsOf
<1>4. r \in SetTree /\ r.head = t.head /\ r.red = t.red /\ r.child = f
    <2>1. r = [head |-> h, child |-> f, red |-> d]
        BY <1>0, <1>1, <1>2
    <2>2. h \in WordOrNone /\ d \in [Word -> BOOLEAN]
        BY <1>0, TreeFieldsOf
    <2>3. r \in SetTree
        BY <2>1, <2>2, <1>3 DEF SetTree
    <2> QED
        BY <1>0, <2>1, <2>3
<1> QED
    BY <1>3, <1>4 DEF OnlyHung

IsTurned(r, t, q, u, n, s, c) ==
    /\ r \in SetTree /\ r.head = t.head /\ r.red = t.red
    /\ r.child[s][n] = t.child[Turned(s)][c]
    /\ r.child[Turned(s)][c] = n
    /\ r.child[u][q] = c
    /\ \A z \in SetSide, m \in Word :
          (m = n => z # s) /\ (m = c => z # Turned(s)) /\ (m = q => z # u) => r.child[z][m] = t.child[z][m]

LEMMA TurnFields ==
    ASSUME NEW t \in SetTree, NEW q \in Word, NEW n \in Word, NEW c \in Word, NEW u \in SetSide, NEW s \in SetSide,
           c = t.child[s][n], n # c, q # n, q # c, NEW r, r = TurnUnder(t, q, u, n, s)
    PROVE  IsTurned(r, t, q, u, n, s, c)
<1>1. PICK x \in WordOrNone : x = t.child[Turned(s)][c]
    BY TreeFieldsOf, SetSides
<1>2. PICK z \in SetSide : z = Turned(s) /\ z # s
    BY SetSides
<1>3. n \in WordOrNone /\ c \in WordOrNone
    BY DEF WordOrNone
<1>4. PICK a : a = Hung(t, s, n, x)
    OBVIOUS
<1>5. PICK b : b = Hung(a, z, c, n)
    OBVIOUS
<1>6. r = Hung(b, u, q, c)
    <2>1. r = Hung(Hung(Hung(t, s, n, t.child[Turned(s)][c]), Turned(s), c, n), u, q, c)
        BY Zenon DEF TurnUnder
    <2>2. r = Hung(Hung(Hung(t, s, n, x), z, c, n), u, q, c)
        BY ONLY <2>1, <1>1, <1>2
    <2> QED
        BY ONLY <2>2, <1>4, <1>5
<1>7. OnlyHung(a, t, s, n, x) /\ a \in SetTree
    <2>1. OnlyHung(a, t, s, n, x)
        BY <1>4, ChildHung
    <2> QED
        BY <2>1 DEF OnlyHung
<1>8. OnlyHung(b, a, z, c, n)
    BY <1>2, <1>3, <1>5, <1>7, ChildHung
<1>9. b \in SetTree
    BY <1>8 DEF OnlyHung
<1>10. OnlyHung(r, b, u, q, c)
    BY <1>3, <1>6, <1>9, ChildHung
<1>11. r \in SetTree /\ r.head = t.head /\ r.red = t.red /\ r.child[u][q] = c
    BY <1>7, <1>8, <1>10 DEF OnlyHung
<1>12. r.child[s][n] = x
    <2>1. r.child[s][n] = b.child[s][n]
        BY <1>10 DEF OnlyHung
    <2>2. b.child[s][n] = a.child[s][n]
        BY <1>2, <1>8 DEF OnlyHung
    <2>3. a.child[s][n] = x
        BY <1>7 DEF OnlyHung
    <2> QED
        BY <2>1, <2>2, <2>3
<1>13. r.child[z][c] = n
    <2>1. r.child[z][c] = b.child[z][c]
        BY <1>10 DEF OnlyHung
    <2>2. b.child[z][c] = n
        BY <1>8 DEF OnlyHung
    <2> QED
        BY <2>1, <2>2
<1>14. ASSUME NEW y \in SetSide, NEW m \in Word, (m = n => y # s) /\ (m = c => y # z) /\ (m = q => y # u)
       PROVE  r.child[y][m] = t.child[y][m]
    <2>1. r.child[y][m] = b.child[y][m]
        BY <1>10, <1>14 DEF OnlyHung
    <2>2. b.child[y][m] = a.child[y][m]
        BY <1>8, <1>14 DEF OnlyHung
    <2>3. a.child[y][m] = t.child[y][m]
        BY <1>7, <1>14 DEF OnlyHung
    <2> QED
        BY <2>1, <2>2, <2>3
<1> QED
    BY <1>1, <1>2, <1>11, <1>12, <1>13, <1>14 DEF IsTurned

\* What n, on side u of q, and its child c on side s lead to when c comes up.
TurnedR(R, n, c, s) ==
    [m \in Word |-> IF m = c THEN R[n]
                    ELSE IF m = n THEN {k \in R[n] : k # c /\ Way(c, k) = Turned(s)}
                    ELSE R[m]]
TurnedE(E, n, c, s) == [k \in Word |-> IF E[k] = c /\ k # c /\ Way(c, k) = Turned(s) THEN n ELSE E[k]]

\* c hangs under n, on side s, and n under q.
Under(t, A, R, E, q, u, n, s, c) ==
    /\ SetLeads(t, A, R, E) /\ OneAbove(t) /\ q \in Word /\ n \in Word /\ c \in Word /\ u \in SetSide /\ s \in SetSide
    /\ t.child[u][q] = n /\ t.child[s][n] = c

LEMMA UnderFacts ==
    ASSUME NEW t, NEW A, NEW R, NEW E, NEW q, NEW u, NEW n, NEW s, NEW c, Under(t, A, R, E, q, u, n, s, c)
    PROVE  /\ q \in A /\ n \in A /\ c \in A /\ n # c /\ q # n /\ q # c /\ Way(n, c) = s
           /\ t.head \in A /\ t.head # n /\ t.head # c
           /\ \A k \in Word : k \in R[n] <=> k \in R[q] /\ k # q /\ Way(q, k) = u
           /\ \A k \in Word : k \in R[c] <=> k \in R[n] /\ k # n /\ Way(n, k) = s
           /\ n \in R[n] /\ c \in R[c] /\ c \in R[n] /\ n \in R[q]
<1>1. n # NoWord /\ c # NoWord
    BY WordAssumption DEF Under
<1>2. q \in A /\ n \in A
    BY <1>1 DEF Under, SetLeads
<1>3. c \in A
    BY <1>1, <1>2 DEF Under, SetLeads
<1>4. \A k \in Word : k \in R[n] <=> k \in R[q] /\ k # q /\ Way(q, k) = u
    BY <1>1, <1>2 DEF Under, SetLeads
<1>5. \A k \in Word : k \in R[c] <=> k \in R[n] /\ k # n /\ Way(n, k) = s
    BY <1>1, <1>2 DEF Under, SetLeads
<1>6. n \in R[n] /\ c \in R[c] /\ n \in Word /\ c \in Word
    BY <1>2, <1>3 DEF Under, SetLeads
<1>7. t.head \in A /\ t.head # n /\ t.head # c
    BY <1>1, <1>2 DEF Under, SetLeads, OneAbove
<1> QED
    BY <1>2, <1>3, <1>4, <1>5, <1>6, <1>7

LEMMA TurnLeads ==
    ASSUME NEW t, NEW A, NEW R, NEW E, NEW q, NEW u, NEW n, NEW s, NEW c, Under(t, A, R, E, q, u, n, s, c),
           NEW r, r = TurnUnder(t, q, u, n, s)
    PROVE  SetLeads(r, A, TurnedR(R, n, c, s), TurnedE(E, n, c, s)) /\ OneAbove(r)
<1>1. /\ q \in A /\ n \in A /\ c \in A /\ n # c /\ q # n /\ q # c /\ Way(n, c) = s
      /\ t.head \in A /\ t.head # n /\ t.head # c
    BY UnderFacts
<1>2. /\ \A k \in Word : k \in R[n] <=> k \in R[q] /\ k # q /\ Way(q, k) = u
      /\ \A k \in Word : k \in R[c] <=> k \in R[n] /\ k # n /\ Way(n, k) = s
      /\ n \in R[n] /\ c \in R[c] /\ c \in R[n]
    BY UnderFacts
<1>3. t \in SetTree /\ A \subseteq Word /\ q \in Word /\ n \in Word /\ c \in Word /\ u \in SetSide /\ s \in SetSide
      /\ t.child[u][q] = n /\ t.child[s][n] = c
    BY DEF Under, SetLeads
<1>4. PICK z \in SetSide : z = Turned(s) /\ z # s /\ \A y \in SetSide : y = s \/ y = z
    BY <1>3, SetSides
<1>5. PICK x \in WordOrNone : x = t.child[z][c]
    BY <1>3, TreeFieldsOf
<1>6. /\ r \in SetTree /\ r.head = t.head /\ r.red = t.red
      /\ r.child[s][n] = x /\ r.child[z][c] = n /\ r.child[u][q] = c
      /\ \A y \in SetSide, m \in Word :
           (m = n => y # s) /\ (m = c => y # z) /\ (m = q => y # u) => r.child[y][m] = t.child[y][m]
    <2>1. IsTurned(r, t, q, u, n, s, c)
        BY <1>1, <1>3, TurnFields
    <2> QED
        BY <2>1, <1>4, <1>5 DEF IsTurned
<1>7. PICK R2 : R2 = TurnedR(R, n, c, s)
    OBVIOUS
<1>8. /\ \A k : k \in R2[c] <=> k \in R[n]
      /\ \A k : k \in R2[n] <=> k \in R[n] /\ k # c /\ Way(c, k) = z
      /\ \A m \in Word : m # c /\ m # n => R2[m] = R[m]
    BY <1>1, <1>3, <1>4, <1>7 DEF TurnedR
<1>9. PICK E2 : E2 = TurnedE(E, n, c, s)
    OBVIOUS
<1>10. \A k \in Word : E2[k] = IF E[k] = c /\ k # c /\ Way(c, k) = z THEN n ELSE E[k]
    BY <1>4, <1>9 DEF TurnedE
<1>11. \A k \in Word : /\ Way(n, k) # s => Way(c, k) = z /\ k # c
                       /\ k = n => Way(c, k) = z
                       /\ k # c /\ Way(c, k) = s => Way(n, k) = s /\ k # n
    BY <1>1, <1>3, <1>4, WaysAgree
<1>12. \A m \in A : m \in R[m]
    BY DEF Under, SetLeads
<1>13. \A m \in A, y \in SetSide : t.child[y][m] # NoWord =>
           /\ t.child[y][m] \in A
           /\ \A k \in Word : k \in R[t.child[y][m]] <=> k \in R[m] /\ k # m /\ Way(m, k) = y
    BY DEF Under, SetLeads
<1>14. /\ \A a, b \in Word, y, v \in SetSide :
            t.child[y][a] # NoWord /\ t.child[y][a] = t.child[v][b] => a = b /\ y = v
       /\ \A a \in Word, y \in SetSide : t.child[y][a] # t.head
    BY <1>1, WordAssumption DEF Under, SetLeads, OneAbove
<1>15. n # NoWord /\ c # NoWord
    BY <1>3, WordAssumption
<1>16. x # NoWord => /\ x \in A /\ x # c /\ x # n
                     /\ \A k \in Word : k \in R[x] <=> k \in R[c] /\ k # c /\ Way(c, k) = z
    BY <1>1, <1>2, <1>3, <1>5, <1>12, <1>13
<1>17. ASSUME NEW m \in A, NEW y \in SetSide, r.child[y][m] # NoWord
       PROVE  /\ r.child[y][m] \in A
              /\ \A k \in Word : k \in R2[r.child[y][m]] <=> k \in R2[m] /\ k # m /\ Way(m, k) = y
    <2>1. CASE m = q /\ y = u
        BY <2>1, <1>1, <1>2, <1>3, <1>6, <1>8
    <2>2. CASE m = n /\ y = s
        BY <2>2, <1>1, <1>2, <1>3, <1>6, <1>8, <1>16, <1>17
    <2>3. CASE m = c /\ y = z
        BY <2>3, <1>1, <1>3, <1>6, <1>8
    <2>4. CASE m = n /\ y = z
        <3>1. PICK v \in A : /\ v = r.child[y][m] /\ v = t.child[z][n]
                             /\ \A k \in Word : k \in R[v] <=> k \in R[n] /\ k # n /\ Way(n, k) = z
            BY <2>4, <1>1, <1>3, <1>4, <1>6, <1>13, <1>17
        <3>2. v # n /\ v # c
            BY <3>1, <1>3, <1>4, <1>12, <1>14, <1>15
        <3>3. \A k \in Word : k \in R2[v] <=> k \in R[n] /\ k # n /\ Way(n, k) = z
            BY <3>1, <3>2, <1>3, <1>8
        <3> QED
            BY <2>4, <3>1, <3>3, <1>4, <1>8, <1>11
    <2>5. CASE m = c /\ y = s
        <3>1. PICK v \in A : /\ v = r.child[y][m] /\ v = t.child[s][c]
                             /\ \A k \in Word : k \in R[v] <=> k \in R[c] /\ k # c /\ Way(c, k) = s
            BY <2>5, <1>1, <1>3, <1>4, <1>6, <1>13, <1>17
        <3>2. v # c /\ v # n
            BY <3>1, <1>2, <1>3, <1>12
        <3>3. \A k \in Word : k \in R2[v] <=> k \in R[c] /\ k # c /\ Way(c, k) = s
            BY <3>1, <3>2, <1>3, <1>8
        <3> QED
            BY <2>5, <3>1, <3>3, <1>2, <1>8, <1>11
    <2>6. CASE m # n /\ m # c /\ ~(m = q /\ y = u)
        <3>1. PICK v \in A : /\ v = r.child[y][m] /\ v = t.child[y][m]
                             /\ \A k \in Word : k \in R[v] <=> k \in R[m] /\ k # m /\ Way(m, k) = y
            BY <2>6, <1>3, <1>6, <1>13, <1>17
        <3>2. v # c /\ v # n
            BY <3>1, <2>6, <1>3, <1>14, <1>15
        <3> QED
            BY <2>6, <3>1, <3>2, <1>3, <1>8
    <2> QED
        BY <2>1, <2>2, <2>3, <2>4, <2>5, <2>6, <1>4
<1>18. \A m \in A, k \in Word : k \in R[m] /\ (k = m \/ t.child[Way(m, k)][m] = NoWord) => E[k] = m
    BY DEF Under, SetLeads
<1>19. ASSUME NEW m \in A, NEW k \in Word, k \in R2[m], k = m \/ r.child[Way(m, k)][m] = NoWord PROVE E2[k] = m
    <2>0. Way(m, k) \in SetSide /\ m \in Word
        BY <1>3, SetSides
    <2>1. CASE m = n
        <3>1. k \in R[n] /\ k # c /\ Way(c, k) = z
            BY <2>1, <1>8, <1>19
        <3>2. CASE k = n
            <4>1. E[k] = n
                BY <3>1, <3>2, <1>1, <1>18
            <4> QED
                BY <2>1, <4>1, <1>10
        <3>3. CASE k # n /\ Way(n, k) = z
            <4>1. t.child[z][n] = NoWord
                BY <2>1, <3>3, <1>1, <1>3, <1>4, <1>6, <1>19
            <4>2. E[k] = n
                BY <3>1, <3>3, <4>1, <1>1, <1>18
            <4> QED
                BY <2>1, <4>2, <1>10
        <3>4. CASE k # n /\ Way(n, k) = s
            <4>1. t.child[z][c] = NoWord
                BY <2>1, <3>4, <1>5, <1>6, <1>19
            <4>2. k \in R[c]
                BY <3>1, <3>4, <1>2
            <4>3. E[k] = c
                BY <3>1, <4>1, <4>2, <1>1, <1>18
            <4> QED
                BY <2>1, <3>1, <4>3, <1>10
        <3> QED
            BY <2>0, <2>1, <3>2, <3>3, <3>4, <1>4
    <2>2. CASE m = c
        <3>1. k \in R[n]
            BY <2>2, <1>8, <1>19
        <3>2. CASE k = c
            <4>1. E[k] = c
                BY <3>2, <1>1, <1>2, <1>18
            <4> QED
                BY <2>2, <3>2, <4>1, <1>10
        <3>3. CASE k # c
            <4>1. Way(c, k) = s /\ t.child[s][c] = NoWord
                BY <2>0, <2>2, <3>3, <1>1, <1>3, <1>4, <1>6, <1>15, <1>19
            <4>2. k \in R[c]
                BY <3>1, <3>3, <4>1, <1>2, <1>11
            <4>3. E[k] = c
                BY <4>1, <4>2, <1>1, <1>18
            <4> QED
                BY <2>2, <4>1, <4>3, <1>4, <1>10
        <3> QED
            BY <3>2, <3>3
    <2>3. CASE m # n /\ m # c
        <3>1. k \in R[m]
            BY <2>0, <2>3, <1>8, <1>19
        <3>2. k = m \/ t.child[Way(m, k)][m] = NoWord
            BY <2>0, <2>3, <1>6, <1>15, <1>19
        <3>3. E[k] = m
            BY <3>1, <3>2, <1>18
        <3> QED
            BY <2>3, <3>3, <1>10
    <2> QED
        BY <2>1, <2>2, <2>3
<1>20. \A m \in A : m \in R2[m]
    BY <1>1, <1>2, <1>3, <1>8, <1>11, <1>12
<1>21. \A k \in Word : k \in R2[r.head]
    <2>1. t.head \in Word /\ t.head # NoWord /\ \A k \in Word : k \in R[t.head]
        BY <1>1, <1>3, WordAssumption DEF Under, SetLeads
    <2> QED
        BY <2>1, <1>1, <1>6, <1>8
<1>22. \A m \in Word \ A : ~r.red[m] /\ \A y \in SetSide : r.child[y][m] = NoWord
    <2>1. \A m \in Word \ A : ~t.red[m] /\ \A y \in SetSide : t.child[y][m] = NoWord
        BY DEF Under, SetLeads
    <2> QED
        BY <2>1, <1>1, <1>6
<1>23. SetLeads(r, A, R2, E2)
    <2>1. r.head # NoWord /\ r.head \in A
        BY <1>1, <1>3, <1>6, WordAssumption
    <2> QED
        BY <2>1, <1>3, <1>6, <1>17, <1>19, <1>20, <1>21, <1>22 DEF SetLeads
<1>24. ASSUME NEW a \in Word, NEW b \in Word, NEW y \in SetSide, NEW v \in SetSide,
              r.child[y][a] # NoWord, r.child[y][a] = r.child[v][b]
       PROVE  a = b /\ y = v
    <2> DEFINE Same(m, w) == (m = n => w # s) /\ (m = c => w # z) /\ (m = q => w # u)
    <2>1. \A m \in Word, w \in SetSide : Same(m, w) =>
              /\ r.child[w][m] = t.child[w][m]
              /\ t.child[w][m] # NoWord => t.child[w][m] # c /\ t.child[w][m] # n /\ t.child[w][m] # x
        BY <1>3, <1>5, <1>6, <1>14, <1>15
    <2>2. \A m \in Word, w \in SetSide : ~Same(m, w) <=> (m = n /\ w = s) \/ (m = c /\ w = z) \/ (m = q /\ w = u)
        OBVIOUS
    <2>3. r.child[s][n] = x /\ r.child[z][c] = n /\ r.child[u][q] = c /\ n # c /\ (x # NoWord => x # c /\ x # n)
        BY <1>1, <1>6, <1>16
    <2> HIDE DEF Same
    <2>4. CASE Same(a, y) /\ Same(b, v)
        BY <2>1, <2>4, <1>14, <1>24
    <2>5. CASE Same(a, y) /\ ~Same(b, v)
        BY <2>1, <2>2, <2>3, <2>5, <1>24
    <2>6. CASE ~Same(a, y) /\ Same(b, v)
        BY <2>1, <2>2, <2>3, <2>6, <1>24
    <2>7. CASE ~Same(a, y) /\ ~Same(b, v)
        BY <2>2, <2>3, <2>7, <1>24
    <2> QED
        BY <2>4, <2>5, <2>6, <2>7
<1>25. ASSUME NEW a \in Word, NEW y \in SetSide PROVE r.child[y][a] # r.head
    <2>1. x # t.head
        BY <1>1, <1>3, <1>4, <1>5, <1>14
    <2> QED
        BY <2>1, <1>1, <1>6, <1>14
<1> QED
    BY <1>7, <1>9, <1>23, <1>24, <1>25 DEF OneAbove

-----------------------------------------------------------------------------
OnlyColoured(r, t, n, red) ==
    /\ r \in SetTree /\ r.head = t.head /\ r.child = t.child /\ r.red[n] = red
    /\ \A m \in Word : m # n => r.red[m] = t.red[m]

LEMMA NodeColoured ==
    ASSUME NEW t \in SetTree, NEW n \in Word, NEW red \in BOOLEAN, NEW r, r = Coloured(t, n, red)
    PROVE  OnlyColoured(r, t, n, red)
<1>1. PICK h, e, d : t = [head |-> h, child |-> e, red |-> d] /\ h = t.head /\ e = t.child /\ d = t.red
    BY TreeFieldsOf
<1>2. PICK f : f = [d EXCEPT ![n] = red]
    OBVIOUS
<1>3. r = [head |-> h, child |-> e, red |-> f]
    BY <1>1, <1>2 DEF Coloured
<1>4. d \in [Word -> BOOLEAN] /\ h \in WordOrNone /\ e \in [SetSide -> [Word -> WordOrNone]]
    BY <1>1, TreeFieldsOf
<1>5. f \in [Word -> BOOLEAN] /\ f[n] = red /\ \A m \in Word : m # n => f[m] = d[m]
    BY <1>2, <1>4
<1>6. r \in SetTree
    BY <1>3, <1>4, <1>5 DEF SetTree
<1>7. r.head = t.head /\ r.child = t.child /\ r.red = f
    BY <1>1, <1>3
<1> QED
    BY <1>1, <1>5, <1>6, <1>7 DEF OnlyColoured

\* A tree that can be searched.
Searched(t, A, R, E) == SetLeads(t, A, R, E) /\ OneAbove(t)

LEMMA ColouredSearched ==
    ASSUME NEW t, NEW A, NEW R, NEW E, Searched(t, A, R, E), NEW n \in A, NEW red, NEW r, OnlyColoured(r, t, n, red)
    PROVE  Searched(r, A, R, E)
<1>1. r \in SetTree /\ r.head = t.head /\ r.child = t.child
    BY DEF OnlyColoured
<1>2. \A m \in Word \ A : ~r.red[m]
    BY DEF OnlyColoured, Searched, SetLeads
<1>3. SetLeads(r, A, R, E)
    BY <1>1, <1>2 DEF Searched, SetLeads
<1>4. OneAbove(r)
    BY <1>1 DEF Searched, OneAbove
<1> QED
    BY <1>3, <1>4 DEF Searched

\* Four nodes below each other, and what is below them.
Four(t, A, R, E, q, u, g, s, p, z, n) ==
    /\ Searched(t, A, R, E)
    /\ q \in Word /\ u \in SetSide /\ g \in Word /\ s \in SetSide /\ p \in Word /\ z \in SetSide /\ n \in Word
    /\ t.child[u][q] = g /\ t.child[s][g] = p /\ t.child[z][p] = n

LEMMA Below4 ==
    ASSUME NEW t, NEW A, NEW R, NEW E, NEW q, NEW u, NEW g, NEW s, NEW p, NEW z, NEW n, Four(t, A, R, E, q, u, g, s, p, z, n)
    PROVE  /\ q # g /\ q # p /\ q # n /\ g # p /\ g # n /\ p # n
           /\ {q, g, p, n} \subseteq A
           /\ \A y \in SetSide : t.child[y][n] # NoWord => t.child[y][n] \in A \ {q, g, p, n}
<1>0. /\ Searched(t, A, R, E)
      /\ q \in Word /\ u \in SetSide /\ g \in Word /\ s \in SetSide /\ p \in Word /\ z \in SetSide /\ n \in Word
      /\ t.child[u][q] = g /\ t.child[s][g] = p /\ t.child[z][p] = n
    BY DEF Four
<1>1. Under(t, A, R, E, q, u, g, s, p) /\ Under(t, A, R, E, g, s, p, z, n)
    BY <1>0 DEF Searched, Under, SetLeads
<1>2. /\ q \in A /\ g \in A /\ p \in A /\ g # p /\ q # g /\ q # p
      /\ \A k \in Word : k \in R[g] <=> k \in R[q] /\ k # q /\ Way(q, k) = u
      /\ \A k \in Word : k \in R[p] <=> k \in R[g] /\ k # g /\ Way(g, k) = s
    BY <1>1, UnderFacts
<1>3. /\ n \in A /\ p # n /\ g # n
      /\ \A k \in Word : k \in R[n] <=> k \in R[p] /\ k # p /\ Way(p, k) = z
      /\ n \in R[n]
    BY <1>1, UnderFacts
<1>4. q # n
    BY <1>0, <1>2, <1>3
<1>5. ASSUME NEW y \in SetSide, t.child[y][n] # NoWord PROVE t.child[y][n] \in A \ {q, g, p, n}
    <2>1. PICK d \in A : d = t.child[y][n] /\ d \in R[d] /\ \A k \in Word : k \in R[d] <=> k \in R[n] /\ k # n /\ Way(n, k) = y
        BY <1>0, <1>3, <1>5 DEF Searched, SetLeads
    <2>2. d \in Word
        BY <1>0, <2>1 DEF Searched, SetLeads
    <2> QED
        BY <1>0, <2>1, <2>2, <1>2, <1>3
<1> QED
    BY <1>2, <1>3, <1>4, <1>5

IsRed(t, n) == n # NoWord /\ t.red[n]
BothRed(t, n) == \A s \in SetSide : IsRed(t, t.child[s][n])

\* The walk goes past n without turning or adding anything there; Calm, and n is black;
\* Fresh, it goes past the next node below n, unless n is the key that is added.
Stays(t, n) == n # NoWord /\ ~BothRed(t, n)
Calm(t, n) == Stays(t, n) /\ ~t.red[n]
Fresh(t, n, k) == n # k => Stays(t, t.child[Way(n, k)][n])

\* No red node has two red children, but for the head and its children, whose repairs
\* are not finished.
Topmost(t, n) == n = t.head \/ \E s \in SetSide : n = t.child[s][t.head]
Mild(t) == \A n \in Word : ~Topmost(t, n) /\ t.red[n] => ~BothRed(t, n)

\* A red node w.n has come under a red w.p, and the sides above them are remembered.
Broken(t, A, R, E, w) ==
    /\ Searched(t, A, R, E)
    /\ w.p \in Word /\ w.n \in Word /\ Toward(w.pCmp) \in SetSide /\ t.child[Toward(w.pCmp)][w.p] = w.n
    /\ t.red[w.p] /\ t.red[w.n]
    /\ \A s \in SetSide : ~IsRed(t, t.child[s][w.n])
    /\ IF w.g = NoWord THEN w.p = t.head
       ELSE w.g \in Word /\ Toward(w.gCmp) \in SetSide /\ t.child[Toward(w.gCmp)][w.g] = w.p
    /\ \A m \in Word : ~Topmost(t, m) /\ m # w.p /\ t.red[m] => ~BothRed(t, m)
    /\ w.g # NoWord /\ w.gg = NoWord => w.g = t.head
    /\ w.g # NoWord /\ w.gg # NoWord =>
          /\ w.gg \in Word /\ Toward(w.ggCmp) \in SetSide /\ t.child[Toward(w.ggCmp)][w.gg] = w.g
          /\ ~IsRed(t, t.child[Turned(Toward(w.gCmp))][w.g])

\* r is t with g turned under q, its child n on side s coming up black and g going down red.
Risen(r, t, q, u, g, s, n) ==
    /\ r \in SetTree /\ r.head = t.head
    /\ r.child[s][g] = t.child[Turned(s)][n]
    /\ r.child[Turned(s)][n] = g
    /\ r.child[u][q] = n
    /\ \A z \in SetSide, m \in Word :
          (m = g => z # s) /\ (m = n => z # Turned(s)) /\ (m = q => z # u) => r.child[z][m] = t.child[z][m]
    /\ ~r.red[n] /\ r.red[g] /\ \A m \in Word : m # n /\ m # g => r.red[m] = t.red[m]

LEMMA TurnSearched ==
    ASSUME NEW t, NEW A, NEW R, NEW E, Searched(t, A, R, E),
           NEW q \in Word, NEW u \in SetSide, NEW n \in Word, NEW s \in SetSide, NEW c \in Word,
           t.child[u][q] = n, t.child[s][n] = c, NEW r, r = TurnUnder(t, q, u, n, s)
    PROVE  Searched(r, A, TurnedR(R, n, c, s), TurnedE(E, n, c, s)) /\ IsTurned(r, t, q, u, n, s, c)
<1>1. Under(t, A, R, E, q, u, n, s, c)
    BY DEF Under, Searched
<1>2. n # c /\ q # n /\ q # c
    BY <1>1, UnderFacts
<1>3. t \in SetTree
    BY DEF Searched, SetLeads
<1>4. IsTurned(r, t, q, u, n, s, c)
    BY <1>2, <1>3, TurnFields
<1> QED
    BY <1>1, <1>4, TurnLeads DEF Searched

LEMMA OuterRises ==
    ASSUME NEW t, NEW A, NEW R, NEW E, NEW w, Broken(t, A, R, E, w), w.g # NoWord, w.gg # NoWord, w.gCmp = w.pCmp,
           NEW r, r = Repaired(t, w)
    PROVE  /\ Risen(r, t, w.gg, Toward(w.ggCmp), w.g, Toward(w.gCmp), w.p)
           /\ Searched(r, A, TurnedR(R, w.g, w.p, Toward(w.gCmp)), TurnedE(E, w.g, w.p, Toward(w.gCmp)))
<1>1. PICK q \in Word, u \in SetSide, g \in Word, s \in SetSide, p \in Word :
         q = w.gg /\ u = Toward(w.ggCmp) /\ g = w.g /\ s = Toward(w.gCmp) /\ p = w.p
    BY DEF Broken
<1>2. t \in SetTree /\ t.child[u][q] = g /\ t.child[s][g] = p /\ g \in A /\ p \in A /\ Searched(t, A, R, E)
    <2>1. t.child[u][q] = g /\ t.child[s][g] = p /\ Searched(t, A, R, E)
        BY <1>1 DEF Broken
    <2>2. t \in SetTree /\ Under(t, A, R, E, q, u, g, s, p)
        BY <2>1 DEF Searched, SetLeads, Under
    <2> QED
        BY <2>1, <2>2, UnderFacts
<1>3. PICK a : a = Coloured(t, g, TRUE)
    OBVIOUS
<1>4. PICK b : b = TurnUnder(a, q, u, g, s)
    OBVIOUS
<1>5. OnlyColoured(a, t, g, TRUE)
    BY <1>2, <1>3, NodeColoured
<1>6. Searched(a, A, R, E)
    BY <1>2, <1>5, ColouredSearched
<1>7. a.child = t.child /\ a.child[u][q] = g /\ a.child[s][g] = p
    BY <1>2, <1>5 DEF OnlyColoured
<1>8. Searched(b, A, TurnedR(R, g, p, s), TurnedE(E, g, p, s)) /\ IsTurned(b, a, q, u, g, s, p)
    BY <1>4, <1>6, <1>7, TurnSearched
<1>9. b.child[u][q] = p /\ b \in SetTree
    BY <1>8 DEF IsTurned
<1>10. r = Coloured(b, p, FALSE)
    <2>1. r = Coloured(b, b.child[u][q], FALSE)
        BY <1>1, <1>3, <1>4, Zenon DEF Repaired, TurnsParent
    <2> QED
        BY <2>1, <1>9
<1>11. OnlyColoured(r, b, p, FALSE)
    BY <1>9, <1>10, NodeColoured
<1>12. Searched(r, A, TurnedR(R, g, p, s), TurnedE(E, g, p, s))
    BY <1>2, <1>8, <1>11, ColouredSearched
<1>13. g # p
    <2>1. Under(t, A, R, E, q, u, g, s, p)
        BY <1>2 DEF Searched, Under
    <2> QED
        BY <2>1, UnderFacts
<1>14. /\ r \in SetTree /\ r.head = t.head /\ r.child = b.child /\ ~r.red[p]
       /\ \A m \in Word : m # p => r.red[m] = a.red[m]
    BY <1>5, <1>8, <1>11 DEF OnlyColoured, IsTurned
<1>15. a.red[g] /\ \A m \in Word : m # g => a.red[m] = t.red[m]
    BY <1>5 DEF OnlyColoured
<1>16. /\ b.child[s][g] = t.child[Turned(s)][p] /\ b.child[Turned(s)][p] = g /\ b.child[u][q] = p
       /\ \A z \in SetSide, m \in Word :
            (m = g => z # s) /\ (m = p => z # Turned(s)) /\ (m = q => z # u) => b.child[z][m] = t.child[z][m]
    BY <1>7, <1>8 DEF IsTurned
<1>17. Risen(r, t, q, u, g, s, p)
    BY <1>13, <1>14, <1>15, <1>16 DEF Risen
<1> QED
    BY ONLY <1>1, <1>12, <1>17

\* r is t with n, an inner grandchild of g, come up twice: p and g go down on either side.
RisenTwice(r, t, q, u, g, s, p, n) ==
    /\ r \in SetTree /\ r.head = t.head
    /\ r.child[Turned(s)][p] = t.child[s][n]
    /\ r.child[s][n] = p
    /\ r.child[s][g] = t.child[Turned(s)][n]
    /\ r.child[Turned(s)][n] = g
    /\ r.child[u][q] = n
    /\ \A y \in SetSide, m \in Word :
          m # n /\ (m = p => y # Turned(s)) /\ (m = g => y # s) /\ (m = q => y # u) => r.child[y][m] = t.child[y][m]
    /\ ~r.red[n] /\ r.red[g] /\ \A m \in Word : m # n /\ m # g => r.red[m] = t.red[m]

\* r is t with n come up once, under the head, from side z of p.
RisenOnce(r, t, g, s, p, z, n) ==
    /\ r \in SetTree /\ r.head = t.head
    /\ r.child[z][p] = t.child[Turned(z)][n]
    /\ r.child[Turned(z)][n] = p
    /\ r.child[s][g] = n
    /\ \A y \in SetSide, m \in Word :
          (m = n => y # Turned(z)) /\ (m = p => y # z) /\ (m = g => y # s) => r.child[y][m] = t.child[y][m]
    /\ r.red[g] /\ \A m \in Word : m # g => r.red[m] = t.red[m]

\* r is t with n, an outer grandchild of g, come up twice: g goes down on the other side,
\* with p still below it.
RisenPast(r, t, q, u, g, s, p, n) ==
    /\ r \in SetTree /\ r.head = t.head
    /\ r.child[s][p] = t.child[Turned(s)][n]
    /\ r.child[Turned(s)][n] = g
    /\ r.child[u][q] = n
    /\ \A y \in SetSide, m \in Word :
          (m = p => y # s) /\ (m = n => y # Turned(s)) /\ (m = q => y # u) => r.child[y][m] = t.child[y][m]
    /\ ~r.red[n] /\ r.red[g] /\ \A m \in Word : m # n /\ m # g => r.red[m] = t.red[m]

LEMMA ParentTurned ==
    ASSUME NEW t, NEW A, NEW R, NEW E, NEW w, Broken(t, A, R, E, w), w.g # NoWord, w.gCmp # w.pCmp,
           NEW r, r = Repaired(t, w), NEW R1, R1 = TurnedR(R, w.p, w.n, Toward(w.pCmp))
    PROVE  /\ w.gg = NoWord => /\ RisenOnce(r, t, w.g, Toward(w.gCmp), w.p, Toward(w.pCmp), w.n)
                               /\ \E E2 : Searched(r, A, R1, E2)
           /\ w.gg # NoWord =>
                 /\ Toward(w.gCmp) # Toward(w.pCmp) => RisenTwice(r, t, w.gg, Toward(w.ggCmp), w.g, Toward(w.gCmp), w.p, w.n)
                 /\ Toward(w.gCmp) = Toward(w.pCmp) => RisenPast(r, t, w.gg, Toward(w.ggCmp), w.g, Toward(w.gCmp), w.p, w.n)
                 /\ \E E2 : Searched(r, A, TurnedR(R1, w.g, w.n, Toward(w.gCmp)), E2)
<1>1. PICK g \in Word, s \in SetSide, p \in Word, z \in SetSide, n \in Word :
         g = w.g /\ s = Toward(w.gCmp) /\ p = w.p /\ z = Toward(w.pCmp) /\ n = w.n
    BY DEF Broken
<1>2. t.child[s][g] = p /\ t.child[z][p] = n /\ Searched(t, A, R, E) /\ t \in SetTree
    BY <1>1 DEF Broken, Searched, SetLeads
<1>3. PICK x \in SetSide : x = Turned(z) /\ z = Turned(x) /\ x # z
    BY <1>1, SetSides
<1>4. Under(t, A, R, E, g, s, p, z, n)
    BY <1>2 DEF Under, Searched
<1>5. g \in A /\ p \in A /\ n \in A /\ g # p /\ g # n /\ p # n
    BY <1>4, UnderFacts
<1>6. PICK a : a = Coloured(t, g, TRUE)
    OBVIOUS
<1>7. PICK b : b = TurnUnder(a, g, s, p, z)
    OBVIOUS
<1>8. OnlyColoured(a, t, g, TRUE)
    BY <1>2, <1>6, NodeColoured
<1>9. Searched(a, A, R, E)
    BY <1>2, <1>5, <1>8, ColouredSearched
<1>10. a.child = t.child /\ a.child[s][g] = p /\ a.child[z][p] = n
    BY <1>2, <1>8 DEF OnlyColoured
<1>11. PICK F : F = TurnedE(E, p, n, z)
    OBVIOUS
<1>12. Searched(b, A, R1, F) /\ IsTurned(b, a, g, s, p, z, n)
    BY <1>1, <1>7, <1>9, <1>10, <1>11, TurnSearched
<1>13. /\ b \in SetTree /\ b.head = t.head /\ b.red[g] /\ \A m \in Word : m # g => b.red[m] = t.red[m]
       /\ b.child[z][p] = t.child[x][n] /\ b.child[x][n] = p /\ b.child[s][g] = n
       /\ \A y \in SetSide, m \in Word :
            (m = p => y # z) /\ (m = n => y # x) /\ (m = g => y # s) => b.child[y][m] = t.child[y][m]
    <2>1. b.head = a.head /\ b.red = a.red /\ a.head = t.head
        BY <1>8, <1>12 DEF OnlyColoured, IsTurned
    <2>2. a.red[g] /\ \A m \in Word : m # g => a.red[m] = t.red[m]
        BY <1>8 DEF OnlyColoured
    <2>3. /\ b \in SetTree /\ b.child[z][p] = a.child[Turned(z)][n] /\ b.child[Turned(z)][n] = p /\ b.child[s][g] = n
          /\ \A y \in SetSide, m \in Word :
               (m = p => y # z) /\ (m = n => y # Turned(z)) /\ (m = g => y # s) => b.child[y][m] = a.child[y][m]
        BY <1>12 DEF IsTurned
    <2> QED
        BY <2>1, <2>2, <2>3, <1>3, <1>10
<1>14. ASSUME w.gg = NoWord PROVE RisenOnce(r, t, g, s, p, z, n) /\ \E E2 : Searched(r, A, R1, E2)
    <2>1. r = b
        <3>1. r = TurnUnder(Coloured(t, w.g, TRUE), w.g, Toward(w.gCmp), w.p, Toward(w.pCmp))
            BY <1>14, Zenon DEF Repaired, TurnsParent
        <3> QED
            BY <3>1, <1>1, <1>6, <1>7
    <2>2. RisenOnce(r, t, g, s, p, z, n)
        <3>0. x = Turned(z)
            BY <1>3
        <3>1. /\ b.child[z][p] = t.child[Turned(z)][n] /\ b.child[Turned(z)][n] = p /\ b.child[s][g] = n
              /\ \A y \in SetSide, m \in Word :
                   (m = n => y # Turned(z)) /\ (m = p => y # z) /\ (m = g => y # s) => b.child[y][m] = t.child[y][m]
            BY ONLY <3>0, <1>13
        <3> QED
            BY <2>1, <3>1, <1>13 DEF RisenOnce
    <2> QED
        BY <2>1, <2>2, <1>12
<1>15. ASSUME w.gg # NoWord
       PROVE  /\ s # z => RisenTwice(r, t, w.gg, Toward(w.ggCmp), g, s, p, n)
              /\ s = z => RisenPast(r, t, w.gg, Toward(w.ggCmp), g, s, p, n)
              /\ \E E2 : Searched(r, A, TurnedR(R1, g, n, s), E2)
    <2>1. PICK q \in Word, u \in SetSide : q = w.gg /\ u = Toward(w.ggCmp) /\ t.child[u][q] = g
        BY <1>1, <1>15 DEF Broken
    <2>2. q # g /\ q # p /\ q # n
        <3>1. Four(t, A, R, E, q, u, g, s, p, z, n)
            BY <2>1, <1>2 DEF Four
        <3> QED
            BY <3>1, Below4
    <2>3. b.child[u][q] = g
        BY <2>1, <2>2, <1>13
    <2>4. PICK c : c = TurnUnder(b, q, u, g, s)
        OBVIOUS
    <2>5. Searched(c, A, TurnedR(R1, g, n, s), TurnedE(F, g, n, s)) /\ IsTurned(c, b, q, u, g, s, n)
        BY <2>3, <2>4, <1>12, <1>13, TurnSearched
    <2>6. c.child[u][q] = n /\ c \in SetTree
        BY <2>5 DEF IsTurned
    <2>7. r = Coloured(c, n, FALSE)
        <3>1. r = Coloured(c, c.child[u][q], FALSE)
            BY <1>1, <1>6, <1>7, <1>15, <2>1, <2>4, Zenon DEF Repaired, TurnsParent
        <3> QED
            BY <3>1, <2>6
    <2>8. OnlyColoured(r, c, n, FALSE)
        BY <2>6, <2>7, NodeColoured
    <2>9. Searched(r, A, TurnedR(R1, g, n, s), TurnedE(F, g, n, s))
        BY <2>5, <2>8, <1>5, ColouredSearched
    <2>10. PICK v \in SetSide : v = Turned(s) /\ s = Turned(v) /\ v # s
        BY <1>1, SetSides
    <2>11. /\ c.head = b.head /\ c.red = b.red
           /\ c.child[s][g] = b.child[v][n] /\ c.child[v][n] = g /\ c.child[u][q] = n
           /\ \A y \in SetSide, m \in Word :
                (m = g => y # s) /\ (m = n => y # v) /\ (m = q => y # u) => c.child[y][m] = b.child[y][m]
        BY <2>5, <2>10 DEF IsTurned
    <2>12. r \in SetTree /\ r.head = c.head /\ r.child = c.child /\ ~r.red[n] /\ \A m \in Word : m # n => r.red[m] = c.red[m]
        BY <2>8 DEF OnlyColoured
    <2>13. ~r.red[n] /\ r.red[g] /\ \A m \in Word : m # n /\ m # g => r.red[m] = t.red[m]
        BY <2>11, <2>12, <1>5, <1>13
    <2>14. ASSUME s # z PROVE RisenTwice(r, t, q, u, g, s, p, n)
        <3>1. x = s /\ v = z
            BY <2>10, <2>14, <1>1, <1>3, SetSides
        <3>2. /\ r.child[z][p] = t.child[s][n] /\ r.child[s][n] = p /\ r.child[s][g] = t.child[z][n]
              /\ r.child[z][n] = g /\ r.child[u][q] = n
            BY <3>1, <2>2, <2>11, <2>12, <1>3, <1>5, <1>13
        <3>3. \A y \in SetSide, m \in Word :
                  m # n /\ (m = p => y # z) /\ (m = g => y # s) /\ (m = q => y # u) => r.child[y][m] = t.child[y][m]
            BY <2>11, <2>12, <1>13
        <3> QED
            BY <3>1, <3>2, <3>3, <2>10, <2>11, <2>12, <2>13, <1>13 DEF RisenTwice
    <2>15. ASSUME s = z PROVE RisenPast(r, t, q, u, g, s, p, n)
        <3>1. x = v
            BY <2>10, <2>15, <1>3
        <3>2. r.child[s][p] = t.child[v][n] /\ r.child[v][n] = g /\ r.child[u][q] = n /\ r.child[s][g] = t.child[s][g]
            BY <3>1, <2>2, <2>10, <2>11, <2>12, <2>15, <1>2, <1>5, <1>13
        <3>3. \A y \in SetSide, m \in Word :
                  (m = p => y # s) /\ (m = n => y # v) /\ (m = q => y # u) => r.child[y][m] = t.child[y][m]
            BY <3>1, <3>2, <2>11, <2>12, <2>15, <1>5, <1>13
        <3> QED
            BY <3>2, <3>3, <2>10, <2>11, <2>12, <2>13, <1>13 DEF RisenPast
    <2> QED
        BY <2>1, <2>9, <2>14, <2>15
<1> QED
    BY <1>1, <1>14, <1>15

\* g, under q, has p on side s, which has n on side z; p and n are red, n's children are not.
Chain(t, A, R, E, q, u, g, s, p, z, n) ==
    Four(t, A, R, E, q, u, g, s, p, z, n) /\ ~IsRed(t, t.child[Turned(s)][g])

LEMMA BelowChain ==
    ASSUME NEW t, NEW A, NEW R, NEW E, NEW q, NEW u, NEW g, NEW s, NEW p, NEW z, NEW n, Chain(t, A, R, E, q, u, g, s, p, z, n)
    PROVE  /\ q # g /\ q # p /\ q # n /\ g # p /\ g # n /\ p # n
           /\ {q, g, p, n} \subseteq A
           /\ \A y \in SetSide : t.child[y][n] # NoWord => t.child[y][n] \in A \ {q, g, p, n}
<1>1. Four(t, A, R, E, q, u, g, s, p, z, n)
    BY DEF Chain, Four
<1> QED
    BY <1>1, Below4

\* What colours a red node under a red parent leaves right.
Clash(t, p, n) ==
    /\ p \in Word /\ n \in Word /\ t.red[p] /\ t.red[n] /\ \A s \in SetSide : ~IsRed(t, t.child[s][n])
    /\ \A m \in Word : ~Topmost(t, m) /\ m # p /\ t.red[m] => ~BothRed(t, m)

\* Colours are as they were but for one more red node, and c has that one not below it.
MoreRed(r, t, g) == \A m \in Word : r.red[m] => t.red[m] \/ m = g
Unturned(r, t, g, c) ==
    c # g /\ \A y \in SetSide : r.child[y][c] = t.child[y][c] /\ t.child[y][c] \in WordOrNone /\ r.child[y][c] # g

LEMMA CalmStays ==
    ASSUME NEW t, NEW r, NEW g, NEW c \in Word, Calm(t, c), Unturned(r, t, g, c), MoreRed(r, t, g)
    PROVE  Calm(r, c)
<1>1. c # NoWord /\ ~t.red[c] /\ ~BothRed(t, c)
    BY DEF Calm, Stays
<1>2. ~r.red[c]
    BY <1>1 DEF Unturned, MoreRed
<1>3. PICK y \in SetSide : ~IsRed(t, t.child[y][c])
    BY <1>1 DEF BothRed
<1>4. ~IsRed(r, r.child[y][c])
    BY <1>3 DEF IsRed, WordOrNone, Unturned, MoreRed
<1> QED
    BY <1>1, <1>2, <1>4 DEF Calm, Stays, BothRed

LEMMA ParentOnly ==
    ASSUME NEW t, NEW A, NEW R, NEW E, Searched(t, A, R, E),
           NEW a \in Word, NEW b \in Word, NEW y \in SetSide, NEW v \in SetSide, NEW c \in Word, t.child[y][a] = c, t.child[v][b] = c
    PROVE  a = b /\ y = v
<1>1. c # NoWord
    BY WordAssumption
<1> QED
    BY <1>1 DEF Searched, OneAbove

LEMMA HeadIsFirst ==
    ASSUME NEW t, NEW A, NEW R, NEW E, Searched(t, A, R, E), NEW a \in Word, NEW y \in SetSide, NEW c \in Word, t.child[y][a] = c
    PROVE  t.head \in Word /\ t.head \in A /\ c # t.head
<1>1. t.head # NoWord
    BY WordAssumption DEF Searched, SetLeads
<1> QED
    BY <1>1 DEF Searched, OneAbove, SetLeads

LEMMA StaysDeep ==
    ASSUME NEW t, NEW r, r.head = t.head, NEW m, ~Topmost(r, m),
           \A y \in SetSide : m = t.child[y][t.head] => r.child[y][t.head] = t.child[y][t.head]
    PROVE  ~Topmost(t, m)
  BY DEF Topmost

\* p came up under q, black, with n and the red g below it.
LEMMA OuterColours ==
    ASSUME NEW t, NEW A, NEW R, NEW E, NEW q, NEW u, NEW g, NEW s, NEW p, NEW n,
           Chain(t, A, R, E, q, u, g, s, p, s, n), Clash(t, p, n),
           NEW r, NEW R2, NEW E2, Risen(r, t, q, u, g, s, p), Searched(r, A, R2, E2)
    PROVE  /\ Mild(r)
           /\ r.child[u][q] = p /\ r.child[s][p] = n /\ p # r.head
           /\ Stays(r, n)
           /\ (\A y \in SetSide : Calm(t, t.child[y][n])) => \A y \in SetSide : Calm(r, r.child[y][n])
<1>1. /\ q \in Word /\ u \in SetSide /\ g \in Word /\ s \in SetSide /\ p \in Word /\ n \in Word
      /\ t.child[u][q] = g /\ t.child[s][g] = p /\ t.child[s][p] = n
      /\ Searched(t, A, R, E) /\ ~IsRed(t, t.child[Turned(s)][g])
    BY DEF Chain, Four
<1>2. /\ q # g /\ q # p /\ q # n /\ g # p /\ g # n /\ p # n
      /\ \A y \in SetSide : t.child[y][n] # NoWord => t.child[y][n] \in A \ {q, g, p, n}
    BY BelowChain
<1>3. PICK z \in SetSide : z = Turned(s) /\ z # s
    BY <1>1, SetSides
<1>4. /\ r \in SetTree /\ t \in SetTree /\ r.head = t.head
      /\ \A y \in SetSide, m \in Word : r.child[y][m] \in WordOrNone /\ t.child[y][m] \in WordOrNone
    BY <1>1, TreeFieldsOf DEF Risen, Searched, SetLeads
<1>5. /\ r.child[s][g] = t.child[z][p] /\ r.child[z][p] = g /\ r.child[u][q] = p
      /\ \A y \in SetSide, m \in Word :
            (m = g => y # s) /\ (m = p => y # z) /\ (m = q => y # u) => r.child[y][m] = t.child[y][m]
      /\ ~r.red[p] /\ r.red[g] /\ \A m \in Word : m # p /\ m # g => r.red[m] = t.red[m]
    BY <1>3 DEF Risen
<1>6. /\ t.red[p] /\ t.red[n] /\ \A y \in SetSide : ~IsRed(t, t.child[y][n])
      /\ \A m \in Word : ~Topmost(t, m) /\ m # p /\ t.red[m] => ~BothRed(t, m)
    BY DEF Clash
<1>7. t.head \in Word /\ g # t.head /\ p # t.head /\ n # t.head
    BY <1>1, HeadIsFirst
<1>8. \A m \in Word, y \in SetSide : r.child[y][m] = g => m = p /\ y = z
    BY <1>1, <1>5, ParentOnly
<1>9. \A m \in Word, y \in SetSide : r.child[y][m] = p => m = q /\ y = u
    BY <1>1, <1>5, ParentOnly
<1>10. \A m \in Word : r.red[m] => t.red[m] \/ m = g
    BY <1>5, <1>6
<1>11. \A m \in Word : m # NoWord
    BY WordAssumption
<1>12. \A m \in Word, y \in SetSide :
          ~IsRed(t, t.child[y][m]) /\ r.child[y][m] = t.child[y][m] /\ r.child[y][m] # g => ~IsRed(r, r.child[y][m])
    BY <1>4, <1>10 DEF IsRed, WordOrNone
<1>13. ASSUME NEW m \in Word, ~Topmost(r, m), r.red[m] PROVE ~BothRed(r, m)
    <2>1. CASE m = g
        <3>1. r.child[z][g] = t.child[z][g] /\ r.child[z][g] # g /\ ~IsRed(t, t.child[z][g])
            BY <1>1, <1>2, <1>3, <1>5, <1>8
        <3>2. ~IsRed(r, r.child[z][g])
            BY <3>1, <1>1, <1>12
        <3> QED
            BY <2>1, <3>2 DEF BothRed
    <2>2. CASE m = q
        <3>1. ~IsRed(r, r.child[u][q])
            BY <1>5 DEF IsRed
        <3> QED
            BY <2>2, <3>1, <1>1 DEF BothRed
    <2>3. CASE m # g /\ m # q
        <3>1. m # p /\ t.red[m]
            BY <1>5, <1>13, <2>3
        <3>0. ~Topmost(t, m)
            BY <2>3, <1>1, <1>4, <1>5, <1>7, <1>13, StaysDeep
        <3>2. PICK y \in SetSide : ~IsRed(t, t.child[y][m])
            BY <3>0, <3>1, <1>6 DEF BothRed
        <3>3. r.child[y][m] = t.child[y][m] /\ r.child[y][m] # g
            BY <3>1, <2>3, <1>5, <1>8
        <3> QED
            BY <3>2, <3>3, <1>12 DEF BothRed
    <2> QED
        BY <2>1, <2>2, <2>3
<1>15. Mild(r)
    BY <1>13 DEF Mild
<1>16. r.child[s][p] = n /\ \A y \in SetSide : r.child[y][n] = t.child[y][n] /\ r.child[y][n] # g
    BY <1>1, <1>2, <1>3, <1>5, <1>8
<1>17. Stays(r, n)
    <2>1. ~IsRed(r, r.child[s][n])
        BY <1>1, <1>6, <1>12, <1>16
    <2> QED
        BY <2>1, <1>1, <1>11 DEF Stays, BothRed
<1>18. ASSUME \A y \in SetSide : Calm(t, t.child[y][n]), NEW y \in SetSide PROVE Calm(r, r.child[y][n])
    <2>1. PICK c \in Word : c = t.child[y][n] /\ c = r.child[y][n] /\ Calm(t, c)
        BY <1>1, <1>4, <1>16, <1>18 DEF Calm, Stays, WordOrNone
    <2>2. c # q /\ c # g /\ c # p
        BY <2>1, <1>2, <1>11
    <2>3. Unturned(r, t, g, c)
        BY <2>1, <2>2, <1>4, <1>5, <1>8 DEF Unturned
    <2>4. Calm(r, c)
        BY <2>1, <2>3, <1>10, CalmStays DEF MoreRed
    <2> QED
        BY <2>1, <2>4
<1> QED
    BY <1>4, <1>5, <1>7, <1>15, <1>16, <1>17, <1>18

\* n came up twice: p and the red g are below it.
LEMMA InnerColours ==
    ASSUME NEW t, NEW A, NEW R, NEW E, NEW q, NEW u, NEW g, NEW s, NEW p, NEW n,
           Chain(t, A, R, E, q, u, g, s, p, Turned(s), n), Clash(t, p, n),
           NEW r, NEW R2, NEW E2, RisenTwice(r, t, q, u, g, s, p, n), Searched(r, A, R2, E2)
    PROVE  /\ Mild(r)
           /\ r.child[u][q] = n /\ r.child[s][n] = p /\ r.child[Turned(s)][n] = g /\ n # r.head
           /\ Stays(r, p) /\ Stays(r, g)
           /\ (\A y \in SetSide : Calm(t, t.child[y][n])) =>
                 Calm(r, r.child[Turned(s)][p]) /\ Calm(r, r.child[s][g])
<1>1. PICK z \in SetSide : z = Turned(s) /\ s = Turned(z) /\ z # s
    BY SetSides DEF Chain, Four
<1>2. /\ q \in Word /\ u \in SetSide /\ g \in Word /\ s \in SetSide /\ p \in Word /\ n \in Word
      /\ t.child[u][q] = g /\ t.child[s][g] = p /\ t.child[z][p] = n
      /\ Searched(t, A, R, E)
    BY <1>1 DEF Chain, Four
<1>3. /\ q # g /\ q # p /\ q # n /\ g # p /\ g # n /\ p # n
      /\ \A y \in SetSide : t.child[y][n] # NoWord => t.child[y][n] \in A \ {q, g, p, n}
    BY BelowChain
<1>4. /\ r \in SetTree /\ t \in SetTree /\ r.head = t.head
      /\ \A y \in SetSide, m \in Word : r.child[y][m] \in WordOrNone /\ t.child[y][m] \in WordOrNone
    BY <1>2, TreeFieldsOf DEF RisenTwice, Searched, SetLeads
<1>5. /\ r.child[z][p] = t.child[s][n] /\ r.child[s][n] = p /\ r.child[s][g] = t.child[z][n]
      /\ r.child[z][n] = g /\ r.child[u][q] = n
      /\ \A y \in SetSide, m \in Word :
            m # n /\ (m = p => y # z) /\ (m = g => y # s) /\ (m = q => y # u) => r.child[y][m] = t.child[y][m]
      /\ ~r.red[n] /\ r.red[g] /\ \A m \in Word : m # n /\ m # g => r.red[m] = t.red[m]
    BY <1>1 DEF RisenTwice
<1>6. /\ t.red[p] /\ t.red[n] /\ \A y \in SetSide : ~IsRed(t, t.child[y][n])
      /\ \A m \in Word : ~Topmost(t, m) /\ m # p /\ t.red[m] => ~BothRed(t, m)
    BY DEF Clash
<1>7. t.head \in Word /\ g # t.head /\ p # t.head /\ n # t.head
    BY <1>2, HeadIsFirst
<1>8. \A m \in Word, y \in SetSide : r.child[y][m] = g => m = n /\ y = z
    BY <1>2, <1>5, ParentOnly
<1>9. \A m \in Word, y \in SetSide : r.child[y][m] = p => m = n /\ y = s
    BY <1>2, <1>5, ParentOnly
<1>10. \A m \in Word : r.red[m] => t.red[m] \/ m = g
    BY <1>5, <1>6
<1>11. \A m \in Word : m # NoWord
    BY WordAssumption
<1>12. \A m \in Word, y \in SetSide :
          ~IsRed(t, t.child[y][m]) /\ r.child[y][m] = t.child[y][m] /\ r.child[y][m] # g => ~IsRed(r, r.child[y][m])
    BY <1>4, <1>10 DEF IsRed, WordOrNone
<1>13. ~IsRed(r, r.child[z][p]) /\ ~IsRed(r, r.child[s][g])
    <2>1. \A y \in SetSide : ~IsRed(t, t.child[y][n]) /\ t.child[y][n] \in WordOrNone /\ t.child[y][n] # g
        BY <1>2, <1>3, <1>4, <1>6, <1>11
    <2>2. \A y \in SetSide : ~IsRed(r, t.child[y][n])
        BY <2>1, <1>10 DEF IsRed, WordOrNone
    <2> QED
        BY <2>2, <1>2, <1>5
<1>14. ASSUME NEW m \in Word, ~Topmost(r, m), r.red[m] PROVE ~BothRed(r, m)
    <2>1. CASE m = g \/ m = p
        BY <2>1, <1>2, <1>13 DEF BothRed
    <2>2. CASE m = q
        <3>1. ~IsRed(r, r.child[u][q])
            BY <1>5 DEF IsRed
        <3> QED
            BY <2>2, <3>1, <1>2 DEF BothRed
    <2>3. CASE m # g /\ m # q /\ m # p
        <3>1. m # n /\ t.red[m]
            BY <1>5, <1>14, <2>3
        <3>0. ~Topmost(t, m)
            BY <2>3, <1>2, <1>4, <1>5, <1>7, <1>14, StaysDeep
        <3>2. PICK y \in SetSide : ~IsRed(t, t.child[y][m])
            BY <3>0, <3>1, <2>3, <1>6 DEF BothRed
        <3>3. r.child[y][m] = t.child[y][m] /\ r.child[y][m] # g
            BY <3>1, <2>3, <1>5, <1>8
        <3> QED
            BY <3>2, <3>3, <1>12 DEF BothRed
    <2> QED
        BY <2>1, <2>2, <2>3
<1>16. Mild(r)
    BY <1>14 DEF Mild
<1>17. Stays(r, p) /\ Stays(r, g)
    BY <1>2, <1>11, <1>13 DEF Stays, BothRed
<1>18. ASSUME NEW y \in SetSide, Calm(t, t.child[y][n]) PROVE Calm(r, t.child[y][n])
    <2>1. PICK c \in Word : c = t.child[y][n] /\ Calm(t, c)
        BY <1>2, <1>4, <1>18 DEF Calm, Stays, WordOrNone
    <2>2. c # q /\ c # g /\ c # p /\ c # n
        BY <2>1, <1>3, <1>11
    <2>3. Unturned(r, t, g, c)
        BY <2>1, <2>2, <1>4, <1>5, <1>8 DEF Unturned
    <2>4. Calm(r, c)
        BY <2>1, <2>3, <1>10, CalmStays DEF MoreRed
    <2> QED
        BY <2>1, <2>4
<1>19. r.child[u][q] = n /\ r.child[s][n] = p /\ r.child[Turned(s)][n] = g /\ n # r.head
    BY <1>1, <1>4, <1>5, <1>7
<1>20. (\A y \in SetSide : Calm(t, t.child[y][n])) => Calm(r, r.child[Turned(s)][p]) /\ Calm(r, r.child[s][g])
    BY <1>1, <1>2, <1>5, <1>18
<1> QED
    BY <1>16, <1>17, <1>19, <1>20

\* n came up twice, on the side where p was: the red g is below it, and p below g.
LEMMA PastColours ==
    ASSUME NEW t, NEW A, NEW R, NEW E, NEW q, NEW u, NEW g, NEW s, NEW p, NEW n,
           Chain(t, A, R, E, q, u, g, s, p, s, n), Clash(t, p, n),
           NEW r, NEW R2, NEW E2, RisenPast(r, t, q, u, g, s, p, n), Searched(r, A, R2, E2)
    PROVE  /\ Mild(r)
           /\ r.child[u][q] = n /\ r.child[s][n] = t.child[s][n] /\ r.child[Turned(s)][n] = g /\ r.child[s][g] = p
           /\ n # r.head /\ Stays(r, p) /\ Stays(r, g)
           /\ (\A y \in SetSide : Calm(t, t.child[y][n])) => Calm(r, r.child[s][n])
<1>1. PICK z \in SetSide : z = Turned(s) /\ s = Turned(z) /\ z # s
    BY SetSides DEF Chain, Four
<1>2. /\ q \in Word /\ u \in SetSide /\ g \in Word /\ s \in SetSide /\ p \in Word /\ n \in Word
      /\ t.child[u][q] = g /\ t.child[s][g] = p /\ t.child[s][p] = n
      /\ Searched(t, A, R, E) /\ ~IsRed(t, t.child[z][g])
    BY <1>1 DEF Chain, Four
<1>3. /\ q # g /\ q # p /\ q # n /\ g # p /\ g # n /\ p # n
      /\ \A y \in SetSide : t.child[y][n] # NoWord => t.child[y][n] \in A \ {q, g, p, n}
    BY BelowChain
<1>4. /\ r \in SetTree /\ t \in SetTree /\ r.head = t.head
      /\ \A y \in SetSide, m \in Word : r.child[y][m] \in WordOrNone /\ t.child[y][m] \in WordOrNone
    BY <1>2, TreeFieldsOf DEF RisenPast, Searched, SetLeads
<1>5. /\ r.child[s][p] = t.child[z][n] /\ r.child[z][n] = g /\ r.child[u][q] = n
      /\ \A y \in SetSide, m \in Word :
            (m = p => y # s) /\ (m = n => y # z) /\ (m = q => y # u) => r.child[y][m] = t.child[y][m]
      /\ ~r.red[n] /\ r.red[g] /\ \A m \in Word : m # n /\ m # g => r.red[m] = t.red[m]
    BY <1>1 DEF RisenPast
<1>6. /\ t.red[p] /\ t.red[n] /\ \A y \in SetSide : ~IsRed(t, t.child[y][n])
      /\ \A m \in Word : ~Topmost(t, m) /\ m # p /\ t.red[m] => ~BothRed(t, m)
    BY DEF Clash
<1>7. t.head \in Word /\ g # t.head /\ p # t.head /\ n # t.head
    BY <1>2, HeadIsFirst
<1>8. \A m \in Word, y \in SetSide : r.child[y][m] = g => m = n /\ y = z
    BY <1>2, <1>5, ParentOnly
<1>9. r.child[s][g] = p /\ r.child[z][g] = t.child[z][g] /\ r.child[s][n] = t.child[s][n]
    BY <1>1, <1>2, <1>3, <1>5
<1>10. \A m \in Word : r.red[m] => t.red[m] \/ m = g
    BY <1>5, <1>6
<1>11. \A m \in Word : m # NoWord
    BY WordAssumption
<1>12. \A m \in Word, y \in SetSide :
          ~IsRed(t, t.child[y][m]) /\ r.child[y][m] = t.child[y][m] /\ r.child[y][m] # g => ~IsRed(r, r.child[y][m])
    BY <1>4, <1>10 DEF IsRed, WordOrNone
<1>13. ~IsRed(r, r.child[s][p]) /\ ~IsRed(r, r.child[z][g])
    <2>1. ~IsRed(t, t.child[z][n]) /\ t.child[z][n] \in WordOrNone /\ t.child[z][n] # g
        BY <1>2, <1>3, <1>4, <1>6, <1>11
    <2>2. ~IsRed(r, t.child[z][n])
        BY <2>1, <1>10 DEF IsRed, WordOrNone
    <2>3. r.child[z][g] # g
        BY <1>2, <1>3, <1>8
    <2>4. ~IsRed(r, r.child[z][g])
        BY <2>3, <1>2, <1>9, <1>12
    <2> QED
        BY <2>2, <2>4, <1>5
<1>14. ASSUME NEW m \in Word, ~Topmost(r, m), r.red[m] PROVE ~BothRed(r, m)
    <2>1. CASE m = g \/ m = p
        BY <2>1, <1>1, <1>2, <1>13 DEF BothRed
    <2>2. CASE m = q
        <3>1. ~IsRed(r, r.child[u][q])
            BY <1>5 DEF IsRed
        <3> QED
            BY <2>2, <3>1, <1>2 DEF BothRed
    <2>3. CASE m # g /\ m # q /\ m # p
        <3>1. m # n /\ t.red[m]
            BY <1>5, <1>14, <2>3
        <3>2. ~Topmost(t, m)
            BY <2>3, <1>2, <1>4, <1>5, <1>7, <1>14, StaysDeep
        <3>3. PICK y \in SetSide : ~IsRed(t, t.child[y][m])
            BY <3>1, <3>2, <2>3, <1>6 DEF BothRed
        <3>4. r.child[y][m] = t.child[y][m] /\ r.child[y][m] # g
            BY <3>1, <2>3, <1>5, <1>8
        <3> QED
            BY <3>3, <3>4, <1>12 DEF BothRed
    <2> QED
        BY <2>1, <2>2, <2>3
<1>15. Mild(r)
    BY <1>14 DEF Mild
<1>16. Stays(r, p) /\ Stays(r, g)
    BY <1>1, <1>2, <1>11, <1>13 DEF Stays, BothRed
<1>17. ASSUME Calm(t, t.child[s][n]) PROVE Calm(r, r.child[s][n])
    <2>1. PICK c \in Word : c = t.child[s][n] /\ Calm(t, c)
        BY <1>2, <1>4, <1>17 DEF Calm, Stays, WordOrNone
    <2>2. c # q /\ c # g /\ c # p /\ c # n
        BY <2>1, <1>2, <1>3, <1>11
    <2>3. Unturned(r, t, g, c)
        BY <2>1, <2>2, <1>4, <1>5, <1>8 DEF Unturned
    <2>4. Calm(r, c)
        BY <2>1, <2>3, <1>10, CalmStays DEF MoreRed
    <2> QED
        BY <2>1, <2>4, <1>9
<1> QED
    BY <1>1, <1>2, <1>4, <1>5, <1>7, <1>9, <1>15, <1>16, <1>17

\* n came up once, under the head g, and p is below it.
LEMMA OnceColours ==
    ASSUME NEW t, NEW A, NEW R, NEW E, NEW g \in Word, NEW s \in SetSide, NEW p, NEW z \in SetSide, NEW n,
           Searched(t, A, R, E), t.head = g, t.child[s][g] = p, t.child[z][p] = n, Clash(t, p, n),
           NEW r, NEW R2, NEW E2, RisenOnce(r, t, g, s, p, z, n), Searched(r, A, R2, E2)
    PROVE  /\ Mild(r)
           /\ r.child[Turned(z)][n] = p /\ r.child[z][n] = t.child[z][n] /\ n # r.head
           /\ Stays(r, p)
           /\ (\A y \in SetSide : Calm(t, t.child[y][n])) =>
                 Calm(r, r.child[z][p]) /\ Calm(r, r.child[z][n])
<1>1. PICK x \in SetSide : x = Turned(z) /\ z = Turned(x) /\ x # z
    BY SetSides
<1>2. p \in Word /\ n \in Word /\ t.child[s][g] = p /\ t.child[z][p] = n
    BY DEF Clash
<1>3. /\ g # p /\ g # n /\ p # n
      /\ \A y \in SetSide : t.child[y][n] # NoWord => t.child[y][n] # p /\ t.child[y][n] # n
    <2>1. Under(t, A, R, E, g, s, p, z, n)
        BY <1>2 DEF Under, Searched
    <2>2. g # p /\ g # n /\ p # n /\ (\A k \in Word : k \in R[n] <=> k \in R[p] /\ k # p /\ Way(p, k) = z) /\ n \in A
        BY <2>1, UnderFacts
    <2>3. ASSUME NEW y \in SetSide, t.child[y][n] # NoWord PROVE t.child[y][n] # p /\ t.child[y][n] # n
        <3>1. PICK d \in A : d = t.child[y][n] /\ d \in R[d] /\ \A k \in Word : k \in R[d] <=> k \in R[n] /\ k # n /\ Way(n, k) = y
            BY <2>2, <2>3 DEF Searched, SetLeads
        <3>2. d \in Word
            BY <3>1 DEF Searched, SetLeads
        <3> QED
            BY <3>1, <3>2, <2>2
    <2> QED
        BY <2>2, <2>3
<1>4. /\ r \in SetTree /\ t \in SetTree /\ r.head = t.head
      /\ \A y \in SetSide, m \in Word : r.child[y][m] \in WordOrNone /\ t.child[y][m] \in WordOrNone
    BY TreeFieldsOf DEF RisenOnce, Searched, SetLeads
<1>5. /\ r.child[z][p] = t.child[x][n] /\ r.child[x][n] = p /\ r.child[s][g] = n
      /\ \A y \in SetSide, m \in Word :
            (m = n => y # x) /\ (m = p => y # z) /\ (m = g => y # s) => r.child[y][m] = t.child[y][m]
      /\ r.red[g] /\ \A m \in Word : m # g => r.red[m] = t.red[m]
    BY <1>1 DEF RisenOnce
<1>6. /\ t.red[p] /\ t.red[n] /\ \A y \in SetSide : ~IsRed(t, t.child[y][n])
      /\ \A m \in Word : ~Topmost(t, m) /\ m # p /\ t.red[m] => ~BothRed(t, m)
    BY DEF Clash
<1>7. \A m \in Word, y \in SetSide : r.child[y][m] # g /\ t.child[y][m] # g
    BY <1>4, HeadIsFirst
<1>8. \A m \in Word, y \in SetSide : r.child[y][m] = p => m = n /\ y = x
    BY <1>2, <1>5, ParentOnly
<1>9. \A m \in Word, y \in SetSide : t.child[y][m] = n => m = p /\ y = z
    BY <1>2, ParentOnly
<1>10. \A m \in Word : r.red[m] => t.red[m] \/ m = g
    BY <1>5
<1>11. \A m \in Word : m # NoWord
    BY WordAssumption
<1>12. \A m \in Word, y \in SetSide : ~IsRed(t, t.child[y][m]) => ~IsRed(r, t.child[y][m])
    BY <1>4, <1>7, <1>10 DEF IsRed, WordOrNone
<1>13. r.child[z][n] = t.child[z][n] /\ ~IsRed(r, r.child[z][n]) /\ ~IsRed(r, r.child[z][p])
    BY <1>1, <1>2, <1>3, <1>5, <1>6, <1>12
<1>14. ASSUME NEW m \in Word, ~Topmost(r, m), r.red[m] PROVE ~BothRed(r, m)
    <2>1. CASE m = n \/ m = p
        BY <2>1, <1>2, <1>13 DEF BothRed
    <2>2. CASE m # n /\ m # p
        <3>1. m # g /\ t.red[m]
            BY <1>4, <1>5, <1>14 DEF Topmost
        <3>0. ~Topmost(t, m)
            BY <2>2, <1>2, <1>3, <1>4, <1>5, <1>14, StaysDeep
        <3>2. PICK y \in SetSide : ~IsRed(t, t.child[y][m])
            BY <3>0, <3>1, <2>2, <1>6 DEF BothRed
        <3>3. r.child[y][m] = t.child[y][m]
            BY <3>1, <2>2, <1>5
        <3> QED
            BY <3>2, <3>3, <1>12 DEF BothRed
    <2> QED
        BY <2>1, <2>2
<1>16. Mild(r)
    BY <1>14 DEF Mild
<1>17. Stays(r, p)
    BY <1>2, <1>11, <1>13 DEF Stays, BothRed
<1>18. ASSUME NEW y \in SetSide, Calm(t, t.child[y][n]) PROVE Calm(r, t.child[y][n])
    <2>1. PICK c \in Word : c = t.child[y][n] /\ Calm(t, c)
        BY <1>2, <1>4, <1>18 DEF Calm, Stays, WordOrNone
    <2>2. c # g /\ c # p /\ c # n
        BY <2>1, <1>2, <1>3, <1>7, <1>11
    <2>3. Unturned(r, t, g, c)
        BY <2>1, <2>2, <1>4, <1>5, <1>7 DEF Unturned
    <2>4. Calm(r, c)
        BY <2>1, <2>3, <1>10, CalmStays DEF MoreRed
    <2> QED
        BY <2>1, <2>4
<1>19. r.child[Turned(z)][n] = p /\ r.child[z][n] = t.child[z][n] /\ n # r.head
    BY <1>1, <1>3, <1>4, <1>5, <1>13
<1>20. (\A y \in SetSide : Calm(t, t.child[y][n])) => Calm(r, r.child[z][p]) /\ Calm(r, r.child[z][n])
    BY <1>1, <1>2, <1>5, <1>13, <1>18
<1> QED
    BY <1>16, <1>17, <1>19, <1>20

\* The head reddens, above p and n on the same side.
HeadChain(t, A, R, E, g, s, p, n) ==
    /\ Searched(t, A, R, E) /\ g \in Word /\ s \in SetSide
    /\ t.head = g /\ t.child[s][g] = p /\ t.child[s][p] = n /\ Clash(t, p, n)

LEMMA HeadColours ==
    ASSUME NEW t, NEW A, NEW R, NEW E, NEW g, NEW s, NEW p, NEW n, HeadChain(t, A, R, E, g, s, p, n),
           NEW r, OnlyColoured(r, t, g, TRUE)
    PROVE  /\ Mild(r)
           /\ \A y \in SetSide : ~IsRed(r, r.child[y][n])
           /\ (\A y \in SetSide : Calm(t, t.child[y][n])) => \A y \in SetSide : Calm(r, r.child[y][n])
<1>0. /\ Searched(t, A, R, E) /\ g \in Word /\ s \in SetSide
      /\ t.head = g /\ t.child[s][g] = p /\ t.child[s][p] = n /\ Clash(t, p, n)
    BY DEF HeadChain
<1>1. PICK z \in SetSide : z = Turned(s) /\ z # s
    BY <1>0, SetSides
<1>2. p \in Word /\ n \in Word /\ t.child[s][p] = n
    BY <1>0 DEF Clash
<1>3. /\ r \in SetTree /\ t \in SetTree /\ r.head = t.head
      /\ \A y \in SetSide, m \in Word : r.child[y][m] \in WordOrNone /\ t.child[y][m] \in WordOrNone
    BY <1>0, TreeFieldsOf DEF OnlyColoured, Searched, SetLeads
<1>4. r.child = t.child /\ r.red[g] /\ \A m \in Word : m # g => r.red[m] = t.red[m]
    BY <1>0 DEF OnlyColoured
<1>5. /\ t.red[p] /\ t.red[n] /\ \A y \in SetSide : ~IsRed(t, t.child[y][n])
      /\ \A m \in Word : ~Topmost(t, m) /\ m # p /\ t.red[m] => ~BothRed(t, m)
    BY <1>0 DEF Clash
<1>6. \A m \in Word, y \in SetSide : t.child[y][m] # g
    BY <1>0, <1>3, HeadIsFirst
<1>8. \A m \in Word : m # NoWord
    BY <1>0, WordAssumption
<1>9. \A m \in Word : r.red[m] => t.red[m] \/ m = g
    BY <1>0, <1>4
<1>10. \A m \in Word, y \in SetSide : ~IsRed(t, t.child[y][m]) => ~IsRed(r, r.child[y][m])
    BY <1>0, <1>3, <1>4, <1>6, <1>9 DEF IsRed, WordOrNone
<1>11. ASSUME NEW m \in Word, ~Topmost(r, m), r.red[m] PROVE ~BothRed(r, m)
    <2>1. m # g /\ m # p /\ ~Topmost(t, m) /\ t.red[m]
        BY <1>0, <1>3, <1>4, <1>11 DEF Topmost
    <2>2. PICK y \in SetSide : ~IsRed(t, t.child[y][m])
        BY <2>1, <1>5 DEF BothRed
    <2> QED
        BY <2>2, <1>10 DEF BothRed
<1>13. Mild(r)
    BY <1>11 DEF Mild
<1>14. \A y \in SetSide : ~IsRed(r, r.child[y][n])
    BY <1>0, <1>2, <1>5, <1>10
<1>15. ASSUME \A y \in SetSide : Calm(t, t.child[y][n]), NEW y \in SetSide PROVE Calm(r, r.child[y][n])
    <2>1. PICK c \in Word : c = t.child[y][n] /\ c = r.child[y][n] /\ Calm(t, c)
        BY <1>0, <1>2, <1>3, <1>4, <1>15 DEF Calm, Stays, WordOrNone
    <2>2. c # g
        BY <1>0, <2>1, <1>2, <1>6
    <2>3. Unturned(r, t, g, c)
        BY <1>0, <2>1, <2>2, <1>3, <1>4, <1>6 DEF Unturned
    <2>4. Calm(r, c)
        BY <1>0, <2>1, <2>3, <1>9, CalmStays DEF MoreRed
    <2> QED
        BY <2>1, <2>4
<1> QED
    BY <1>13, <1>14, <1>15

\* A red head has got a red child.
LEMMA TopColours ==
    ASSUME NEW t, NEW p, NEW n, t.head = p, Clash(t, p, n)
    PROVE  Mild(t)
  BY DEF Clash, Mild, Topmost

\* Where the walk to w.adding can be between two steps.
SetWalk == [adding : WordOrNone, n : WordOrNone, p : WordOrNone, g : WordOrNone, gg : WordOrNone,
            pCmp : Int, gCmp : Int, ggCmp : Int]

OnWay(t, A, R, w) ==
    /\ w.p \in A /\ w.adding \in Word /\ w.adding \in R[w.p] /\ w.p # w.adding
    /\ Toward(w.pCmp) = Way(w.p, w.adding) /\ w.n = t.child[Toward(w.pCmp)][w.p]

Above(t, w) == IF w.g = NoWord THEN w.p = t.head ELSE w.g \in Word /\ t.child[Toward(w.gCmp)][w.g] = w.p

\* Three nodes are remembered, if a repair needs them.
Remembered(t, w) ==
    w.g # NoWord => IF w.g = t.head THEN w.gg = NoWord
                    ELSE w.gg \in Word /\ t.child[Toward(w.ggCmp)][w.gg] = w.g /\ ~BothRed(t, w.g)
Passing(t, A, R, w) ==
    /\ OnWay(t, A, R, w)
    /\ w.n # NoWord => ~BothRed(t, w.n)
    /\ Above(t, w)
    /\ w.p # t.head /\ BothRed(t, w.p) => Fresh(t, w.n, w.adding)
    /\ t.red[w.p] /\ w.n = NoWord => Remembered(t, w)

\* After a repair w.p is w.n, a node that came up, and one step below it w.g is w.p.
OnTop(t, A, R, w) ==
    /\ w.n \in A /\ w.p = w.n /\ w.n # t.head /\ w.adding \in Word /\ w.adding \in R[w.n]
    /\ w.n # w.adding => LET c == t.child[Way(w.n, w.adding)][w.n]
                         IN Stays(t, c) /\ (t.red[c] => Fresh(t, c, w.adding))
Below2(t, A, R, w) ==
    /\ OnWay(t, A, R, w) /\ w.p # t.head /\ w.g = w.p
    /\ Stays(t, w.n) /\ (t.red[w.n] => Fresh(t, w.n, w.adding))
Start(t, w) == w.adding \in Word /\ w.n = t.head /\ w.n \in Word /\ w.p = NoWord /\ w.g = NoWord /\ w.gg = NoWord

LEMMA BrokenClashes ==
    ASSUME NEW t, NEW A, NEW R, NEW E, NEW w, Broken(t, A, R, E, w)
    PROVE  Clash(t, w.p, w.n)
  BY DEF Broken, Clash

LEMMA WalkedOn ==
    ASSUME NEW t, NEW w \in SetWalk, NEW v, v = WalkOn(t, w)
    PROVE  /\ v.adding = w.adding /\ v.g = w.g /\ v.gg = w.gg
           /\ v.pCmp = w.pCmp /\ v.gCmp = w.gCmp /\ v.ggCmp = w.ggCmp
           /\ v.p = IF w.g # NoWord /\ w.gCmp # w.pCmp THEN w.n ELSE w.p
           /\ v.n = IF w.g # NoWord /\ w.gg # NoWord THEN Repaired(t, w).child[Toward(w.ggCmp)][w.gg] ELSE w.n
           /\ (v.n \in WordOrNone => v \in SetWalk)
<1>1. PICK P, N : P = (IF w.g # NoWord /\ w.gCmp # w.pCmp THEN w.n ELSE w.p)
                  /\ N = (IF w.g # NoWord /\ w.gg # NoWord THEN Repaired(t, w).child[Toward(w.ggCmp)][w.gg] ELSE w.n)
    OBVIOUS
<1>2. v = [w EXCEPT !.p = P, !.n = N]
    BY <1>1, Zenon DEF WalkOn, TurnsParent
<1>3. P \in WordOrNone
    BY <1>1 DEF SetWalk
<1>4. /\ v.adding = w.adding /\ v.g = w.g /\ v.gg = w.gg /\ v.p = P /\ v.n = N
      /\ v.pCmp = w.pCmp /\ v.gCmp = w.gCmp /\ v.ggCmp = w.ggCmp
    BY <1>2 DEF SetWalk
<1>5. N \in WordOrNone => v \in SetWalk
    BY <1>2, <1>3 DEF SetWalk
<1> QED
    BY <1>1, <1>4, <1>5

\* r is a repaired t, and v is where the walk, if there was more of the way, goes on in it.
Mended(t, A, R, w, r, v) ==
    \E R2, E2 :
        /\ Searched(r, A, R2, E2) /\ Mild(r)
        /\ OnWay(t, A, R, w) /\ (\A y \in SetSide : Calm(t, t.child[y][w.n])) =>
              v \in SetWalk /\ (OnTop(r, A, R2, v) \/ Passing(r, A, R2, v))

LEMMA OuterMended ==
    ASSUME NEW t, NEW A, NEW R, NEW E, NEW w \in SetWalk, Broken(t, A, R, E, w),
           w.g # NoWord, w.gg # NoWord, w.gCmp = w.pCmp,
           NEW r, r = Repaired(t, w), NEW v, v = WalkOn(t, w)
    PROVE  Mended(t, A, R, w, r, v)
<1>1. PICK q \in Word, u \in SetSide, g \in Word, s \in SetSide, p \in Word, n \in Word :
         q = w.gg /\ u = Toward(w.ggCmp) /\ g = w.g /\ s = Toward(w.gCmp) /\ s = Toward(w.pCmp) /\ p = w.p /\ n = w.n
    BY DEF Broken
<1>2. PICK R2 : R2 = TurnedR(R, g, p, s)
    OBVIOUS
<1>3. PICK E2 : E2 = TurnedE(E, g, p, s)
    OBVIOUS
<1>4. Risen(r, t, q, u, g, s, p) /\ Searched(r, A, R2, E2)
    <2>1. /\ Risen(r, t, w.gg, Toward(w.ggCmp), w.g, Toward(w.gCmp), w.p)
          /\ Searched(r, A, TurnedR(R, w.g, w.p, Toward(w.gCmp)), TurnedE(E, w.g, w.p, Toward(w.gCmp)))
        BY OuterRises
    <2> QED
        BY ONLY <2>1, <1>1, <1>2, <1>3
<1>5. Chain(t, A, R, E, q, u, g, s, p, s, n)
    BY <1>1 DEF Broken, Chain, Four
<1>6. Clash(t, p, n)
    BY <1>1, BrokenClashes
<1>7. /\ Mild(r)
      /\ r.child[u][q] = p /\ r.child[s][p] = n /\ p # r.head
      /\ Stays(r, n)
      /\ (\A y \in SetSide : Calm(t, t.child[y][n])) => \A y \in SetSide : Calm(r, r.child[y][n])
    BY <1>4, <1>5, <1>6, OuterColours
<1>8. ASSUME OnWay(t, A, R, w), \A y \in SetSide : Calm(t, t.child[y][n])
      PROVE  v \in SetWalk /\ OnTop(r, A, R2, v)
    <2>1. PICK k \in Word : k = w.adding /\ k \in R[p] /\ p # k /\ s = Way(p, k) /\ p \in A
        BY <1>1, <1>8 DEF OnWay
    <2>2. v.adding = k /\ v.p = p /\ v.n = p /\ v \in SetWalk
        <3>1. v.n = r.child[u][q]
            BY <1>1, WalkedOn
        <3>2. v.n \in WordOrNone
            BY <3>1, <1>1, <1>7 DEF WordOrNone
        <3> QED
            BY <3>1, <3>2, <2>1, <1>1, <1>7, WalkedOn
    <2>3. k \in R2[p]
        <3>1. g \in A /\ Searched(t, A, R, E) /\ t.child[s][g] = p
            <4>1. {q, g, p, n} \subseteq A
                BY <1>5, BelowChain
            <4> QED
                BY <4>1, <1>5 DEF Chain, Four
        <3>2. k \in R[g]
            <4>1. p # NoWord /\ SetLeads(t, A, R, E)
                BY <3>1, <1>1, WordAssumption DEF Searched
            <4>2. \A j \in Word : j \in R[p] <=> j \in R[g] /\ j # g /\ Way(g, j) = s
                BY <3>1, <4>1, <1>1 DEF SetLeads
            <4> QED
                BY <4>2, <2>1
        <3> QED
            BY <3>2, <1>2, <1>1 DEF TurnedR
    <2>4. Stays(r, n) /\ Fresh(r, n, k)
        BY <1>7, <1>8, SetSides DEF Fresh, Calm
    <2>5. r.child[Way(v.n, v.adding)][v.n] = n
        BY <2>1, <2>2, <1>7
    <2> QED
        BY <2>1, <2>2, <2>3, <2>4, <2>5, <1>7 DEF OnTop
<1> QED
    BY <1>1, <1>4, <1>7, <1>8 DEF Mended

LEMMA InnerMended ==
    ASSUME NEW t, NEW A, NEW R, NEW E, NEW w \in SetWalk, Broken(t, A, R, E, w),
           w.g # NoWord, w.gg # NoWord, w.gCmp # w.pCmp, Toward(w.gCmp) # Toward(w.pCmp),
           NEW r, r = Repaired(t, w), NEW v, v = WalkOn(t, w)
    PROVE  Mended(t, A, R, w, r, v)
<1>1. PICK q \in Word, u \in SetSide, g \in Word, s \in SetSide, p \in Word, z \in SetSide, n \in Word :
         q = w.gg /\ u = Toward(w.ggCmp) /\ g = w.g /\ s = Toward(w.gCmp) /\ z = Toward(w.pCmp) /\ p = w.p /\ n = w.n
    BY DEF Broken
<1>2. z # s /\ z = Turned(s)
    <2>1. z # s
        BY <1>1
    <2> QED
        BY <2>1, <1>1, SetSides
<1>3. PICK R1 : R1 = TurnedR(R, p, n, z)
    OBVIOUS
<1>4. PICK R2 : R2 = TurnedR(R1, g, n, s)
    OBVIOUS
<1>5. PICK E2 : RisenTwice(r, t, q, u, g, s, p, n) /\ Searched(r, A, R2, E2)
    <2>1. R1 = TurnedR(R, w.p, w.n, Toward(w.pCmp))
        BY <1>1, <1>3
    <2>2. RisenTwice(r, t, w.gg, Toward(w.ggCmp), w.g, Toward(w.gCmp), w.p, w.n) /\ \E E2 : Searched(r, A, TurnedR(R1, w.g, w.n, Toward(w.gCmp)), E2)
        BY <2>1, ParentTurned
    <2> QED
        BY ONLY <2>2, <1>1, <1>4
<1>6. Chain(t, A, R, E, q, u, g, s, p, Turned(s), n)
    BY <1>1, <1>2 DEF Broken, Chain, Four
<1>7. Clash(t, p, n)
    BY <1>1, BrokenClashes
<1>8. /\ Mild(r)
      /\ r.child[u][q] = n /\ r.child[s][n] = p /\ r.child[z][n] = g /\ n # r.head
      /\ Stays(r, p) /\ Stays(r, g)
      /\ (\A y \in SetSide : Calm(t, t.child[y][n])) => Calm(r, r.child[z][p]) /\ Calm(r, r.child[s][g])
    BY <1>2, <1>5, <1>6, <1>7, InnerColours
<1>9. ASSUME OnWay(t, A, R, w), \A y \in SetSide : Calm(t, t.child[y][n])
      PROVE  v \in SetWalk /\ OnTop(r, A, R2, v)
    <2>1. PICK k \in Word : k = w.adding /\ k \in R[p] /\ p # k /\ z = Way(p, k) /\ p \in A
        BY <1>1, <1>9 DEF OnWay
    <2>2. v.adding = k /\ v.p = n /\ v.n = n /\ v \in SetWalk
        <3>1. v.n = r.child[u][q] /\ v.n = n
            BY <1>1, <1>8, WalkedOn
        <3>2. v.n \in WordOrNone
            BY <3>1 DEF WordOrNone
        <3>3. w.gCmp # w.pCmp
            OBVIOUS
        <3> QED
            BY <3>1, <3>2, <3>3, <2>1, <1>1, WalkedOn
    <2>3. g \in A /\ n \in A /\ g # n
        <3>1. {q, g, p, n} \subseteq A /\ g # n
            BY <1>6, BelowChain
        <3> QED
            BY <3>1
    <2>4. k \in R[g] /\ k # g /\ Way(g, k) = s
        <3>1. p # NoWord /\ SetLeads(t, A, R, E) /\ t.child[s][g] = p
            BY <1>1, <1>6, WordAssumption DEF Chain, Four, Searched
        <3>2. \A j \in Word : j \in R[p] <=> j \in R[g] /\ j # g /\ Way(g, j) = s
            BY <3>1, <2>3, <1>1 DEF SetLeads
        <3> QED
            BY <3>2, <2>1
    <2>5. k \in R2[n]
        <3>1. R2[n] = R1[g]
            BY <1>1, <1>4 DEF TurnedR
        <3>2. g # p
            BY <1>6, BelowChain
        <3>3. R1[g] = R[g]
            BY <3>2, <2>3, <1>1, <1>3 DEF TurnedR
        <3> QED
            BY <3>1, <3>3, <2>4
    <2>6. Fresh(r, p, k) /\ Fresh(r, g, k)
        BY <2>1, <2>4, <1>8, <1>9 DEF Fresh, Calm
    <2>7. ASSUME n # k, NEW c, c = r.child[Way(n, k)][n] PROVE Stays(r, c) /\ Fresh(r, c, k)
        <3>1. Way(n, k) = s \/ Way(n, k) = z
            BY <1>1, <1>2, SetSides
        <3>2. c = p \/ c = g
            BY <3>1, <2>7, <1>8
        <3> QED
            BY <3>2, <2>6, <1>8
    <2> QED
        BY <2>1, <2>2, <2>3, <2>5, <2>7, <1>8 DEF OnTop
<1> QED
    BY <1>1, <1>5, <1>8, <1>9 DEF Mended

LEMMA PastMended ==
    ASSUME NEW t, NEW A, NEW R, NEW E, NEW w \in SetWalk, Broken(t, A, R, E, w),
           w.g # NoWord, w.gg # NoWord, w.gCmp # w.pCmp, Toward(w.gCmp) = Toward(w.pCmp),
           NEW r, r = Repaired(t, w), NEW v, v = WalkOn(t, w)
    PROVE  Mended(t, A, R, w, r, v)
<1>1. PICK q \in Word, u \in SetSide, g \in Word, s \in SetSide, p \in Word, n \in Word :
         q = w.gg /\ u = Toward(w.ggCmp) /\ g = w.g /\ s = Toward(w.gCmp) /\ s = Toward(w.pCmp) /\ p = w.p /\ n = w.n
    BY DEF Broken
<1>2. PICK z \in SetSide : z = Turned(s) /\ \A y \in SetSide : y = s \/ y = z
    BY <1>1, SetSides
<1>3. PICK R1 : R1 = TurnedR(R, p, n, s)
    OBVIOUS
<1>4. PICK R2 : R2 = TurnedR(R1, g, n, s)
    OBVIOUS
<1>5. PICK E2 : RisenPast(r, t, q, u, g, s, p, n) /\ Searched(r, A, R2, E2)
    <2>1. R1 = TurnedR(R, w.p, w.n, Toward(w.pCmp))
        BY <1>1, <1>3
    <2>2. RisenPast(r, t, w.gg, Toward(w.ggCmp), w.g, Toward(w.gCmp), w.p, w.n) /\ \E E2 : Searched(r, A, TurnedR(R1, w.g, w.n, Toward(w.gCmp)), E2)
        BY <2>1, ParentTurned
    <2> QED
        BY ONLY <2>2, <1>1, <1>4
<1>6. Chain(t, A, R, E, q, u, g, s, p, s, n)
    BY <1>1 DEF Broken, Chain, Four
<1>7. Clash(t, p, n)
    BY <1>1, BrokenClashes
<1>8. /\ Mild(r)
      /\ r.child[u][q] = n /\ r.child[s][n] = t.child[s][n] /\ r.child[z][n] = g /\ r.child[s][g] = p
      /\ n # r.head /\ Stays(r, p) /\ Stays(r, g)
      /\ (\A y \in SetSide : Calm(t, t.child[y][n])) => Calm(r, r.child[s][n])
    BY <1>2, <1>5, <1>6, <1>7, PastColours
<1>9. ASSUME OnWay(t, A, R, w), \A y \in SetSide : Calm(t, t.child[y][n])
      PROVE  v \in SetWalk /\ OnTop(r, A, R2, v)
    <2>1. PICK k \in Word : k = w.adding /\ k \in R[p] /\ p # k /\ s = Way(p, k) /\ p \in A
        BY <1>1, <1>9 DEF OnWay
    <2>2. v.adding = k /\ v.p = n /\ v.n = n /\ v \in SetWalk
        <3>1. v.n = r.child[u][q] /\ v.n = n
            BY <1>1, <1>8, WalkedOn
        <3>2. v.n \in WordOrNone
            BY <3>1 DEF WordOrNone
        <3>3. w.gCmp # w.pCmp
            OBVIOUS
        <3> QED
            BY <3>1, <3>2, <3>3, <2>1, <1>1, WalkedOn
    <2>3. g \in A /\ n \in A /\ g # n
        <3>1. {q, g, p, n} \subseteq A /\ g # n
            BY <1>6, BelowChain
        <3> QED
            BY <3>1
    <2>4. k \in R[g] /\ k # g /\ Way(g, k) = s
        <3>1. p # NoWord /\ SetLeads(t, A, R, E) /\ t.child[s][g] = p
            BY <1>1, <1>6, WordAssumption DEF Chain, Four, Searched
        <3>2. \A j \in Word : j \in R[p] <=> j \in R[g] /\ j # g /\ Way(g, j) = s
            BY <3>1, <2>3, <1>1 DEF SetLeads
        <3> QED
            BY <3>2, <2>1
    <2>5. k \in R2[n]
        <3>1. R2[n] = R1[g]
            BY <1>1, <1>4 DEF TurnedR
        <3>2. g # p
            BY <1>6, BelowChain
        <3>3. R1[g] = R[g]
            BY <3>2, <2>3, <1>1, <1>3 DEF TurnedR
        <3> QED
            BY <3>1, <3>3, <2>4
    <2>6. Fresh(r, g, k)
        BY <2>4, <1>8 DEF Fresh
    <2>7. ASSUME n # k, NEW c, c = r.child[Way(n, k)][n] PROVE Stays(r, c) /\ (r.red[c] => Fresh(r, c, k))
        <3>1. Way(n, k) = s \/ Way(n, k) = z
            BY <1>2, SetSides
        <3>2. c = g \/ Calm(r, c)
            BY <3>1, <2>7, <1>1, <1>8, <1>9
        <3> QED
            BY <3>2, <2>6, <1>8 DEF Calm
    <2> QED
        BY <2>1, <2>2, <2>3, <2>5, <2>7, <1>8 DEF OnTop
<1> QED
    BY <1>1, <1>5, <1>8, <1>9 DEF Mended

LEMMA OnceMended ==
    ASSUME NEW t, NEW A, NEW R, NEW E, NEW w \in SetWalk, Broken(t, A, R, E, w),
           w.g # NoWord, w.gg = NoWord, w.gCmp # w.pCmp,
           NEW r, r = Repaired(t, w), NEW v, v = WalkOn(t, w)
    PROVE  Mended(t, A, R, w, r, v)
<1>1. PICK g \in Word, s \in SetSide, p \in Word, z \in SetSide, n \in Word :
         g = w.g /\ s = Toward(w.gCmp) /\ z = Toward(w.pCmp) /\ p = w.p /\ n = w.n
    BY DEF Broken
<1>2. PICK x \in SetSide : x = Turned(z) /\ \A y \in SetSide : y = x \/ y = z
    BY <1>1, SetSides
<1>3. PICK R1 : R1 = TurnedR(R, p, n, z)
    OBVIOUS
<1>4. PICK E2 : RisenOnce(r, t, g, s, p, z, n) /\ Searched(r, A, R1, E2)
    <2>1. R1 = TurnedR(R, w.p, w.n, Toward(w.pCmp))
        BY <1>1, <1>3
    <2>2. RisenOnce(r, t, w.g, Toward(w.gCmp), w.p, Toward(w.pCmp), w.n) /\ \E E2 : Searched(r, A, R1, E2)
        BY <2>1, ParentTurned
    <2> QED
        BY ONLY <2>2, <1>1
<1>5. Searched(t, A, R, E) /\ t.head = g /\ t.child[s][g] = p /\ t.child[z][p] = n
    BY <1>1 DEF Broken
<1>6. Clash(t, p, n)
    BY <1>1, BrokenClashes
<1>7. /\ Mild(r)
      /\ r.child[x][n] = p /\ r.child[z][n] = t.child[z][n] /\ n # r.head
      /\ Stays(r, p)
      /\ (\A y \in SetSide : Calm(t, t.child[y][n])) => Calm(r, r.child[z][p]) /\ Calm(r, r.child[z][n])
    <2>1. x \in SetSide /\ x = Turned(z)
        BY <1>2
    <2>2. /\ Mild(r)
          /\ r.child[Turned(z)][n] = p /\ r.child[z][n] = t.child[z][n] /\ n # r.head
          /\ Stays(r, p)
          /\ (\A y \in SetSide : Calm(t, t.child[y][n])) => Calm(r, r.child[z][p]) /\ Calm(r, r.child[z][n])
        BY <1>4, <1>5, <1>6, OnceColours
    <2> QED
        BY <2>1, <2>2
<1>8. ASSUME OnWay(t, A, R, w), \A y \in SetSide : Calm(t, t.child[y][n])
      PROVE  v \in SetWalk /\ OnTop(r, A, R1, v)
    <2>1. PICK k \in Word : k = w.adding /\ k \in R[p] /\ p # k /\ z = Way(p, k) /\ p \in A
        BY <1>1, <1>8 DEF OnWay
    <2>2. v.adding = k /\ v.p = n /\ v.n = n /\ v \in SetWalk
        <3>1. v.n = n
            BY <1>1, WalkedOn
        <3>2. v.n \in WordOrNone
            BY <3>1 DEF WordOrNone
        <3>3. w.gCmp # w.pCmp
            OBVIOUS
        <3> QED
            BY <3>1, <3>2, <3>3, <2>1, <1>1, WalkedOn
    <2>3. n \in A
        <3>1. Under(t, A, R, E, g, s, p, z, n)
            BY <1>1, <1>5 DEF Under, Searched
        <3> QED
            BY <3>1, UnderFacts
    <2>4. k \in R1[n]
        BY <2>1, <1>1, <1>3 DEF TurnedR
    <2>5. Fresh(r, p, k)
        BY <2>1, <1>7, <1>8 DEF Fresh, Calm
    <2>6. ASSUME n # k, NEW c, c = r.child[Way(n, k)][n] PROVE Stays(r, c) /\ (r.red[c] => Fresh(r, c, k))
        <3>1. Way(n, k) = x \/ Way(n, k) = z
            BY <1>2, SetSides
        <3>2. c = p \/ c = r.child[z][n]
            BY <3>1, <2>6, <1>7
        <3>3. CASE c = p
            BY <3>3, <2>5, <1>7
        <3>4. CASE c = r.child[z][n]
            BY <3>4, <1>7, <1>8 DEF Calm
        <3> QED
            BY <3>2, <3>3, <3>4
    <2> QED
        BY <2>1, <2>2, <2>3, <2>4, <2>6, <1>7 DEF OnTop
<1> QED
    BY <1>1, <1>4, <1>7, <1>8 DEF Mended

LEMMA OuterTopMended ==
    ASSUME NEW t, NEW A, NEW R, NEW E, NEW w \in SetWalk, Broken(t, A, R, E, w),
           w.g # NoWord, w.gg = NoWord, w.gCmp = w.pCmp,
           NEW r, r = Repaired(t, w), NEW v, v = WalkOn(t, w)
    PROVE  Mended(t, A, R, w, r, v)
<1>1. PICK g \in Word, s \in SetSide, p \in Word, n \in Word :
         g = w.g /\ s = Toward(w.gCmp) /\ s = Toward(w.pCmp) /\ p = w.p /\ n = w.n
    BY DEF Broken
<1>2. Searched(t, A, R, E) /\ t.head = g /\ t.child[s][g] = p /\ t.child[s][p] = n /\ t \in SetTree
    BY <1>1 DEF Broken, Searched, SetLeads
<1>3. Clash(t, p, n)
    BY <1>1, BrokenClashes
<1>4. r = Coloured(t, g, TRUE)
    BY <1>1, Zenon DEF Repaired, TurnsParent
<1>5. OnlyColoured(r, t, g, TRUE)
    BY <1>2, <1>4, NodeColoured
<1>6. g \in A
    BY <1>2, HeadIsFirst
<1>7. Searched(r, A, R, E)
    BY <1>2, <1>5, <1>6, ColouredSearched
<1>8. /\ Mild(r)
      /\ \A y \in SetSide : ~IsRed(r, r.child[y][n])
      /\ (\A y \in SetSide : Calm(t, t.child[y][n])) => \A y \in SetSide : Calm(r, r.child[y][n])
    <2>1. HeadChain(t, A, R, E, g, s, p, n)
        BY <1>1, <1>2, <1>3 DEF HeadChain
    <2> QED
        BY <2>1, <1>5, HeadColours
<1>9. ASSUME OnWay(t, A, R, w), \A y \in SetSide : Calm(t, t.child[y][n])
      PROVE  v \in SetWalk /\ Passing(r, A, R, v)
    <2>1. PICK k \in Word : k = w.adding /\ k \in R[p] /\ p # k /\ s = Way(p, k) /\ p \in A
        BY <1>1, <1>9 DEF OnWay
    <2>2. /\ v.adding = k /\ v.p = p /\ v.n = n /\ Toward(v.pCmp) = s /\ Toward(v.gCmp) = s /\ v.g = g /\ v \in SetWalk
        <3>1. v.n = n
            BY <1>1, WalkedOn
        <3>2. v.n \in WordOrNone
            BY <3>1 DEF WordOrNone
        <3> QED
            BY <3>1, <3>2, <2>1, <1>1, WalkedOn
    <2>3. r.child = t.child /\ n # NoWord /\ g # NoWord
        BY <1>5, WordAssumption DEF OnlyColoured
    <2>4. OnWay(r, A, R, v)
        BY <2>1, <2>2, <2>3, <1>2 DEF OnWay
    <2>5. ~BothRed(r, n)
        BY <1>1, <1>8 DEF BothRed
    <2>6. Fresh(r, n, k)
        BY <1>8, <1>9, SetSides DEF Fresh, Calm
    <2> QED
        BY <2>2, <2>3, <2>4, <2>5, <2>6, <1>2 DEF Passing, Above
<1> QED
    BY <1>1, <1>7, <1>8, <1>9 DEF Mended

LEMMA TopMended ==
    ASSUME NEW t, NEW A, NEW R, NEW E, NEW w \in SetWalk, Broken(t, A, R, E, w), w.g = NoWord,
           NEW r, r = Repaired(t, w), NEW v, v = WalkOn(t, w)
    PROVE  Mended(t, A, R, w, r, v)
<1>1. PICK s \in SetSide, p \in Word, n \in Word : s = Toward(w.pCmp) /\ p = w.p /\ n = w.n
    BY DEF Broken
<1>2. Searched(t, A, R, E) /\ t.head = p /\ t.child[s][p] = n
    BY <1>1 DEF Broken
<1>3. Clash(t, p, n)
    BY <1>1, BrokenClashes
<1>4. r = t
    BY Zenon DEF Repaired
<1>5. Mild(r)
    BY <1>2, <1>3, <1>4, TopColours
<1>6. ASSUME OnWay(t, A, R, w) PROVE v \in SetWalk /\ Passing(r, A, R, v)
    <2>1. /\ v.adding = w.adding /\ v.p = p /\ v.n = n /\ Toward(v.pCmp) = s /\ v.g = NoWord /\ v \in SetWalk
        <3>1. v.n = n
            BY <1>1, WalkedOn
        <3>2. v.n \in WordOrNone
            BY <3>1 DEF WordOrNone
        <3> QED
            BY <3>1, <3>2, <1>1, WalkedOn
    <2>2. OnWay(r, A, R, v)
        BY <2>1, <1>1, <1>4, <1>6 DEF OnWay
    <2>3. ~BothRed(r, n) /\ n # NoWord
        BY <1>1, <1>3, <1>4, WordAssumption DEF BothRed, Clash
    <2> QED
        BY <2>1, <2>2, <2>3, <1>2, <1>4 DEF Passing, Above
<1> QED
    BY <1>2, <1>4, <1>5, <1>6 DEF Mended

\* What a repair leaves can be searched, its colours are right, and the walk can go on.
LEMMA RepairMends ==
    ASSUME NEW t, NEW A, NEW R, NEW E, NEW w \in SetWalk, Broken(t, A, R, E, w),
           NEW r, r = Repaired(t, w), NEW v, v = WalkOn(t, w)
    PROVE  Mended(t, A, R, w, r, v)
<1>1. CASE w.g = NoWord
    BY <1>1, TopMended
<1>2. CASE w.g # NoWord /\ w.gg = NoWord /\ w.gCmp = w.pCmp
    BY <1>2, OuterTopMended
<1>3. CASE w.g # NoWord /\ w.gg = NoWord /\ w.gCmp # w.pCmp
    BY <1>3, OnceMended
<1>4. CASE w.g # NoWord /\ w.gg # NoWord /\ w.gCmp = w.pCmp
    BY <1>4, OuterMended
<1>5. CASE w.g # NoWord /\ w.gg # NoWord /\ w.gCmp # w.pCmp /\ Toward(w.gCmp) # Toward(w.pCmp)
    BY <1>5, InnerMended
<1>6. CASE w.g # NoWord /\ w.gg # NoWord /\ w.gCmp # w.pCmp /\ Toward(w.gCmp) = Toward(w.pCmp)
    BY <1>6, PastMended
<1> QED
    BY <1>1, <1>2, <1>3, <1>4, <1>5, <1>6

\* r is t with n, under p on side s, red and with no red child.
Reddens(r, t, p, s, n) ==
    /\ r.head = t.head /\ n # t.head /\ p \in Word /\ s \in SetSide /\ n \in Word /\ p # n
    /\ r.child[s][p] = n /\ t.child[s][p] \in {n, NoWord} /\ r.red[n]
    /\ \A m \in Word : m # n /\ r.red[m] => t.red[m]
    /\ r.red[p] = t.red[p]
    /\ \A y \in SetSide : ~IsRed(r, r.child[y][n])
    /\ \A y \in SetSide, m \in Word : y # s \/ m # p => r.child[y][m] = t.child[y][m]

LEMMA ReddensWell ==
    ASSUME NEW t \in SetTree, NEW A, NEW R, NEW E, NEW r, Searched(r, A, R, E), Mild(t),
           NEW p, NEW s, NEW n, Reddens(r, t, p, s, n)
    PROVE  /\ ~t.red[p] => Mild(r)
           /\ t.red[p] => Clash(r, p, n)
<1>1. /\ r.head = t.head /\ n # t.head /\ p \in Word /\ s \in SetSide /\ n \in Word /\ p # n
      /\ r.child[s][p] = n /\ t.child[s][p] \in {n, NoWord} /\ r.red[n]
      /\ \A m \in Word : m # n /\ r.red[m] => t.red[m]
      /\ r.red[p] = t.red[p]
      /\ \A y \in SetSide : ~IsRed(r, r.child[y][n])
      /\ \A y \in SetSide, m \in Word : y # s \/ m # p => r.child[y][m] = t.child[y][m]
    BY DEF Reddens
<1>2. r \in SetTree /\ \A y \in SetSide, m \in Word : r.child[y][m] \in WordOrNone /\ t.child[y][m] \in WordOrNone
    BY TreeFieldsOf DEF Searched, SetLeads
<1>3. r.head \in Word /\ r.head # NoWord
    BY <1>1, HeadIsFirst, WordAssumption
<1>4. \A m \in Word, y \in SetSide : r.child[y][m] = n => m = p /\ y = s
    BY <1>1, ParentOnly
<1>5. \A m \in Word : m # NoWord
    BY WordAssumption
<1>6. ASSUME NEW m \in Word, ~Topmost(r, m), m # p, r.red[m] PROVE ~BothRed(r, m)
    <2>1. CASE m = n
        BY <2>1, <1>1 DEF BothRed
    <2>2. CASE m # n
        <3>1. t.red[m]
            BY <2>2, <1>1, <1>6
        <3>2. ~Topmost(t, m)
            BY <2>2, <1>1, <1>3, <1>5, <1>6, StaysDeep
        <3>3. PICK y \in SetSide : ~IsRed(t, t.child[y][m])
            BY <3>1, <3>2 DEF Mild, BothRed
        <3>4. r.child[y][m] = t.child[y][m] /\ r.child[y][m] # n
            BY <1>1, <1>4, <1>6
        <3>5. ~IsRed(r, r.child[y][m])
            BY <3>3, <3>4, <1>1, <1>2 DEF IsRed, WordOrNone
        <3> QED
            BY <3>5 DEF BothRed
    <2> QED
        BY <2>1, <2>2
<1>7. ASSUME ~t.red[p] PROVE Mild(r)
    BY <1>1, <1>6, <1>7 DEF Mild
<1>8. ASSUME t.red[p] PROVE Clash(r, p, n)
    BY <1>1, <1>6, <1>8 DEF Clash
<1> QED
    BY <1>7, <1>8

\* r is t with n red and its two red children black.
IsFlipped(r, t, n) ==
    /\ r \in SetTree /\ r.head = t.head /\ r.child = t.child /\ r.red[n]
    /\ \A s \in SetSide : ~r.red[t.child[s][n]]
    /\ \A m \in Word : m # n /\ (\A s \in SetSide : m # t.child[s][n]) => r.red[m] = t.red[m]

LEMMA FlippedNode ==
    ASSUME NEW t, NEW A, NEW R, NEW E, Searched(t, A, R, E), NEW n \in A, BothRed(t, n), NEW r, r = Flipped(t, n)
    PROVE  IsFlipped(r, t, n) /\ Searched(r, A, R, E)
<1>1. "left" \in SetSide /\ "right" \in SetSide /\ t \in SetTree /\ n \in Word /\ \A s \in SetSide : s = "left" \/ s = "right"
    BY SetSides DEF Searched, SetLeads
<1>2. PICK a, b : a = t.child["left"][n] /\ b = t.child["right"][n]
    OBVIOUS
<1>3. a \in A /\ b \in A /\ a # n /\ b # n
    <2>1. a # NoWord /\ b # NoWord
        BY <1>1, <1>2 DEF BothRed, IsRed
    <2>2. a \in A /\ b \in A
        BY <2>1, <1>1, <1>2 DEF Searched, SetLeads
    <2>3. a \in R[a] /\ b \in R[b] /\ a \in Word /\ b \in Word
        BY <2>2 DEF Searched, SetLeads
    <2>4. n \notin R[a] /\ n \notin R[b]
        BY <2>1, <1>1, <1>2 DEF Searched, SetLeads
    <2> QED
        BY <2>2, <2>3, <2>4
<1>4. PICK c : c = Coloured(t, n, TRUE)
    OBVIOUS
<1>5. PICK d : d = Coloured(c, a, FALSE)
    OBVIOUS
<1>6. r = Coloured(d, b, FALSE)
    <2>1. r = Coloured(Coloured(Coloured(t, n, TRUE), t.child["left"][n], FALSE), t.child["right"][n], FALSE)
        BY Zenon DEF Flipped
    <2> QED
        BY ONLY <2>1, <1>2, <1>4, <1>5
<1>7. OnlyColoured(c, t, n, TRUE)
    BY <1>1, <1>4, NodeColoured
<1>8. Searched(c, A, R, E)
    BY <1>7, ColouredSearched
<1>9. OnlyColoured(d, c, a, FALSE)
    <2>1. c \in SetTree /\ a \in Word
        BY <1>3, <1>8 DEF Searched, SetLeads
    <2> QED
        BY <2>1, <1>5, NodeColoured
<1>10. Searched(d, A, R, E)
    BY <1>3, <1>8, <1>9, ColouredSearched
<1>11. OnlyColoured(r, d, b, FALSE)
    <2>1. d \in SetTree /\ b \in Word
        BY <1>3, <1>10 DEF Searched, SetLeads
    <2> QED
        BY <2>1, <1>6, NodeColoured
<1>12. Searched(r, A, R, E)
    BY <1>3, <1>10, <1>11, ColouredSearched
<1>13. r \in SetTree /\ r.head = t.head /\ r.child = t.child
    BY <1>7, <1>9, <1>11 DEF OnlyColoured
<1>14. r.red[n] /\ ~r.red[a] /\ ~r.red[b] /\ \A m \in Word : m # n /\ m # a /\ m # b => r.red[m] = t.red[m]
    <2>1. c.red[n] /\ \A m \in Word : m # n => c.red[m] = t.red[m]
        BY <1>7 DEF OnlyColoured
    <2>2. ~d.red[a] /\ \A m \in Word : m # a => d.red[m] = c.red[m]
        BY <1>9 DEF OnlyColoured
    <2>3. ~r.red[b] /\ \A m \in Word : m # b => r.red[m] = d.red[m]
        BY <1>11 DEF OnlyColoured
    <2>4. a \in Word /\ b \in Word
        BY <1>3 DEF Searched, SetLeads
    <2> QED
        BY <2>1, <2>2, <2>3, <2>4, <1>1, <1>3
<1>15. IsFlipped(r, t, n)
    BY <1>1, <1>2, <1>13, <1>14 DEF IsFlipped
<1> QED
    BY <1>12, <1>15

LEMMA FlipReddens ==
    ASSUME NEW t, NEW A, NEW R, NEW E, Searched(t, A, R, E), Mild(t), NEW p \in Word, NEW s \in SetSide, NEW n \in Word,
           t.child[s][p] = n, BothRed(t, n), NEW r, IsFlipped(r, t, n), Searched(r, A, R, E)
    PROVE  /\ Reddens(r, t, p, s, n)
           /\ \A y \in SetSide : Calm(r, r.child[y][n])
<1>1. /\ r \in SetTree /\ r.head = t.head /\ r.child = t.child /\ r.red[n]
      /\ \A y \in SetSide : ~r.red[t.child[y][n]]
      /\ \A m \in Word : m # n /\ (\A y \in SetSide : m # t.child[y][n]) => r.red[m] = t.red[m]
    BY DEF IsFlipped
<1>2. t \in SetTree /\ \A y \in SetSide, m \in Word : t.child[y][m] \in WordOrNone
    BY TreeFieldsOf DEF Searched, SetLeads
<1>3. n # t.head
    BY HeadIsFirst
<1>4. \A y \in SetSide : t.child[y][n] \in Word /\ t.red[t.child[y][n]]
    BY <1>2 DEF BothRed, IsRed, WordOrNone
<1>5. p # n /\ \A y \in SetSide : t.child[y][n] # n /\ t.child[y][n] # p
    <2>1. ASSUME NEW y \in SetSide PROVE p # n /\ t.child[y][n] # n /\ t.child[y][n] # p
        <3>1. Under(t, A, R, E, p, s, n, y, t.child[y][n])
            BY <1>4 DEF Under, Searched
        <3> QED
            BY <3>1, UnderFacts
    <2> QED
        BY <2>1, SetSides
<1>6. \A m \in Word : m # n /\ r.red[m] => t.red[m]
    BY <1>1, <1>4
<1>7. Reddens(r, t, p, s, n)
    BY <1>1, <1>3, <1>5, <1>6 DEF Reddens, IsRed
<1>8. ASSUME NEW y \in SetSide PROVE Calm(r, r.child[y][n])
    <2>1. PICK c \in Word : c = t.child[y][n] /\ t.red[c] /\ ~r.red[c] /\ c # n /\ c # NoWord
        <3>1. t.child[y][n] \in Word /\ t.red[t.child[y][n]]
            BY <1>4
        <3>2. ~r.red[t.child[y][n]] /\ t.child[y][n] # n
            BY <1>1, <1>5
        <3>3. NoWord \notin Word
            BY WordAssumption
        <3> QED
            BY ONLY <3>1, <3>2, <3>3
    <2>2. ~BothRed(t, c)
        <3>1. t.head \in Word /\ c # t.head
            BY <2>1, HeadIsFirst
        <3>2. ~Topmost(t, c)
            BY <3>1, <2>1, <1>3, ParentOnly DEF Topmost
        <3> QED
            BY <3>2, <2>1 DEF Mild
    <2>3. PICK v \in SetSide : ~IsRed(t, t.child[v][c])
        BY <2>2 DEF BothRed
    <2>4. t.child[v][c] # n
        BY <2>1, <1>5, ParentOnly
    <2>5. ~IsRed(r, r.child[v][c])
        BY <2>1, <2>3, <2>4, <1>1, <1>2, <1>6 DEF IsRed, WordOrNone
    <2> QED
        BY <2>1, <2>5, <1>1 DEF Calm, Stays, BothRed
<1> QED
    BY <1>7, <1>8

\* r is t with a new red leaf k, under p on side s.
IsLinked(r, t, s, p, k) ==
    /\ r \in SetTree /\ r.head = t.head /\ r.child[s][p] = k /\ r.red[k]
    /\ \A y \in SetSide, m \in Word : y # s \/ m # p => r.child[y][m] = t.child[y][m]
    /\ \A m \in Word : m # k => r.red[m] = t.red[m]

LEMMA LeafLinked ==
    ASSUME NEW t \in SetTree, NEW s \in SetSide, NEW p \in Word, NEW k \in Word, NEW r, r = Coloured(Hung(t, s, p, k), k, TRUE)
    PROVE  IsLinked(r, t, s, p, k)
<1>1. PICK c : c = Hung(t, s, p, k)
    OBVIOUS
<1>2. OnlyHung(c, t, s, p, k)
    BY <1>1, ChildHung DEF WordOrNone
<1>3. c \in SetTree /\ r = Coloured(c, k, TRUE)
    BY <1>1, <1>2 DEF OnlyHung
<1>4. OnlyColoured(r, c, k, TRUE)
    BY <1>3, NodeColoured
<1>5. /\ c.head = t.head /\ c.red = t.red /\ c.child[s][p] = k
      /\ \A y \in SetSide, m \in Word : y # s \/ m # p => c.child[y][m] = t.child[y][m]
    BY <1>2 DEF OnlyHung
<1>6. r \in SetTree /\ r.head = c.head /\ r.child = c.child /\ r.red[k] /\ \A m \in Word : m # k => r.red[m] = c.red[m]
    <2>1. r.red[k] /\ \A m \in Word : m # k => r.red[m] = c.red[m]
        BY <1>4 DEF OnlyColoured
    <2>2. r \in SetTree /\ r.head = c.head /\ r.child = c.child
        BY <1>4 DEF OnlyColoured
    <2> QED
        BY <2>1, <2>2
<1>7. r.head = t.head /\ r.child[s][p] = k /\ \A y \in SetSide, m \in Word : y # s \/ m # p => r.child[y][m] = t.child[y][m]
    BY ONLY <1>5, <1>6
<1>8. \A m \in Word : m # k => r.red[m] = t.red[m]
    BY ONLY <1>5, <1>6
<1> QED
    BY <1>6, <1>7, <1>8 DEF IsLinked

LEMMA LinkLeads ==
    ASSUME NEW t, NEW A, NEW R, NEW E, Searched(t, A, R, E), NEW p \in A, NEW k \in Word, k \in R[p], k # p,
           NEW s \in SetSide, s = Way(p, k), t.child[s][p] = NoWord, NEW r, IsLinked(r, t, s, p, k)
    PROVE  /\ k \notin A /\ Reddens(r, t, p, s, k)
           /\ \E R2, E2 : Searched(r, A \cup {k}, R2, E2)
<1>1. /\ r \in SetTree /\ r.head = t.head /\ r.child[s][p] = k /\ r.red[k]
      /\ \A y \in SetSide, m \in Word : y # s \/ m # p => r.child[y][m] = t.child[y][m]
      /\ \A m \in Word : m # k => r.red[m] = t.red[m]
    BY DEF IsLinked
<1>2. /\ t \in SetTree /\ A \subseteq Word
      /\ IF t.head = NoWord THEN A = {} ELSE t.head \in A /\ \A j \in Word : j \in R[t.head]
      /\ \A n \in A : n \in R[n]
      /\ \A n \in A, y \in SetSide : t.child[y][n] # NoWord =>
             /\ t.child[y][n] \in A
             /\ \A j \in Word : j \in R[t.child[y][n]] <=> j \in R[n] /\ j # n /\ Way(n, j) = y
      /\ \A n \in A, j \in Word : j \in R[n] /\ (j = n \/ t.child[Way(n, j)][n] = NoWord) => E[j] = n
      /\ \A n \in Word \ A : ~t.red[n] /\ \A y \in SetSide : t.child[y][n] = NoWord
    BY DEF Searched, SetLeads
<1>3. OneAbove(t)
    BY DEF Searched
<1>4. E[p] = p /\ E[k] = p
    BY <1>2
<1>5. k \notin A
    BY <1>2, <1>4
<1>6. k # NoWord /\ t.head # NoWord /\ t.head \in A
    BY <1>2, WordAssumption
<1>7. \A m \in Word, y \in SetSide : t.child[y][m] # k
    BY <1>2, <1>5, <1>6
<1>8. \A y \in SetSide : r.child[y][k] = NoWord
    BY <1>1, <1>2, <1>5
<1>9. Reddens(r, t, p, s, k)
    BY <1>1, <1>2, <1>5, <1>6, <1>8 DEF Reddens, IsRed
<1>10. PICK R2 : R2 = [m \in Word |-> IF m = k THEN {j \in R[p] : j # p /\ Way(p, j) = s} ELSE R[m]]
    OBVIOUS
<1>11. PICK E2 : E2 = [j \in Word |-> IF E[j] = p /\ j # p /\ Way(p, j) = s THEN k ELSE E[j]]
    OBVIOUS
<1>12. /\ \A j : j \in R2[k] <=> j \in R[p] /\ j # p /\ Way(p, j) = s
       /\ \A m \in A : R2[m] = R[m]
    BY <1>2, <1>5, <1>10
<1>13. \A j \in Word : E2[j] = IF E[j] = p /\ j # p /\ Way(p, j) = s THEN k ELSE E[j]
    BY <1>11
<1>14. A \cup {k} \subseteq Word /\ r.head \in A \cup {k} /\ r.head # NoWord /\ \A j \in Word : j \in R2[r.head]
    BY <1>1, <1>2, <1>6, <1>12
<1>15. \A n \in A \cup {k} : n \in R2[n]
    BY <1>2, <1>12
<1>16. ASSUME NEW n \in A \cup {k}, NEW y \in SetSide, r.child[y][n] # NoWord
       PROVE  /\ r.child[y][n] \in A \cup {k}
              /\ \A j \in Word : j \in R2[r.child[y][n]] <=> j \in R2[n] /\ j # n /\ Way(n, j) = y
    <2>1. n \in A /\ n \in Word
        BY <1>2, <1>8, <1>16
    <2>2. CASE n = p /\ y = s
        BY <2>2, <1>1, <1>12
    <2>3. CASE ~(n = p /\ y = s)
        <3>1. r.child[y][n] = t.child[y][n]
            BY <2>1, <2>3, <1>1
        <3>2. /\ t.child[y][n] \in A
              /\ \A j \in Word : j \in R[t.child[y][n]] <=> j \in R[n] /\ j # n /\ Way(n, j) = y
            BY <2>1, <3>1, <1>2, <1>16
        <3> QED
            BY <2>1, <3>1, <3>2, <1>12
    <2> QED
        BY <2>2, <2>3
<1>17. ASSUME NEW n \in A \cup {k}, NEW j \in Word, j \in R2[n], j = n \/ r.child[Way(n, j)][n] = NoWord PROVE E2[j] = n
    <2>1. CASE n = k
        <3>1. j \in R[p] /\ j # p /\ Way(p, j) = s
            BY <2>1, <1>12, <1>17
        <3>2. E[j] = p
            BY <3>1, <1>2
        <3> QED
            BY <2>1, <3>1, <3>2, <1>13
    <2>2. CASE n # k
        <3>1. n \in A /\ j \in R[n] /\ n \in Word
            BY <2>2, <1>2, <1>12, <1>17
        <3>2. CASE j = n
            BY <3>1, <3>2, <1>2, <1>13
        <3>3. CASE j # n
            <4>1. Way(n, j) \in SetSide /\ r.child[Way(n, j)][n] = NoWord
                BY <3>3, <1>17, SetSides
            <4>2. ~(n = p /\ Way(n, j) = s)
                BY <4>1, <1>1, <1>6
            <4>3. t.child[Way(n, j)][n] = NoWord
                BY <4>1, <4>2, <3>1, <1>1
            <4>4. E[j] = n
                BY <4>3, <3>1, <1>2
            <4> QED
                BY <4>2, <4>4, <1>13
        <3> QED
            BY <3>2, <3>3
    <2> QED
        BY <2>1, <2>2
<1>18. \A n \in Word \ (A \cup {k}) : ~r.red[n] /\ \A y \in SetSide : r.child[y][n] = NoWord
    BY <1>1, <1>2
<1>19. SetLeads(r, A \cup {k}, R2, E2)
    BY <1>1, <1>14, <1>15, <1>16, <1>17, <1>18 DEF SetLeads
<1>20. ASSUME NEW a \in Word, NEW b \in Word, NEW y \in SetSide, NEW v \in SetSide,
              r.child[y][a] # NoWord, r.child[y][a] = r.child[v][b]
       PROVE  a = b /\ y = v
    <2>1. CASE a = p /\ y = s
        BY <2>1, <1>1, <1>7, <1>20
    <2>2. CASE b = p /\ v = s
        BY <2>2, <1>1, <1>7, <1>20
    <2>3. CASE ~(a = p /\ y = s) /\ ~(b = p /\ v = s)
        BY <2>3, <1>1, <1>3, <1>20 DEF OneAbove
    <2> QED
        BY <2>1, <2>2, <2>3
<1>21. ASSUME NEW a \in Word, NEW y \in SetSide PROVE r.child[y][a] # r.head
    BY <1>1, <1>3, <1>5, <1>6 DEF OneAbove
<1>22. OneAbove(r)
    BY <1>20, <1>21 DEF OneAbove
<1> QED
    BY <1>5, <1>9, <1>19, <1>22 DEF Searched

\* The walk came to w.n, under w.p.
Arrived(t, w) ==
    /\ Above(t, w)
    /\ w.p = t.head \/ ~BothRed(t, w.p)
    /\ t.red[w.p] /\ ~Stays(t, w.n) => Remembered(t, w)
Walking(t, A, R, w) == Passing(t, A, R, w) \/ Below2(t, A, R, w) \/ OnTop(t, A, R, w) \/ Start(t, w)

\* w is a step below v.
IsBelow(w, v, t) ==
    /\ w \in SetWalk /\ w.adding = v.adding /\ w.gg = v.g /\ w.g = v.p /\ w.p = v.n
    /\ w.ggCmp = v.gCmp /\ w.gCmp = v.pCmp /\ Toward(w.pCmp) = Way(v.n, v.adding) /\ w.n = t.child[Toward(w.pCmp)][v.n]

LEMMA WalkArrives ==
    ASSUME NEW t, NEW A, NEW R, NEW E, Searched(t, A, R, E), NEW v \in SetWalk, Walking(t, A, R, v), v.n # NoWord, v.n # v.adding,
           NEW w, IsBelow(w, v, t)
    PROVE  /\ OnWay(t, A, R, w)
           /\ Below2(t, A, R, w) \/ Arrived(t, w)
<1>1. /\ w \in SetWalk /\ w.adding = v.adding /\ w.gg = v.g /\ w.g = v.p /\ w.p = v.n
      /\ w.ggCmp = v.gCmp /\ w.gCmp = v.pCmp /\ Toward(w.pCmp) = Way(v.n, v.adding) /\ w.n = t.child[Toward(w.pCmp)][v.n]
    BY DEF IsBelow
<1>2. Toward(v.pCmp) \in SetSide /\ Toward(v.gCmp) \in SetSide /\ v.n \in Word
    BY SetSides DEF SetWalk, WordOrNone
<1>3. t \in SetTree /\ A \subseteq Word
    BY DEF Searched, SetLeads
<1>4. ASSUME OnWay(t, A, R, v) PROVE OnWay(t, A, R, w) /\ Above(t, w) /\ w.g \in Word
    <2>1. v.p \in A /\ v.p \in Word /\ v.p # NoWord /\ v.adding \in Word /\ v.adding \in R[v.p] /\ v.p # v.adding
          /\ Toward(v.pCmp) = Way(v.p, v.adding) /\ v.n = t.child[Toward(v.pCmp)][v.p]
        BY <1>3, <1>4, WordAssumption DEF OnWay
    <2>2. v.n \in A /\ v.adding \in R[v.n]
        <3>1. SetLeads(t, A, R, E)
            BY DEF Searched
        <3>2. v.n \in A /\ \A j \in Word : j \in R[v.n] <=> j \in R[v.p] /\ j # v.p /\ Way(v.p, j) = Toward(v.pCmp)
            BY <3>1, <2>1, <1>2 DEF SetLeads
        <3> QED
            BY <3>2, <2>1
    <2> QED
        BY <2>1, <2>2, <1>1 DEF OnWay, Above
<1>5. CASE Passing(t, A, R, v)
    <2>1. /\ OnWay(t, A, R, v) /\ ~BothRed(t, v.n) /\ Above(t, v)
          /\ (v.p # t.head /\ BothRed(t, v.p) => Fresh(t, v.n, v.adding))
        BY <1>5 DEF Passing
    <2>2. ASSUME t.red[w.p], ~Stays(t, w.n) PROVE Remembered(t, w)
        <3>1. ~Stays(t, w.n) /\ w.n = t.child[Way(v.n, v.adding)][v.n]
            BY <2>2, <1>1
        <3>2. ~Fresh(t, v.n, v.adding)
            BY <3>1 DEF Fresh
        <3>3. v.p = t.head \/ ~BothRed(t, v.p)
            BY <3>2, <2>1
        <3>4. v.p \in Word /\ v.p # NoWord
            BY <2>1, <1>3, WordAssumption DEF OnWay
        <3>5. CASE v.p = t.head
            <4>1. v.g = NoWord
                <5>1. ASSUME v.g # NoWord PROVE FALSE
                    <6>1. v.g \in Word /\ t.child[Toward(v.gCmp)][v.g] = v.p
                        BY <5>1, <2>1 DEF Above
                    <6>2. v.p # t.head
                        BY <6>1, <3>4, <1>2, HeadIsFirst
                    <6> QED
                        BY <6>2, <3>5
                <5> QED
                    BY <5>1
            <4> QED
                BY <4>1, <3>5, <1>1 DEF Remembered
        <3>6. CASE v.p # t.head
            <4>1. v.g \in Word /\ t.child[Toward(v.gCmp)][v.g] = v.p
                BY <3>6, <2>1 DEF Above
            <4>2. ~BothRed(t, v.p)
                BY <3>3, <3>6
            <4> QED
                BY <4>1, <4>2, <3>6, <1>1 DEF Remembered
        <3> QED
            BY <3>5, <3>6
    <2> QED
        BY <2>1, <2>2, <1>1, <1>4 DEF Arrived
<1>6. CASE Below2(t, A, R, v)
    <2>1. OnWay(t, A, R, v) /\ Stays(t, v.n) /\ (t.red[v.n] => Fresh(t, v.n, v.adding))
        BY <1>6 DEF Below2
    <2>2. ASSUME t.red[w.p] PROVE Stays(t, w.n)
        <3>1. Fresh(t, v.n, v.adding) /\ w.n = t.child[Way(v.n, v.adding)][v.n]
            BY <2>1, <2>2, <1>1
        <3> QED
            BY <3>1 DEF Fresh
    <2> QED
        BY <2>1, <2>2, <1>1, <1>4 DEF Arrived, Stays
<1>7. CASE OnTop(t, A, R, v)
    BY <1>1, <1>7 DEF OnTop, OnWay, Below2
<1>8. CASE Start(t, v)
    <2>1. t.head \in A /\ \A j \in Word : j \in R[t.head]
        BY <1>8, WordAssumption DEF Start, Searched, SetLeads
    <2> QED
        BY <2>1, <1>1, <1>8 DEF Start, OnWay, Arrived, Above, Remembered
<1> QED
    BY <1>5, <1>6, <1>7, <1>8 DEF Walking

LEMMA ChildIsOther ==
    ASSUME NEW t, NEW A, NEW R, NEW E, Searched(t, A, R, E), NEW a \in Word, NEW y \in SetSide, NEW c \in Word, t.child[y][a] = c
    PROVE  a \in A /\ c \in A /\ a # c
<1>1. c # NoWord
    BY WordAssumption
<1>2. a \in A
    BY <1>1 DEF Searched, SetLeads
<1>3. c \in A /\ \A j \in Word : j \in R[c] <=> j \in R[a] /\ j # a /\ Way(a, j) = y
    BY <1>1, <1>2 DEF Searched, SetLeads
<1>4. c \in R[c]
    BY <1>3 DEF Searched, SetLeads
<1> QED
    BY <1>2, <1>3, <1>4

\* Where the walk arrived at a red w.p, a new red node under it breaks the colours as a repair expects.
LEMMA ReddensBreaks ==
    ASSUME NEW t, NEW A, NEW R, NEW E, Searched(t, A, R, E), NEW w \in SetWalk, OnWay(t, A, R, w), Arrived(t, w), ~Stays(t, w.n),
           NEW r, NEW B, NEW S, NEW F, Searched(r, B, S, F), NEW n, Reddens(r, t, w.p, Toward(w.pCmp), n), Clash(r, w.p, n), t.red[w.p],
           NEW x \in SetWalk, x.n = n, x.p = w.p, x.g = w.g, x.gg = w.gg, x.pCmp = w.pCmp, x.gCmp = w.gCmp, x.ggCmp = w.ggCmp
    PROVE  Broken(r, B, S, F, x)
<1>1. /\ r.head = t.head /\ w.p \in Word /\ Toward(w.pCmp) \in SetSide /\ n \in Word
      /\ r.child[Toward(w.pCmp)][w.p] = n
      /\ \A m \in Word : m # n /\ r.red[m] => t.red[m]
      /\ \A y \in SetSide, m \in Word : y # Toward(w.pCmp) \/ m # w.p => r.child[y][m] = t.child[y][m]
    BY DEF Reddens
<1>2. Above(t, w) /\ Remembered(t, w)
    BY DEF Arrived
<1>3. /\ t \in SetTree /\ Toward(w.gCmp) \in SetSide /\ Toward(w.ggCmp) \in SetSide
      /\ (\A y \in SetSide, m \in Word : t.child[y][m] \in WordOrNone) /\ \A m \in Word : m # NoWord
    BY SetSides, TreeFieldsOf, WordAssumption DEF Searched, SetLeads
<1>4. ASSUME w.g # NoWord
      PROVE  /\ w.g \in Word /\ r.child[Toward(w.gCmp)][w.g] = w.p
             /\ w.gg = NoWord => w.g = r.head
             /\ w.gg # NoWord => /\ w.gg \in Word /\ r.child[Toward(w.ggCmp)][w.gg] = w.g
                                 /\ ~IsRed(r, r.child[Turned(Toward(w.gCmp))][w.g])
    <2>1. PICK g \in Word, p \in Word, s \in SetSide : g = w.g /\ p = w.p /\ s = Toward(w.gCmp) /\ t.child[s][g] = p
        BY <1>1, <1>2, <1>3, <1>4 DEF Above
    <2>2. g # p
        BY <2>1, ChildIsOther
    <2>3. \A y \in SetSide : r.child[y][g] = t.child[y][g]
        BY <2>1, <2>2, <1>1
    <2>4. w.gg = NoWord => g = t.head
        BY <2>1, <1>2, <1>3, <1>4 DEF Remembered
    <2>5. ASSUME w.gg # NoWord
          PROVE  w.gg \in Word /\ r.child[Toward(w.ggCmp)][w.gg] = w.g /\ ~IsRed(r, r.child[Turned(Toward(w.gCmp))][w.g])
        <3>1. PICK q \in Word, u \in SetSide : q = w.gg /\ u = Toward(w.ggCmp) /\ t.child[u][q] = g /\ ~BothRed(t, g)
            BY <2>1, <2>5, <1>2, <1>3, <1>4 DEF Remembered
        <3>2. q # p
            <4>1. Under(t, A, R, E, q, u, g, s, p)
                BY <2>1, <3>1 DEF Under, Searched
            <4> QED
                BY <4>1, UnderFacts
        <3>3. r.child[u][q] = g
            BY <3>1, <3>2, <2>1, <1>1
        <3>4. PICK z \in SetSide : z = Turned(s) /\ z # s /\ \A y \in SetSide : y = s \/ y = z
            BY <2>1, SetSides
        <3>5. IsRed(t, p)
            BY <2>1, <1>3 DEF IsRed
        <3>6. ~IsRed(t, t.child[z][g])
            BY <3>1, <3>4, <3>5, <2>1 DEF BothRed
        <3>7. r.child[z][g] # n
            <4>1. ASSUME r.child[z][g] = n PROVE FALSE
                <5>1. g = w.p
                    BY <4>1, <3>4, <2>1, <1>1, ParentOnly
                <5> QED
                    BY <5>1, <2>1, <2>2
            <4> QED
                BY <4>1
        <3>8. ~IsRed(r, r.child[z][g])
            BY <3>4, <3>6, <3>7, <2>1, <2>3, <1>1, <1>3 DEF IsRed, WordOrNone
        <3> QED
            BY <3>1, <3>3, <3>4, <3>8, <2>1
    <2> QED
        BY <2>1, <2>3, <2>4, <2>5, <1>1
<1>5. Clash(r, w.p, n)
    OBVIOUS
<1>6. w.g = NoWord => w.p = r.head
    BY <1>1, <1>2 DEF Above
<1> QED
    BY <1>1, <1>3, <1>4, <1>5, <1>6 DEF Broken, Clash

\* What holds between two steps of an addition: the tree leads to its keys, its colours
\* are right, and the walk is somewhere a walk can be.
WellSet(t, A, w) ==
    /\ w \in SetWalk
    /\ \E R, E : /\ Searched(t, A, R, E) /\ Mild(t)
                 /\ w.adding # NoWord => Walking(t, A, R, w)

LEMMA WalkPasses ==
    ASSUME NEW t, NEW A, NEW R, NEW E, Searched(t, A, R, E), Mild(t),
           NEW w \in SetWalk, OnWay(t, A, R, w), Below2(t, A, R, w) \/ Arrived(t, w), ~(w.n # NoWord /\ BothRed(t, w.n))
    PROVE  WellSet(t, A, w)
<1>1. CASE Below2(t, A, R, w)
    BY <1>1 DEF WellSet, Walking
<1>2. CASE Arrived(t, w)
    <2>1. Passing(t, A, R, w)
        BY <1>2 DEF Passing, Arrived, Stays
    <2> QED
        BY <2>1 DEF WellSet, Walking
<1> QED
    BY <1>1, <1>2

LEMMA WalkFlips ==
    ASSUME NEW t, NEW A, NEW R, NEW E, Searched(t, A, R, E), Mild(t),
           NEW w \in SetWalk, OnWay(t, A, R, w), Below2(t, A, R, w) \/ Arrived(t, w), w.n # NoWord, BothRed(t, w.n),
           NEW r, r = Flipped(t, w.n)
    PROVE  IF t.red[w.p] THEN WellSet(Repaired(r, w), A, WalkOn(r, w)) ELSE WellSet(r, A, w)
<1>1. PICK p \in Word, n \in Word, s \in SetSide : p = w.p /\ n = w.n /\ s = Toward(w.pCmp) /\ t.child[s][p] = n /\ p \in A
    <2>1. w.n \in Word /\ Toward(w.pCmp) \in SetSide
        BY SetSides DEF SetWalk, WordOrNone
    <2>2. w.p \in A /\ w.p \in Word /\ t.child[Toward(w.pCmp)][w.p] = w.n
        BY DEF OnWay, Searched, SetLeads
    <2> QED
        BY <2>1, <2>2
<1>2. Arrived(t, w) /\ ~Stays(t, n)
    BY <1>1 DEF Below2, Stays
<1>3. n \in A
    BY <1>1, ChildIsOther
<1>4. IsFlipped(r, t, n) /\ Searched(r, A, R, E)
    <2>1. BothRed(t, n) /\ r = Flipped(t, n)
        BY <1>1
    <2> QED
        BY <2>1, <1>3, FlippedNode
<1>5. Reddens(r, t, p, s, n) /\ \A y \in SetSide : Calm(r, r.child[y][n])
    BY <1>1, <1>4, FlipReddens
<1>6. r \in SetTree /\ r.head = t.head /\ r.child = t.child /\ t \in SetTree
    BY <1>4 DEF IsFlipped, Searched, SetLeads
<1>7. (~t.red[p] => Mild(r)) /\ (t.red[p] => Clash(r, p, n))
    BY <1>4, <1>5, <1>6, ReddensWell
<1>8. OnWay(r, A, R, w)
    BY <1>6 DEF OnWay
<1>9. CASE ~t.red[w.p]
    <2>1. Fresh(r, n, w.adding)
        BY <1>5, SetSides DEF Fresh, Calm
    <2>2. ~BothRed(r, n)
        <3>1. "left" \in SetSide /\ Calm(r, r.child["left"][n])
            BY <1>5, SetSides
        <3> QED
            BY <3>1 DEF Calm, BothRed, IsRed
    <2>3. Above(r, w)
        BY <1>2, <1>6 DEF Arrived, Above
    <2>4. Passing(r, A, R, w)
        BY <2>1, <2>2, <2>3, <1>1, <1>8, WordAssumption DEF Passing
    <2> QED
        BY <2>4, <1>1, <1>4, <1>7, <1>9 DEF WellSet, Walking
<1>10. CASE t.red[w.p]
    <2>1. Broken(r, A, R, E, w)
        <3>1. Reddens(r, t, w.p, Toward(w.pCmp), w.n) /\ Clash(r, w.p, w.n) /\ ~Stays(t, w.n)
            BY <1>1, <1>2, <1>5, <1>7, <1>10
        <3> QED
            BY <3>1, <1>2, <1>4, <1>10, ReddensBreaks
    <2>2. PICK x, v : x = Repaired(r, w) /\ v = WalkOn(r, w)
        OBVIOUS
    <2>3. Mended(r, A, R, w, x, v)
        BY <2>1, <2>2, RepairMends
    <2>4. \A y \in SetSide : Calm(r, r.child[y][w.n])
        BY <1>1, <1>5
    <2>5. PICK R2, E2 : /\ Searched(x, A, R2, E2) /\ Mild(x)
                        /\ v \in SetWalk /\ (OnTop(x, A, R2, v) \/ Passing(x, A, R2, v))
        BY <2>3, <2>4, <1>8 DEF Mended
    <2>6. WellSet(x, A, v)
        BY <2>5 DEF WellSet, Walking
    <2> QED
        BY <2>2, <2>6, <1>10
<1> QED
    BY <1>9, <1>10

LEMMA WalkLinks ==
    ASSUME NEW t, NEW A, NEW R, NEW E, Searched(t, A, R, E), Mild(t),
           NEW w \in SetWalk, w.adding # NoWord, Walking(t, A, R, w), w.n = NoWord,
           NEW r, r = Coloured(Hung(t, Toward(w.pCmp), w.p, w.adding), w.adding, TRUE), NEW x, x = [w EXCEPT !.n = w.adding],
           NEW v, v = (IF t.red[w.p] THEN Repaired(r, x) ELSE r), NEW idle \in SetWalk, idle.adding = NoWord
    PROVE  WellSet(v, A \cup {w.adding}, idle)
<1>1. Passing(t, A, R, w)
    <2>1. \A n \in A : n # NoWord
        BY WordAssumption DEF Searched, SetLeads
    <2> QED
        BY <2>1, WordAssumption DEF Walking, Below2, OnTop, Start, Stays
<1>2. OnWay(t, A, R, w) /\ ~Stays(t, w.n)
    BY <1>1 DEF Passing, Stays
<1>3. PICK p \in A, k \in Word, s \in SetSide : p = w.p /\ k = w.adding /\ s = Toward(w.pCmp) /\ s = Way(p, k) /\ t.child[s][p] = NoWord
                                             /\ k \in R[p] /\ k # p /\ p \in Word
    BY <1>2, SetSides DEF OnWay, Searched, SetLeads
<1>4. Arrived(t, w)
    <2>1. ~BothRed(t, w.p)
        BY <1>3 DEF BothRed, IsRed
    <2> QED
        BY <2>1, <1>1 DEF Passing, Arrived
<1>5. t \in SetTree
    BY DEF Searched, SetLeads
<1>6. IsLinked(r, t, s, p, k)
    <2>1. r = Coloured(Hung(t, s, p, k), k, TRUE)
        BY <1>3
    <2> QED
        BY <2>1, <1>3, <1>5, LeafLinked
<1>7. PICK B : B = A \cup {k}
    OBVIOUS
<1>8. PICK S, F : Searched(r, B, S, F) /\ Reddens(r, t, p, s, k)
    <2>1. Reddens(r, t, p, s, k) /\ \E S, F : Searched(r, A \cup {k}, S, F)
        BY <1>3, <1>6, LinkLeads
    <2> QED
        BY <2>1, <1>7
<1>9. (~t.red[p] => Mild(r)) /\ (t.red[p] => Clash(r, p, k))
    BY <1>5, <1>8, ReddensWell
<1>10. \E S2, F2 : Searched(v, B, S2, F2) /\ Mild(v)
    <2>1. CASE ~t.red[w.p]
        BY <2>1, <1>3, <1>8, <1>9
    <2>2. CASE t.red[w.p]
        <3>1. /\ x \in SetWalk /\ x.n = k /\ x.p = w.p /\ x.g = w.g /\ x.gg = w.gg
              /\ x.pCmp = w.pCmp /\ x.gCmp = w.gCmp /\ x.ggCmp = w.ggCmp
            BY <1>3 DEF SetWalk, WordOrNone
        <3>2. Reddens(r, t, w.p, Toward(w.pCmp), k) /\ Clash(r, w.p, k)
            BY <2>2, <1>3, <1>8, <1>9
        <3>3. Broken(r, B, S, F, x)
            BY <2>2, <3>1, <3>2, <1>2, <1>4, <1>8, ReddensBreaks
        <3>4. PICK y : y = WalkOn(r, x)
            OBVIOUS
        <3>5. v = Repaired(r, x)
            BY <2>2
        <3>6. Mended(r, B, S, x, v, y)
            BY <3>1, <3>3, <3>4, <3>5, RepairMends
        <3> QED
            BY <3>6 DEF Mended
    <2> QED
        BY <2>1, <2>2
<1>11. WellSet(v, B, idle)
    BY <1>10 DEF WellSet
<1> QED
    BY <1>3, <1>7, <1>11

LEMMA EmptySet ==
    ASSUME NEW idle \in SetWalk, idle.adding = NoWord PROVE WellSet(NoTree, {}, idle)
<1>1. "left" \in SetSide /\ "right" \in SetSide /\ SetSide = {"left", "right"}
    BY DEF SetSide
<1>2. PICK c, d : c = [s \in SetSide |-> [k \in Word |-> NoWord]] /\ d = [k \in Word |-> FALSE]
    OBVIOUS
<1>3. NoTree = [head |-> NoWord, child |-> c, red |-> d]
    BY <1>1, <1>2 DEF NoTree
<1>4. c \in [SetSide -> [Word -> WordOrNone]] /\ d \in [Word -> BOOLEAN] /\ NoWord \in WordOrNone
    BY <1>2 DEF WordOrNone
<1>5. (\A s \in SetSide, k \in Word : c[s][k] = NoWord) /\ \A k \in Word : ~d[k]
    BY <1>2
<1>6. PICK t : t = NoTree
    OBVIOUS
<1>7. t \in SetTree /\ t.head = NoWord /\ t.child = c /\ t.red = d
    BY <1>3, <1>4, <1>6 DEF SetTree
<1>8. \A R, E : SetLeads(t, {}, R, E)
    BY <1>5, <1>7 DEF SetLeads
<1>9. OneAbove(t)
    BY <1>5, <1>7 DEF OneAbove
<1>10. Mild(t)
    BY <1>5, <1>7 DEF Mild
<1>11. WellSet(t, {}, idle)
    BY <1>8, <1>9, <1>10 DEF WellSet, Searched
<1> QED
    BY <1>6, <1>11

LEMMA FirstWord ==
    ASSUME NEW t, NEW A, NEW R, NEW E, Searched(t, A, R, E), Mild(t), t.head = NoWord, NEW k \in Word,
           NEW r, r = [t EXCEPT !.head = k], NEW idle \in SetWalk, idle.adding = NoWord
    PROVE  WellSet(r, {k}, idle)
<1>1. t \in SetTree /\ A = {} /\ k # NoWord
    BY WordAssumption DEF Searched, SetLeads
<1>2. /\ \A n \in Word : ~t.red[n] /\ \A s \in SetSide : t.child[s][n] = NoWord
    BY <1>1 DEF Searched, SetLeads
<1>3. r \in SetTree /\ r.head = k /\ r.child = t.child /\ r.red = t.red
    BY <1>1 DEF SetTree, WordOrNone
<1>4. PICK S, F : S = [n \in Word |-> Word] /\ F = [j \in Word |-> k]
    OBVIOUS
<1>5. SetLeads(r, {k}, S, F)
    BY <1>1, <1>2, <1>3, <1>4 DEF SetLeads
<1>6. OneAbove(r)
    BY <1>1, <1>2, <1>3 DEF OneAbove
<1>7. Mild(r)
    BY <1>2, <1>3 DEF Mild
<1> QED
    BY <1>5, <1>6, <1>7 DEF WellSet, Searched

SetWell == WellSet(words, asked, walk)

LEMMA SetWellStep ==
    ASSUME SetWell, [SetNext]_setVars PROVE SetWell'
<1>1. walk \in SetWalk /\ NoWalk \in SetWalk /\ NoWalk.adding = NoWord
    BY DEF SetWell, WellSet, SetWalk, NoWalk, WordOrNone
<1>2. PICK R, E : /\ Searched(words, asked, R, E) /\ Mild(words)
                  /\ walk.adding # NoWord => Walking(words, asked, R, walk)
    BY DEF SetWell, WellSet
<1>3. CASE UNCHANGED setVars
    BY <1>3 DEF setVars, SetWell
<1>4. ASSUME NEW k \in Word, SetAdd(k) PROVE SetWell'
    <2>1. CASE words.head = NoWord
        <3>1. words' = [words EXCEPT !.head = k] /\ asked' = {k} /\ walk' = walk /\ walk.adding = NoWord
            BY <2>1, <1>4 DEF SetAdd, SetIdle
        <3>2. WellSet(words', {k}, walk)
            BY <2>1, <3>1, <1>1, <1>2, FirstWord
        <3> QED
            BY <3>1, <3>2 DEF SetWell
    <2>2. CASE words.head # NoWord
        <3>1. walk' = [NoWalk EXCEPT !.adding = k, !.n = words.head] /\ words' = words /\ asked' = asked
            BY <2>2, <1>4 DEF SetAdd
        <3>2. words.head \in Word
            BY <2>2, <1>2 DEF Searched, SetLeads
        <3>3. /\ walk' \in SetWalk /\ walk'.adding = k /\ walk'.n = words.head
              /\ walk'.p = NoWord /\ walk'.g = NoWord /\ walk'.gg = NoWord
            <4>1. walk' = [adding |-> k, n |-> words.head, p |-> NoWord, g |-> NoWord, gg |-> NoWord,
                           pCmp |-> 0, gCmp |-> 0, ggCmp |-> 0]
                BY <3>1 DEF NoWalk
            <4>2. k \in WordOrNone /\ words.head \in WordOrNone /\ NoWord \in WordOrNone
                BY <3>2 DEF WordOrNone
            <4> QED
                BY <4>1, <4>2 DEF SetWalk
        <3>4. Start(words, walk')
            BY <3>2, <3>3 DEF Start
        <3>5. WellSet(words, asked, walk')
            BY <3>3, <3>4, <1>2 DEF WellSet, Walking
        <3> QED
            BY <3>1, <3>5 DEF SetWell
    <2> QED
        BY <2>1, <2>2
<1>5. CASE SetDescend
    <2>1. PICK w : w = Below(walk)
        OBVIOUS
    <2>2. /\ walk.adding # NoWord /\ walk.n # NoWord /\ walk.n # walk.adding /\ asked' = asked
          /\ IF w.n # NoWord /\ TwoRed(w.n)
             THEN IF words.red[w.p] THEN words' = Repaired(Flipped(words, w.n), w) /\ walk' = WalkOn(Flipped(words, w.n), w)
                                    ELSE words' = Flipped(words, w.n) /\ walk' = w
             ELSE words' = words /\ walk' = w
        BY <1>5, <2>1, Zenon DEF SetDescend, SetIdle
    <2>3. Walking(words, asked, R, walk)
        BY <1>2, <2>2
    <2>4. IsBelow(w, walk, words)
        <3>0. walk.n \in Word /\ walk.adding \in Word /\ words \in SetTree
            BY <1>1, <1>2, <2>2 DEF SetWalk, WordOrNone, Searched, SetLeads
        <3>1. PICK cmp \in Int : cmp = Strcmp[walk.n, walk.adding]
            BY <3>0, StrcmpAssumption
        <3>2. PICK c : c = words.child[Toward(cmp)][walk.n]
            OBVIOUS
        <3>3. w = [walk EXCEPT !.gg = walk.g, !.g = walk.p, !.p = walk.n, !.n = c,
                               !.ggCmp = walk.gCmp, !.gCmp = walk.pCmp, !.pCmp = cmp]
            BY <2>1, <3>1, <3>2, Zenon DEF Below
        <3>4. c \in WordOrNone
            BY <3>0, <3>2, SetSides, TreeFieldsOf
        <3>5. /\ w \in SetWalk /\ w.adding = walk.adding /\ w.gg = walk.g /\ w.g = walk.p /\ w.p = walk.n
              /\ w.ggCmp = walk.gCmp /\ w.gCmp = walk.pCmp /\ w.pCmp = cmp /\ w.n = c
            BY <3>3, <3>4, <1>1 DEF SetWalk
        <3> QED
            BY <3>1, <3>2, <3>5 DEF IsBelow, Way
    <2>5. OnWay(words, asked, R, w) /\ (Below2(words, asked, R, w) \/ Arrived(words, w)) /\ w \in SetWalk
        BY <2>2, <2>3, <2>4, <1>1, <1>2, WalkArrives DEF IsBelow
    <2>6. TwoRed(w.n) <=> BothRed(words, w.n)
        BY DEF TwoRed, BothRed, IsRed, SetSide
    <2>7. CASE ~(w.n # NoWord /\ BothRed(words, w.n))
        <3>1. words' = words /\ walk' = w
            BY <2>2, <2>6, <2>7
        <3>2. WellSet(words, asked, w)
            BY <2>5, <2>7, <1>2, WalkPasses
        <3> QED
            BY <3>1, <3>2, <2>2 DEF SetWell
    <2>8. CASE w.n # NoWord /\ BothRed(words, w.n)
        <3>1. PICK r : r = Flipped(words, w.n)
            OBVIOUS
        <3>2. IF words.red[w.p] THEN WellSet(Repaired(r, w), asked, WalkOn(r, w)) ELSE WellSet(r, asked, w)
            BY <3>1, <2>5, <2>8, <1>2, WalkFlips
        <3>3. WellSet(words', asked, walk')
            BY <3>1, <3>2, <2>2, <2>6, <2>8
        <3> QED
            BY <3>3, <2>2 DEF SetWell
    <2> QED
        BY <2>7, <2>8
<1>6. CASE SetThere
    <2>1. walk' = NoWalk /\ words' = words /\ asked' = asked
        BY <1>6 DEF SetThere
    <2>2. WellSet(words, asked, NoWalk)
        BY <1>1, <1>2 DEF WellSet
    <2> QED
        BY <2>1, <2>2 DEF SetWell
<1>7. CASE SetLink
    <2>1. PICK r, x : r = Coloured(Hung(words, Toward(walk.pCmp), walk.p, walk.adding), walk.adding, TRUE) /\ x = [walk EXCEPT !.n = walk.adding]
        OBVIOUS
    <2>2. /\ walk.adding # NoWord /\ walk.n = NoWord /\ walk' = NoWalk /\ asked' = asked \cup {walk.adding}
          /\ words' = IF words.red[walk.p] THEN Repaired(r, x) ELSE r
        BY <1>7, <2>1, Zenon DEF SetLink, SetIdle
    <2>3. Walking(words, asked, R, walk)
        BY <1>2, <2>2
    <2>4. PICK v : v = IF words.red[walk.p] THEN Repaired(r, x) ELSE r
        OBVIOUS
    <2>5. WellSet(v, asked \cup {walk.adding}, NoWalk)
        BY <2>1, <2>2, <2>3, <2>4, <1>1, <1>2, WalkLinks
    <2> QED
        BY <2>2, <2>4, <2>5 DEF SetWell
<1>8. CASE SetClear
    <2>1. words' = NoTree /\ asked' = {} /\ walk' = walk /\ walk.adding = NoWord
        BY <1>8 DEF SetClear, SetIdle
    <2>2. WellSet(NoTree, {}, walk)
        BY <2>1, <1>1, EmptySet
    <2> QED
        BY <2>1, <2>2 DEF SetWell
<1> QED
    BY <1>3, <1>4, <1>5, <1>6, <1>7, <1>8 DEF SetNext

LEMMA SetWellHolds == SetSpec => []SetWell
<1>1. SetInit => SetWell
    <2>1. NoWalk \in SetWalk /\ NoWalk.adding = NoWord
        BY DEF SetWalk, NoWalk, WordOrNone
    <2> QED
        BY <2>1, EmptySet DEF SetInit, SetWell
<1>2. SetWell /\ [SetNext]_setVars => SetWell'
    BY SetWellStep
<1> QED
    BY <1>1, <1>2, PTL DEF SetSpec

\* At every step of an addition, rq_set_rb_find finds the keys that were added and no
\* others: no turn on the way down loses a node or leaves one where the order does not lead.
THEOREM SetIsSet ==
    ASSUME IsFiniteSet(Word) PROVE SetSpec => []SetKeeps
<1>1. SetWell => SetKeeps
    <2> SUFFICES ASSUME SetWell PROVE SetKeeps
        OBVIOUS
    <2>1. PICK R, E : SetLeads(words, asked, R, E)
        BY DEF SetWell, WellSet, Searched
    <2>2. ASSUME NEW k \in Word PROVE SetFind(words, k) = IF k \in asked THEN k ELSE NoWord
        BY <2>1, SetFinds
    <2> QED
        BY <2>2 DEF SetKeeps
<1> QED
    BY <1>1, SetWellHolds, PTL
-----------------------------------------------------------------------------
\* Each step is one of a single container, and the others stay.
LEMMA StepsOfOne ==
    ASSUME [MCNext]_AllVars
    PROVE  /\ [TableNext]_tableVars /\ [SetNext]_setVars /\ [ArrayNext]_arrayVars /\ [ManagerNext \/ EngineNext]_registryVars
           /\ using = "partitioned" => [PartitionedNext]_pagedVars /\ using' = "partitioned"
           /\ using # "partitioned" => [VectorNext]_pagedVars /\ using' # "partitioned"
<1>1. CASE UNCHANGED AllVars
    BY <1>1 DEF AllVars
<1>2. CASE MCNext
    <2>1. CASE Step("table", TableNext, <<setVars, pagedVars, arrayVars, listVars, registryVars>>)
        BY <2>1 DEF Step
    <2>2. CASE Step("set", SetNext, <<tableVars, pagedVars, arrayVars, listVars, registryVars>>)
        BY <2>2 DEF Step
    <2>3. CASE Step("vector", VectorNext, <<tableVars, setVars, arrayVars, listVars, registryVars>>)
        BY <2>3 DEF Step
    <2>4. CASE Step("partitioned", PartitionedNext, <<tableVars, setVars, arrayVars, listVars, registryVars>>)
        BY <2>4 DEF Step
    <2>5. CASE Step("array", ArrayNext, <<tableVars, setVars, pagedVars, listVars, registryVars>>)
        BY <2>5 DEF Step
    <2>6. CASE Step("list", ListNext, <<tableVars, setVars, pagedVars, arrayVars, registryVars>>)
        BY <2>6 DEF Step
    <2>7. CASE Step("managers", ManagerNext, <<tableVars, setVars, pagedVars, arrayVars, listVars>>)
        BY <2>7 DEF Step
    <2>8. CASE Step("engine", EngineNext, <<tableVars, setVars, pagedVars, arrayVars, listVars>>)
        BY <2>8 DEF Step
    <2> QED
        BY <1>2, <2>1, <2>2, <2>3, <2>4, <2>5, <2>6, <2>7, <2>8 DEF MCNext
<1> QED
    BY <1>1, <1>2

\* What was put into any of the containers and registries, for every size, hash and key,
\* is found there, and a seek in an array lands where it should.
THEOREM ItemsAreFound ==
    ASSUME IsFiniteSet(TableKey), IsFiniteSet(Word) PROVE MCSpec => []ItemsFound
<1>1. MCInit => TableInit /\ SetInit /\ PagedInit /\ ArrayInit /\ RegistryInit
    BY DEF MCInit
<1>2. [MCNext]_AllVars => [TableNext]_tableVars /\ [SetNext]_setVars /\ [ArrayNext]_arrayVars /\ [ManagerNext \/ EngineNext]_registryVars
    BY StepsOfOne
<1>3. [MCNext]_AllVars /\ using = "partitioned" => [PartitionedNext]_pagedVars /\ (using = "partitioned")'
    BY StepsOfOne
<1>4. [MCNext]_AllVars /\ ~(using = "partitioned") => [VectorNext]_pagedVars /\ (~(using = "partitioned"))'
    BY StepsOfOne
<1>5. MCSpec => TableSpec /\ SetSpec /\ ArraySpec /\ RegistrySpec
    BY <1>1, <1>2, PTL DEF MCSpec, TableSpec, SetSpec, ArraySpec, RegistrySpec
<1>6. MCSpec => PartitionedSpec \/ VectorSpec
    BY <1>1, <1>3, <1>4, PTL DEF MCSpec, PartitionedSpec, VectorSpec
<1>7. TableSpec => []TableKeeps
    BY TableIsMap, EnoughPrimes
<1>8. SetSpec => []SetKeeps
    BY SetIsSet
<1>9. TableKeeps /\ SetKeeps /\ ElementsKept /\ SeekLands /\ RecordsKept /\ AdaptersKept => ItemsFound
    BY DEF ItemsFound
<1> QED
    BY <1>5, <1>6, <1>7, <1>8, <1>9, SeeksLand, RecordsAreKept, AdaptersAreKept, VectorsKeep, PartitionedKeep, PTL
=============================================================================
