---------------------------- MODULE LinkedList ----------------------------
(***************************************************************************)
(* rq_double_linked_list and rq_linked_list.  The double list is that of   *)
(* the interpreter's objects and symbol tables, the single one that of the *)
(* rates of a bootstrap and of flows.                                      *)
(***************************************************************************)
EXTENDS Integers, SequencesExt

CONSTANTS Node, NoNode   \* the memory

ASSUME NoNodeAssumption == NoNode \notin Node

VARIABLES
    list,    \* head, tail and count, and the links of the nodes
    double,  \* which of the two lists it is
    iter,    \* the node an iterator is at, or NoNode at either end
    order    \* history: the nodes in the order in which they were put

listVars == <<list, double, iter, order>>

Used == ToSet(order)
NoList == [head |-> NoNode, tail |-> NoNode, count |-> 0,
           next |-> [n \in Node |-> NoNode], prev |-> [n \in Node |-> NoNode]]

\* n steps along a link, which end at the end of the list.
Along(link, from, n) ==
    LET step[i \in 0..n] == IF i = 0 THEN from
                            ELSE IF step[i-1] = NoNode THEN NoNode ELSE link[step[i-1]]
    IN step[n]

\* iter_seek: from the head, from the tail, or from where the iterator is.
SeekNode(l, pos, how, n) ==
    CASE how = "start" -> Along(l.next, l.head, n)
      [] how = "cur" /\ n >= 0 -> Along(l.next, pos, n)
      [] how = "cur" /\ n < 0 -> Along(l.prev, pos, -n)
      [] OTHER -> Along(l.prev, l.tail, IF n < 0 THEN -n ELSE n)

\* rq_linked_list_append.
Linked(l, n) ==
    IF l.tail = NoNode THEN [l EXCEPT !.head = n, !.tail = n, !.count = @ + 1]
    ELSE [l EXCEPT !.next[l.tail] = n, !.tail = n, !.count = @ + 1]

\* rq_double_linked_list_append.
LinkedLast(l, n) == [Linked(l, n) EXCEPT !.prev[n] = l.tail]

\* rq_double_linked_list_prepend.
LinkedFirst(l, n) ==
    IF l.head = NoNode THEN Linked(l, n)
    ELSE [l EXCEPT !.next[n] = l.head, !.prev[l.head] = n, !.head = n, !.count = @ + 1]

\* Slip: the tail stays where it was.
Unlinked_OldTail(l, n) ==
    LET p == l.prev[n]
        x == l.next[n]
    IN [l EXCEPT !.head = IF p = NoNode THEN x ELSE @, !.count = @ - 1,
                 !.next = [m \in Node |-> CASE m = n -> NoNode [] p # NoNode /\ m = p -> x [] OTHER -> @[m]],
                 !.prev = [m \in Node |-> CASE m = n -> NoNode [] x # NoNode /\ m = x -> p [] OTHER -> @[m]]]

\* rq_double_linked_list_erase: the neighbours are linked, n is freed.
Unlinked(l, n) ==
    LET p == l.prev[n]
        x == l.next[n]
    IN [l EXCEPT !.head = IF p = NoNode THEN x ELSE @, !.tail = IF x = NoNode THEN p ELSE @,
                 !.count = @ - 1,
                 !.next = [m \in Node |-> CASE m = n -> NoNode [] p # NoNode /\ m = p -> x [] OTHER -> @[m]],
                 !.prev = [m \in Node |-> CASE m = n -> NoNode [] x # NoNode /\ m = x -> p [] OTHER -> @[m]]]
-----------------------------------------------------------------------------
\* rq_linked_list_alloc and rq_double_linked_list_alloc.
ListInit == list = NoList /\ double \in BOOLEAN /\ iter = NoNode /\ order = << >>

\* An iterator of either kind is begun, moved or sought; that of a single list only
\* goes on.  The client does not use one whose node is freed.
Valid == iter \in Used \cup {NoNode}
Places == {SeekNode(list, iter, how, n) : how \in {"start", "cur"}, n \in 0..2} \cup
          IF double THEN {SeekNode(list, iter, how, n) : how \in {"cur", "end"}, n \in -2..-1} ELSE {}
ListIterate == Valid /\ iter' \in Places /\ UNCHANGED <<list, double, order>>

ListAppend(n) ==
    /\ n \notin Used
    /\ list' = IF double THEN LinkedLast(list, n) ELSE Linked(list, n)
    /\ order' = Append(order, n)
    /\ UNCHANGED <<double, iter>>

ListPrepend(n) ==
    /\ double /\ n \notin Used
    /\ list' = LinkedFirst(list, n)
    /\ order' = <<n>> \o order
    /\ UNCHANGED <<double, iter>>

\* The sequence without its element i.
Without(s, i) == [j \in 1..Len(s)-1 |-> IF j < i THEN s[j] ELSE s[j+1]]

\* What is returned is the iterator itself, though its node is freed.
ListErase ==
    /\ double /\ iter \in Used
    /\ list' = Unlinked(list, iter)
    /\ \E i \in DOMAIN order : order[i] = iter /\ order' = Without(order, i)
    /\ UNCHANGED <<double, iter>>

\* A client that does not know where to go on begins anew.
ListBegin == iter' = list.head /\ UNCHANGED <<list, double, order>>

ListNext == ListIterate \/ ListErase \/ ListBegin
            \/ \E n \in Node : ListAppend(n) \/ ListPrepend(n)
-----------------------------------------------------------------------------
\* The head, the tail and every link are those of the nodes in their order, so that a
\* walk in either direction meets each node once and ends, and the count is theirs.
LinksKept ==
    LET n == Len(order)
        at(i) == IF i \in 1..n THEN order[i] ELSE NoNode
    IN /\ list.count = n
       /\ list.head = at(1) /\ list.tail = at(n)
       /\ \A i \in 1..n : /\ list.next[order[i]] = at(i+1)
                          /\ double => list.prev[order[i]] = at(i-1)

=============================================================================
