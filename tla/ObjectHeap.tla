----------------------------- MODULE ObjectHeap -----------------------------
(***************************************************************************)
(* The objects of rq_object.c and the manager that they come from: an      *)
(* object's address is its place in the heap, the manager's symbol tables  *)
(* are a stack of scopes.  Calls are operators from one memory to the next *)
(* (a record m) with the address that they return.  A failed assertion, or *)
(* the use of a wild pointer, halts the memory, and nothing changes it     *)
(* afterwards.  Dates, which are numbers of a third type, and vectors,     *)
(* trees and records, which nothing built in makes, are left out.          *)
(***************************************************************************)
EXTENDS Integers, SequencesExt

CONSTANT
    Printed  \* what numbers look like: a function from integers to names

\* A pointer that was never set, and the two objects that are not allocated.
Wild == 0
Nil == 1
True == 2

Plain(t) == [type |-> t, num |-> 0, name |-> "", kids |-> <<>>]
Number(t, n) == [Plain(t) EXCEPT !.num = n]
Named(t, s) == [Plain(t) EXCEPT !.name = s]
Pair(a, b) == [Plain("cons") EXCEPT !.kids = <<a, b>>]

\* A memory and the object that a call returns.
Ret(m, a) == [m |-> m, val |-> a]
Halt(m, why) == Ret(IF m.halt = "" THEN [m EXCEPT !.halt = why] ELSE m, Nil)

Is(m, a, t) == a # Wild /\ m.heap[a].type = t
Car(m, a) == m.heap[a].kids[1]
Cdr(m, a) == m.heap[a].kids[2]

\* Slip: only the one object is nil.
IsNil_Same(m, a) == a = Nil

\* rq_object_is_nil: the object itself, whatever has become of it, or any other of
\* its type.
IsNil(m, a) == a = Nil \/ Is(m, a, "nil")

\* _rq_object_mgr_alloc_object.  There is never a free list: the collector does not
\* get further than the first object that it sweeps.
Alloc(m, o) == Ret([m EXCEPT !.heap = Append(@, o)], Len(m.heap) + 1)

\* rq_object_tag_hierarchy: what is tagged from an object.
RECURSIVE Tagged(_, _)
Tagged(m, a) == {a} \cup UNION {Tagged(m, k) : k \in ToSet(m.heap[a].kids)}

RECURSIVE CloneAll(_, _, _), Clone(_, _)

\* Slip: a copy is the object itself.
Clone_Same(m, a) == Ret(m, a)

\* rq_object_clone: the objects of a list are copied too, also nil and t.
Clone(m, a) ==
    IF a = Wild THEN Halt(m, "wild")
    ELSE LET o == m.heap[a]
             blank == Alloc(m, [o EXCEPT !.kids = <<>>])
         IN IF o.type = "cons"
            THEN LET c == CloneAll(blank.m, o.kids, <<>>)
                 IN Ret([c.m EXCEPT !.heap[blank.val].kids = c.val], blank.val)
            ELSE blank
CloneAll(m, todo, done) ==
    IF todo = <<>> THEN Ret(m, done)
    ELSE LET c == Clone(m, Head(todo)) IN CloneAll(c.m, Tail(todo), Append(done, c.val))

\* Slip: what a list was made of is cleared too.
SetObject_Deep(m, a, b) ==
    LET o == m.heap[b]
        c == CloneAll(m, o.kids, <<>>)
        gone == IF m.heap[a].type = "cons" THEN Tagged(m, a) \ {Nil, True} ELSE {a}
    IN [c.m EXCEPT !.heap = [i \in DOMAIN @ |-> IF i = a THEN [o EXCEPT !.kids = c.val]
                                                ELSE IF i \in gone THEN Plain("nil") ELSE @[i]]]

\* rq_object_set_object: an object becomes a copy of another, where it is.
SetObject(m, a, b) ==
    LET cleared == [m EXCEPT !.heap[a] = Plain("nil")]
        o == cleared.heap[b]
        c == CloneAll(cleared, o.kids, <<>>)
    IN [c.m EXCEPT !.heap[a] = [o EXCEPT !.kids = c.val]]

\* atol, atof: what is no number counts as 0.
Parsed(s) == LET n == {i \in DOMAIN Printed : Printed[i] = s}
             IN IF n = {} THEN 0 ELSE CHOOSE i \in n : TRUE

Numeric(o) == CASE o.type \in {"int", "double"} -> o.num
                [] o.type \in {"string", "id"} -> Parsed(o.name)
                [] OTHER -> 0

\* rq_object_coerce_integer and rq_object_coerce_double: the object itself becomes the
\* number that is returned.
Coerce(m, a, t) ==
    CASE a = Wild -> Halt(m, "wild")
      [] a # Wild /\ m.heap[a].type = "builtin" -> Halt(m, "assert")
      [] OTHER -> LET n == Numeric(m.heap[a]) IN Ret([m EXCEPT !.heap[a] = Number(t, n)], n)

\* rq_object_coerce_string and rq_object_coerce_identifier ("id"): the object becomes
\* the text, if there is one.
CoerceText(m, a, t) ==
    IF a = Wild THEN Halt(m, "wild")
    ELSE LET o == m.heap[a]
             as(s) == Ret([m EXCEPT !.heap[a] = Named(t, s)], a)
         IN CASE o.type \in {"string", "id"} -> as(o.name)
              [] o.type \in {"int", "double"} -> as(Printed[o.num])
              [] o.type = "nil" /\ t = "string" -> as("nil")
              [] o.type = "true" /\ t = "string" -> as("t")
              [] o.type = "nil" /\ t = "id" -> Ret(m, a)
              [] o.type = "cons" -> Ret(m, a)
              [] OTHER -> Halt(m, "assert")
-----------------------------------------------------------------------------
\* The symbol tables: functions from the names that are bound to objects.
TopScope(m) == Len(m.scopes)
InTable(m, i, id) == IF id \in DOMAIN m.scopes[i] THEN m.scopes[i][id] ELSE Nil

\* rq_object_mgr_symbol_find: from the top down, but nil is passed over.
SymbolFind(m, id) ==
    LET S == {i \in 1..TopScope(m) : ~IsNil(m, InTable(m, i, id))}
    IN InTable(m, IF S = {} THEN 1 ELSE Max(S), id)

\* Slip: what is bound to nil stays so.
SymbolAdd_Keeps(m, id, a) ==
    IF id \in DOMAIN m.scopes[TopScope(m)] THEN m
    ELSE [m EXCEPT !.scopes[TopScope(m)] = [n \in DOMAIN @ \cup {id} |-> IF n = id THEN a ELSE @[n]]]

\* rq_object_mgr_symbol_add: to the top; a binding that is there is replaced.
SymbolAdd(m, id, a) ==
    [m EXCEPT !.scopes[TopScope(m)] = [n \in DOMAIN @ \cup {id} |-> IF n = id THEN a ELSE @[n]]]

\* rq_interpreter_symbol_set.
SymbolSet(m, id, a) ==
    LET o == SymbolFind(m, id)
    IN IF o = Nil THEN SymbolAdd(m, id, a) ELSE SetObject(m, o, a)

\* rq_object_mgr_symbol_set_local: the object itself is bound.
SymbolSetLocal(m, id, a) ==
    LET o == InTable(m, TopScope(m), id)
    IN IF IsNil(m, o) THEN SymbolAdd(m, id, a) ELSE SetObject(m, o, a)

Push(m) == [m EXCEPT !.scopes = Append(@, <<>>)]
Pop(m) == [m EXCEPT !.scopes = Front(@)]

\* rq_object_mgr_garbage_collect: what is bound is tagged, the rest swept.  Having
\* swept one object, rq_double_linked_list_erase returns the list's node that it has
\* freed, and the collector goes on from there.
Bound(m) == UNION {UNION {Tagged(m, m.scopes[i][n]) : n \in DOMAIN m.scopes[i]}
                   : i \in DOMAIN m.scopes}
Garbage(m) == (True + 1 .. Len(m.heap)) \ Bound(m)
Collected(m) ==
    IF Garbage(m) = {} THEN m
    ELSE [m EXCEPT !.heap[Min(Garbage(m))] = Plain("nil"), !.halt = "freed"]
=============================================================================
