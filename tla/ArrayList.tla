----------------------------- MODULE ArrayList -----------------------------
(***************************************************************************)
(* rq_array, and its iterator.  The elements are pointers.                 *)
(***************************************************************************)
EXTENDS Integers, SequencesExt

CONSTANTS
    Pointer,
    StartSize, GrowSize, DoubleUntil,  \* bounds: 2, 1024 and 1024 in the code
    MaxElements,                       \* bound: no more elements are added
    Junk                               \* what memory holds that nobody wrote

ASSUME ArraySizes == {StartSize, GrowSize, DoubleUntil, MaxElements} \subseteq Nat /\ StartSize > 1 /\ GrowSize > 0
ASSUME JunkAssumption == Junk \notin Pointer

VARIABLES
    arr,     \* max, size, and the memory the elements are in
    cursor,  \* cur_pos of an iterator over the array
    expect   \* history: the elements, or "lost" after a call for none of them

arrayVars == <<arr, cursor, expect>>

Grown(mem, n) == [i \in 0..n-1 |-> IF i \in DOMAIN mem THEN mem[i] ELSE Junk]

\* Slip: beyond the doubling, max is not what was allocated.
Room_Short(a) ==
    IF a.size # a.max - 1 THEN a
    ELSE IF a.size <= DoubleUntil
         THEN [a EXCEPT !.max = 2 * @, !.mem = Grown(@, 2 * a.max)]
         ELSE [a EXCEPT !.max = @ + GrowSize, !.mem = Grown(@, GrowSize)]

\* grow_if_necessary: before the last element of the memory is taken it is doubled,
\* or a large one grows by a fixed size.
Room(a) ==
    LET more == IF a.size <= DoubleUntil THEN 2 * a.max ELSE a.max + GrowSize
    IN IF a.size # a.max - 1 THEN a ELSE [a EXCEPT !.max = more, !.mem = Grown(@, more)]
-----------------------------------------------------------------------------
\* rq_array_alloc.
ArrayInit ==
    /\ arr = [max |-> StartSize, size |-> 0, mem |-> [i \in 0..StartSize-1 |-> Junk]]
    /\ cursor = 0
    /\ expect = << >>

InBounds == arr.size <= MaxElements

\* rq_array_push_back.
ArrayPush(x) ==
    LET a == Room(arr) IN
    /\ InBounds /\ arr.size < MaxElements
    /\ arr' = [a EXCEPT !.mem = [i \in DOMAIN @ |-> IF i = a.size THEN x ELSE @[i]], !.size = @ + 1]
    /\ expect' = Append(expect, x)
    /\ UNCHANGED cursor

\* rq_array_insert_at behind the first element.  At the first its loop would go on
\* below zero, of an empty array it would start there; nothing inserts there.
ArrayInsert(o, x) ==
    LET a == Room(arr) IN
    /\ InBounds /\ arr.size < MaxElements /\ o \in 1..arr.size
    /\ arr' = [a EXCEPT !.mem = [i \in DOMAIN @ |->
                                    CASE i \in o+1..a.size -> @[i-1]
                                      [] i = o -> x
                                      [] OTHER -> @[i]], !.size = @ + 1]
    /\ expect' = InsertAt(expect, o + 1, x)
    /\ UNCHANGED cursor

\* rq_array_remove_at; past the end it takes the last element away.
ArrayRemove(o) ==
    /\ arr.size > 0
    /\ arr' = [arr EXCEPT !.size = @ - 1,
                          !.mem = [i \in DOMAIN @ |-> IF i \in o..arr.size-2 THEN @[i+1] ELSE @[i]]]
    /\ expect' = IF o < arr.size THEN RemoveAt(expect, o + 1) ELSE Front(expect)
    /\ UNCHANGED cursor

\* rq_array_clear.
ArrayClear == arr' = [arr EXCEPT !.size = 0] /\ expect' = << >> /\ UNCHANGED cursor
-----------------------------------------------------------------------------
\* iter_seek: where the iterator is then, and whether it failed.
Landed(a, pos) == IF pos >= a.size THEN <<IF a.size > 0 THEN a.size - 1 ELSE 0, TRUE>> ELSE <<pos, FALSE>>
SteppedBack(pos, n) == IF pos >= n THEN <<pos - n, FALSE>> ELSE <<0, TRUE>>
Seek(a, pos, how, n) ==
    CASE how = "start" -> Landed(a, n)
      [] how = "cur" /\ n >= 0 -> Landed(a, pos + n)
      [] how = "cur" /\ n < 0 -> SteppedBack(pos, -n)
      [] OTHER -> SteppedBack(IF a.size > 0 THEN a.size - 1 ELSE pos, IF n < 0 THEN -n ELSE n)

\* iter_incr and iter_decr.
Forth(a, pos) == IF pos < a.size THEN pos + 1 ELSE pos
Back(pos) == IF pos >= 0 THEN pos - 1 ELSE pos

ArrayIterate ==
    /\ cursor' \in {Forth(arr, cursor), Back(cursor)} \cup
                   {Seek(arr, cursor, how, n)[1] : how \in {"start", "cur", "end"}, n \in -2..2}
    /\ UNCHANGED <<arr, expect>>

ArrayNext == \/ \E x \in Pointer : ArrayPush(x) \/ \E o \in 1..MaxElements : ArrayInsert(o, x)
             \/ \E o \in 0..MaxElements : ArrayRemove(o)
             \/ ArrayClear \/ ArrayIterate
-----------------------------------------------------------------------------
\* The array has what was put into it, in its order, in memory that was allocated,
\* with one element to spare.
ArrayHolds ==
    /\ arr.size = Len(expect) /\ DOMAIN arr.mem = 0..arr.max-1
    /\ arr.size < arr.max
    /\ \A i \in 1..arr.size : arr.mem[i-1] = expect[i]

\* From an element, a seek comes to the one that is so many before or after it, the
\* first or the last, and fails only where there is no such element.
SeekLands ==
    cursor \in 0..arr.size-1 =>
        \A n \in -MaxElements..MaxElements :
            LET Right(how, to) ==
                    Seek(arr, cursor, how, n) = IF to < 0 THEN <<0, TRUE>>
                                                ELSE IF to >= arr.size THEN <<arr.size - 1, TRUE>>
                                                ELSE <<to, FALSE>>
            IN /\ n >= 0 => Right("start", n)
               /\ n <= 0 => Right("end", arr.size - 1 + n)
               /\ Right("cur", cursor + n)

=============================================================================
