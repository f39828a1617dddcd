-------------------------- MODULE DateTablesProofs --------------------------
(***************************************************************************)
(* Proofs about DateTables, for any dates, any memory and any number of    *)
(* entries: the tables stay sorted, nothing is written past the memory, no *)
(* search leaves its table or loses the place it looks for, reads are of   *)
(* the nearest dates, and no call disturbs the entries of another date.    *)
(* And about VolSurface, for any keys, rows and changes: rows stay in      *)
(* order and own their curves, and reads are of the nearest rows.          *)
(***************************************************************************)
EXTENDS VolSurface, FiniteSetTheorems, SequenceTheorems, Induction, TLAPS

LEMMA Fields ==
    ASSUME NEW e \in Entry
    PROVE  e.at \in Date /\ e.at \in Int /\ e.val \in SUBSET Value
BY DateAssumption DEF Entry

LEMMA Entries ==
    ASSUME NEW t \in Seq(Entry)
    PROVE  /\ Len(t) \in Nat /\ DOMAIN t = 1..Len(t)
           /\ \A j \in 1..Len(t) : t[j] \in Entry /\ t[j].at \in Date /\ t[j].at \in Int
<1>1. Len(t) \in Nat /\ DOMAIN t = 1..Len(t)
    OBVIOUS
<1>2. \A j \in 1..Len(t) : t[j] \in Entry
    OBVIOUS
<1> QED
    BY <1>1, <1>2, Fields

\* What an insertion does to a table.
LEMMA Inserted ==
    ASSUME NEW t \in Seq(Entry), NEW i \in 1..Len(t)+1, NEW e \in Entry,
           NEW r, r = InsertAt(t, i, e)
    PROVE  /\ r \in Seq(Entry) /\ Len(r) = Len(t) + 1
           /\ \A j \in 1..Len(t)+1 :
                r[j] = IF j < i THEN t[j] ELSE IF j = i THEN e ELSE t[j-1]
<1> DEFINE a == SubSeq(t, 1, i-1)
           b == SubSeq(t, i, Len(t))
<1>1. a \in Seq(Entry) /\ Len(a) = i - 1 /\ \A j \in 1..i-1 : a[j] = t[j]
    BY SMT
<1>2. b \in Seq(Entry) /\ Len(b) = Len(t) - i + 1 /\ \A j \in 1..Len(b) : b[j] = t[i + j - 1]
    BY SMT
<1>3. <<e>> \in Seq(Entry) /\ Len(<<e>>) = 1 /\ <<e>>[1] = e
    OBVIOUS
<1> DEFINE c == a \o <<e>>
<1>4. c \in Seq(Entry) /\ Len(c) = i /\ (\A j \in 1..i-1 : c[j] = t[j]) /\ c[i] = e
  <2> HIDE DEF a
  <2> QED
    BY <1>1, <1>3
<1>5. r = c \o b
    BY DEF InsertAt
<1> HIDE DEF a, b, c
<1>6. r \in Seq(Entry) /\ Len(r) = Len(t) + 1
    BY <1>2, <1>4, <1>5
<1>7. \A j \in 1..Len(t)+1 : r[j] = IF j <= i THEN c[j] ELSE b[j - i]
    BY <1>2, <1>4, <1>5
<1>8. ASSUME NEW j \in 1..Len(t)+1
      PROVE  r[j] = IF j < i THEN t[j] ELSE IF j = i THEN e ELSE t[j-1]
  <2>1. CASE j < i
    BY <2>1, <1>4, <1>7
  <2>2. CASE j = i
    BY <2>2, <1>4, <1>7
  <2>3. CASE j > i
    <3>1. j - i \in 1..Len(b) /\ i + (j - i) - 1 = j - 1
      BY <2>3, <1>2
    <3> QED
      BY <2>3, <3>1, <1>2, <1>7
  <2> QED
    BY <2>1, <2>2, <2>3
<1> QED
    BY <1>6, <1>8

LEMMA InsertedType ==
    ASSUME NEW t \in Seq(Entry), NEW i \in 1..Len(t)+1, NEW e \in Entry
    PROVE  InsertAt(t, i, e) \in Seq(Entry) /\ Len(InsertAt(t, i, e)) = Len(t) + 1
BY Inserted

Revalue(t, i, V) == [t EXCEPT ![i].val = V]

\* What a new value does to a table: the dates stay.
LEMMA Revalued ==
    ASSUME NEW t \in Seq(Entry), NEW i, NEW V \in SUBSET Value
    PROVE  /\ Revalue(t, i, V) \in Seq(Entry) /\ Len(Revalue(t, i, V)) = Len(t)
           /\ \A j \in 1..Len(t) : Revalue(t, i, V)[j].at = t[j].at
<1> DEFINE r == [t EXCEPT ![i].val = V]
<1>1. /\ Len(t) \in Nat /\ DOMAIN t = 1..Len(t)
      /\ \A j \in 1..Len(t) : t[j] \in Entry
    BY Entries
<1>2. r = [j \in 1..Len(t) |-> IF j = i THEN [t[i] EXCEPT !.val = V] ELSE t[j]]
    BY <1>1
<1>3. \A j \in 1..Len(t) : r[j] \in Entry /\ r[j].at = t[j].at
    BY <1>1, <1>2 DEF Entry
<1>4. r \in Seq(Entry) /\ Len(r) = Len(t)
  <2>1. r \in [1..Len(t) -> Entry]
    BY <1>2, <1>3
  <2> QED
    BY <1>1, <2>1, SeqDef, LenProperties
<1> QED
    BY <1>1, <1>3, <1>4 DEF Revalue

\* The order, strict where a date occurs once.
Before(a, b, strict) == IF strict THEN a < b ELSE a <= b
Ordered(t, strict) ==
    \A i, j \in 1..Len(t) : i < j => Before(t[i].at, t[j].at, strict)

\* An insertion between the earlier and the later dates keeps the order.
LEMMA InsertedOrder ==
    ASSUME NEW t \in Seq(Entry), NEW strict \in BOOLEAN, Ordered(t, strict),
           NEW i \in 1..Len(t)+1, NEW e \in Entry,
           \A j \in 1..Len(t) : j < i => Before(t[j].at, e.at, strict),
           \A j \in 1..Len(t) : j >= i => Before(e.at, t[j].at, strict)
    PROVE  Ordered(InsertAt(t, i, e), strict)
<1> DEFINE r == InsertAt(t, i, e)
<1>1. /\ Len(t) \in Nat /\ Len(r) = Len(t) + 1
      /\ \A j \in 1..Len(t)+1 : r[j] = IF j < i THEN t[j] ELSE IF j = i THEN e ELSE t[j-1]
    BY Inserted, Entries
<1> HIDE DEF r
<1>2. ASSUME NEW j \in 1..Len(t)+1, NEW k \in 1..Len(t)+1, j < k
      PROVE  Before(r[j].at, r[k].at, strict)
  <2>1. CASE k < i
    BY <1>1, <1>2, <2>1 DEF Ordered
  <2>2. CASE k = i
    <3>1. j \in 1..Len(t) /\ j < i /\ r[j] = t[j] /\ r[k] = e
      BY <1>1, <1>2, <2>2
    <3> QED
      BY <3>1
  <2>3. CASE k > i /\ j < i
    BY <1>1, <1>2, <2>3 DEF Ordered
  <2>4. CASE k > i /\ j = i
    BY <1>1, <1>2, <2>4
  <2>5. CASE k > i /\ j > i
    BY <1>1, <1>2, <2>5 DEF Ordered
  <2> QED
    BY <2>1, <2>2, <2>3, <2>4, <2>5
<1>3. Ordered(r, strict)
    BY <1>1, <1>2 DEF Ordered
<1> QED
    BY <1>3 DEF r

LEMMA RevaluedOrder ==
    ASSUME NEW t \in Seq(Entry), NEW i, NEW V \in SUBSET Value,
           NEW strict \in BOOLEAN, Ordered(t, strict)
    PROVE  Ordered(Revalue(t, i, V), strict)
<1> DEFINE r == Revalue(t, i, V)
<1>1. Len(r) = Len(t) /\ \A j \in 1..Len(t) : r[j].at = t[j].at
    BY Revalued
<1> HIDE DEF r
<1>2. Ordered(r, strict)
    BY <1>1 DEF Ordered
<1> QED
    BY <1>2 DEF r

InOrder(k, t) == /\ k \in Linear \cup {"events"} => Ordered(t, TRUE)
                 /\ k = "vol" => Ordered(t, FALSE)

LEMMA SortedIs ==
    /\ TypeOK => (Sorted <=> InOrder(kind, table))
    /\ TypeOK' => (Sorted' <=> InOrder(kind', table'))
<1>1. TypeOK => table \in Seq(Entry) /\ DOMAIN table = 1..Len(table)
    BY Entries DEF TypeOK
<1>2. TypeOK' => table' \in Seq(Entry) /\ DOMAIN table' = 1..Len(table')
    BY Entries DEF TypeOK
<1> QED
    BY <1>1, <1>2 DEF Sorted, InOrder, Ordered, Before
-----------------------------------------------------------------------------
\* Between the steps of a search: whose it is, that its date is one, and that there
\* is memory for the entry that may come of it.  When the halving of
\* rq_vol_curve_add ends, the bounds are neighbours.
SearchInv ==
    /\ pc = "events" => /\ kind = "events" /\ ask.at \in Date
                        /\ ask.what \in {"set", "look"}
    /\ pc \in {"vol", "insert"} => /\ kind = "vol" /\ ask.at \in Date
                                   /\ ask.what = "set" /\ Len(table) < cap
    /\ pc = "insert" => hi - lo <= 1

IInv == TypeOK /\ Sorted /\ FitsCapacity /\ SearchBetween /\ SearchInv

LEMMA InitInv == Init => IInv
BY KindsAssumption, InitialAssumption
   DEF Init, IInv, TypeOK, Call, Sorted, FitsCapacity, SearchBetween, SearchInv

\* A step that ends or leaves the client idle, and changes the table in one of the
\* ways that are shown to keep the order.
LEMMA IdleInv ==
    ASSUME TypeOK', Sorted', pc' = "idle", Len(table') <= cap'
    PROVE  IInv'
BY DEF IInv, FitsCapacity, SearchBetween, SearchInv, TypeOK

LEMMA Memory == ASSUME IInv
                PROVE /\ Doubled \in Nat \ {0} /\ Len(table) < Doubled
                      /\ Len(table) \in Nat /\ Len(table) <= cap /\ cap \in Nat \ {0}
<1>1. table \in Seq(Entry) /\ cap \in Nat \ {0}
    BY DEF IInv, TypeOK
<1>2. Len(table) \in Nat
    BY <1>1
<1>3. Len(table) <= cap
    BY <1>1, <1>2 DEF IInv, FitsCapacity
<1> QED
    BY <1>1, <1>2, <1>3 DEF Doubled

LEMMA Entered ==
    ASSUME NEW d \in Date, NEW v \in Value
    PROVE  [at |-> d, val |-> {v}] \in Entry /\ {v} \in SUBSET Value
           /\ Setting(d, v) \in Call
BY DEF Entry, Call, Setting

LEMMA PutInOrderInv ==
    ASSUME IInv, NEW d \in Date, NEW v \in Value, kind \in Linear, PutInOrder(d, v)
    PROVE  IInv'
<1> DEFINE e == [at |-> d, val |-> {v}]
<1>1. e \in Entry /\ {v} \in SUBSET Value /\ Setting(d, v) \in Call
    BY Entered
<1>2. TypeOK /\ table \in Seq(Entry) /\ Ordered(table, TRUE)
    BY SortedIs DEF IInv, TypeOK, InOrder
<1>3. /\ cap' = Doubled /\ ask' = Setting(d, v) /\ pc' = "idle"
      /\ UNCHANGED <<kind, bounds, lo, hi, answer>>
    BY DEF PutInOrder, Done, Idle
<1>4. PICK i \in 1..Len(table)+1 :
        /\ Place(d, i)
        /\ IF i <= Len(table) /\ table[i].at = d
           THEN table' = [table EXCEPT ![i].val = {v}]
           ELSE Insert(i, d, {v})
    BY DEF PutInOrder
<1>5. /\ Len(table) \in Nat /\ DOMAIN table = 1..Len(table)
      /\ \A j \in 1..Len(table) : table[j].at \in Int
    BY <1>2, Entries
<1>6. d \in Int /\ e.at = d
    BY DateAssumption
<1>7. /\ table' \in Seq(Entry) /\ Ordered(table', TRUE)
      /\ Len(table') \in {Len(table), Len(table) + 1}
  <2>1. CASE i <= Len(table) /\ table[i].at = d
    <3>1. i \in DOMAIN table /\ table' = Revalue(table, i, {v})
      BY <1>4, <1>5, <2>1 DEF Revalue
    <3>2. table' \in Seq(Entry) /\ Len(table') = Len(table)
      BY <1>1, <1>2, <3>1, Revalued
    <3>3. Ordered(table', TRUE)
      BY <1>1, <1>2, <3>1, RevaluedOrder
    <3> QED
      BY <3>2, <3>3
  <2>2. CASE ~(i <= Len(table) /\ table[i].at = d)
    <3>1. table' = InsertAt(table, i, e)
      BY <1>4, <2>2 DEF Insert
    <3> HIDE DEF e
    <3>2. /\ \A j \in 1..Len(table) : j < i => Before(table[j].at, d, TRUE)
          /\ \A j \in 1..Len(table) : j >= i => Before(d, table[j].at, TRUE)
      <4>1. CASE table = <<>>
        BY <1>5, <4>1
      <4>2. CASE table # <<>> /\ table[Len(table)].at < d
        <5>1. i = Len(table) + 1
          BY <1>4, <4>2 DEF Place
        <5>2. \A j \in 1..Len(table) : table[j].at <= table[Len(table)].at
          BY <1>2, <1>5 DEF Ordered, Before
        <5>3. Len(table) \in 1..Len(table)
          BY <1>2, <1>5, <4>2
        <5> QED
          BY <1>5, <1>6, <4>2, <5>1, <5>2, <5>3 DEF Before
      <4>3. CASE table # <<>> /\ ~(table[Len(table)].at < d)
        <5>1. /\ i \in DOMAIN table /\ table[i].at >= d
              /\ \A j \in 1..i - 1 : table[j].at < d
          BY <1>4, <4>3 DEF Place
        <5>2. table[i].at > d
          BY <1>5, <1>6, <2>2, <5>1
        <5>3. \A j \in 1..Len(table) : j < i => table[j].at < d
          BY <1>5, <5>1
        <5>4. \A j \in 1..Len(table) : j >= i => table[j].at >= table[i].at
          BY <1>2, <1>5, <5>1 DEF Ordered, Before
        <5>5. \A j \in 1..Len(table) : j >= i => d < table[j].at
          BY <1>5, <1>6, <5>1, <5>2, <5>4
        <5> QED
          BY <5>3, <5>5 DEF Before
      <4> QED
        BY <4>1, <4>2, <4>3
    <3>3. table' \in Seq(Entry) /\ Len(table') = Len(table) + 1
      BY <1>1, <1>2, <3>1, Inserted
    <3> QED
      BY <1>1, <1>2, <1>6, <3>1, <3>2, <3>3, InsertedOrder
  <2> QED
    BY <2>1, <2>2
<1>8. TypeOK'
    BY <1>1, <1>2, <1>3, <1>7, Memory DEF TypeOK
<1>9. Sorted'
    BY <1>3, <1>7, <1>8, SortedIs DEF Linear, InOrder
<1>10. Len(table') <= cap'
    BY <1>3, <1>7, Memory
<1> QED
    BY <1>3, <1>8, <1>9, <1>10, IdleInv

LEMMA Table ==
    ASSUME IInv
    PROVE  /\ TypeOK /\ table \in Seq(Entry)
           /\ Len(table) \in Nat /\ DOMAIN table = 1..Len(table)
           /\ \A j \in 1..Len(table) : table[j] \in Entry /\ table[j].at \in Int
           /\ InOrder(kind, table)
<1>1. TypeOK /\ table \in Seq(Entry)
    BY DEF IInv, TypeOK
<1>2. InOrder(kind, table)
    BY <1>1, SortedIs DEF IInv
<1> QED
    BY <1>1, <1>2, Entries

\* The tables that are not sorted.
LEMMA SetPriceInv ==
    ASSUME IInv, NEW d \in Date, NEW v \in Value, SetPrice(d, v)
    PROVE  IInv'
<1> DEFINE e == [at |-> d, val |-> {v}]
<1>1. e \in Entry /\ {v} \in SUBSET Value /\ Setting(d, v) \in Call
    BY Entered
<1>2. /\ kind = "future" /\ cap' = Doubled /\ ask' = Setting(d, v) /\ pc' = "idle"
      /\ UNCHANGED <<kind, bounds, lo, hi, answer>>
    BY DEF SetPrice, Done, Idle
<1>3. table' \in Seq(Entry) /\ Len(table') \in {Len(table), Len(table) + 1}
  <2>1. CASE Exact(table, d) = {}
    <3>1. table' = InsertAt(table, Len(table) + 1, e)
      BY <2>1 DEF SetPrice, Insert
    <3>2. Len(table) + 1 \in 1..Len(table)+1
      BY Table
    <3> HIDE DEF e
    <3> QED
      BY <1>1, <3>1, <3>2, Table, InsertedType
  <2>2. CASE Exact(table, d) # {}
    <3>1. table' = Revalue(table, Min({i \in DOMAIN table : table[i].at = d}), {v})
      BY <2>2 DEF SetPrice, Revalue
    <3> QED
      BY <1>1, <3>1, Table, Revalued
  <2> QED
    BY <2>1, <2>2
<1>4. TypeOK'
    BY <1>1, <1>2, <1>3, Table, Memory DEF TypeOK
<1>5. Sorted'
    BY <1>2, <1>4, SortedIs DEF InOrder, Linear
<1>6. Len(table') <= cap'
    BY <1>2, <1>3, Memory
<1> QED
    BY <1>2, <1>4, <1>5, <1>6, IdleInv

LEMMA AddToDividendYieldInv ==
    ASSUME IInv, NEW d \in Date, NEW v \in Value, AddToDividendYield(d, v)
    PROVE  IInv'
<1> DEFINE e == [at |-> d, val |-> {v}]
<1>1. e \in Entry /\ Setting(d, v) \in Call
    BY Entered
<1>2. /\ kind = "dividend" /\ cap' = Doubled /\ ask' = Setting(d, v) /\ pc' = "idle"
      /\ table' = InsertAt(table, Len(table) + 1, e)
      /\ UNCHANGED <<kind, bounds, lo, hi, answer>>
    BY DEF AddToDividendYield, Done, Idle, Insert
<1> HIDE DEF e
<1>3. Len(table) + 1 \in 1..Len(table)+1
    BY Table
<1>4. table' \in Seq(Entry) /\ Len(table') = Len(table) + 1
    BY <1>1, <1>2, <1>3, Table, InsertedType
<1>5. TypeOK'
    BY <1>1, <1>2, <1>4, Table, Memory DEF TypeOK
<1>6. Sorted'
    BY <1>2, <1>5, SortedIs DEF InOrder, Linear
<1>7. Len(table') <= cap'
    BY <1>2, <1>4, Memory
<1> QED
    BY <1>2, <1>5, <1>6, <1>7, IdleInv

LEMMA FindDateBoundsInv == ASSUME IInv, FindDateBounds PROVE IInv'
<1>1. PICK l \in DOMAIN table, u \in DOMAIN table : bounds' = <<l, u>>
    BY Zenon DEF FindDateBounds
<1>2. /\ pc' = "idle" /\ ask' = [what |-> "bounds", at |-> None, val |-> {}]
      /\ UNCHANGED <<kind, table, cap, pc, lo, hi, answer>>
    BY DEF FindDateBounds, Idle
<1>3. ask' \in Call
    BY <1>2 DEF Call
<1>4. TypeOK'
    BY <1>1, <1>2, <1>3, Table DEF TypeOK
<1>5. Sorted'
    BY <1>2, <1>4, Table, SortedIs
<1>6. Len(table') <= cap'
    BY <1>2, Memory
<1> QED
    BY <1>2, <1>4, <1>5, <1>6, IdleInv

LEMMA CloneInv ==
    ASSUME IInv, CloneFitted \/ CloneWhole \/ CloneEquityCurve
    PROVE  IInv'
<1>1. pc' = "idle" /\ UNCHANGED <<kind, table, pc, lo, hi, answer>>
    BY DEF CloneFitted, CloneWhole, CloneEquityCurve, Idle, vars
<1>2. bounds' \in (Nat \ {0}) \X (Nat \ {0}) /\ ask' \in Call
    BY Table DEF CloneFitted, CloneWhole, CloneEquityCurve, TypeOK, Call, vars
<1>3. cap' \in Nat \ {0} /\ Len(table) <= cap'
    BY Memory, Table, InitialAssumption DEF CloneFitted, CloneWhole, CloneEquityCurve, vars
<1>4. TypeOK'
    BY <1>1, <1>2, <1>3, Table DEF TypeOK
<1>5. Sorted'
    BY <1>1, <1>4, Table, SortedIs
<1> QED
    BY <1>1, <1>3, <1>4, <1>5, IdleInv
-----------------------------------------------------------------------------
\* rq_vol_curve_add.
LEMMA AddVolAtEndInv ==
    ASSUME IInv, NEW d \in Date, NEW v \in Value, AddVolAtEnd(d, v)
    PROVE  IInv'
<1> DEFINE e == [at |-> d, val |-> {v}]
<1>1. e \in Entry /\ e.at = d /\ d \in Int /\ Setting(d, v) \in Call
    BY Entered, DateAssumption
<1>2. /\ kind = "vol" /\ cap' = Doubled /\ ask' = Setting(d, v) /\ pc' = "idle"
      /\ UNCHANGED <<kind, bounds, lo, hi, answer>>
    BY DEF AddVolAtEnd, Done, Idle
<1>3. Ordered(table, FALSE)
    BY <1>2, Table DEF InOrder
<1>4. \E i \in 1..Len(table)+1 :
        /\ table' = InsertAt(table, i, e)
        /\ \A j \in 1..Len(table) : j < i => Before(table[j].at, d, FALSE)
        /\ \A j \in 1..Len(table) : j >= i => Before(d, table[j].at, FALSE)
  <2>1. CASE table' = InsertAt(table, Len(table) + 1, e)
             /\ (table # <<>> => table[Len(table)].at < d)
    <3>1. ASSUME NEW j \in 1..Len(table) PROVE table[j].at <= d
      <4>1. Len(table) \in 1..Len(table) /\ j <= Len(table)
        BY Table
      <4>2. table # <<>>
        BY <4>1
      <4>3. table[Len(table)].at < d
        BY <2>1, <4>2
      <4>4. j = Len(table) \/ j < Len(table)
        BY <4>1
      <4>5. j < Len(table) => table[j].at <= table[Len(table)].at
        BY <1>3, <4>1 DEF Ordered, Before
      <4>6. table[j].at \in Int /\ table[Len(table)].at \in Int
        BY <4>1, Table
      <4> HIDE DEF e
      <4>7. CASE j < Len(table)
        BY <1>1, <4>3, <4>5, <4>6, <4>7
      <4>8. CASE j = Len(table)
        BY <1>1, <4>3, <4>6, <4>8
      <4> QED
        BY <4>4, <4>7, <4>8
    <3>2. Len(table) + 1 \in 1..Len(table)+1
      BY Table
    <3>3. \A j \in 1..Len(table) : ~(j >= Len(table) + 1)
      BY Table
    <3> HIDE DEF e
    <3> QED
      BY <2>1, <3>1, <3>2, <3>3 DEF Before
  <2>2. CASE table' = InsertAt(table, 1, e) /\ table # <<>> /\ table[1].at > d
    <3>1. ASSUME NEW j \in 1..Len(table) PROVE d <= table[j].at
      <4>1. 1 \in 1..Len(table)
        BY <2>2, Table
      <4>2. j = 1 \/ table[1].at <= table[j].at
        BY <1>3, <4>1, Table DEF Ordered, Before
      <4> QED
        BY <1>1, <2>2, <4>1, <4>2, Table
    <3>2. 1 \in 1..Len(table)+1 /\ \A j \in 1..Len(table) : ~(j < 1)
      BY Table
    <3> HIDE DEF e
    <3> QED
      BY <2>2, <3>1, <3>2 DEF Before
  <2> QED
    BY <2>1, <2>2 DEF AddVolAtEnd, Insert
<1>5. table' \in Seq(Entry) /\ Len(table') = Len(table) + 1 /\ Ordered(table', FALSE)
  <2>1. PICK i \in 1..Len(table)+1 :
        /\ table' = InsertAt(table, i, e)
        /\ \A j \in 1..Len(table) : j < i => Before(table[j].at, d, FALSE)
        /\ \A j \in 1..Len(table) : j >= i => Before(d, table[j].at, FALSE)
    BY <1>4
  <2> HIDE DEF e
  <2>2. Ordered(InsertAt(table, i, e), FALSE)
    BY <1>1, <1>3, <2>1, Table, InsertedOrder
  <2> QED
    BY <1>1, <2>1, <2>2, Table, InsertedType
<1>6. TypeOK'
    BY <1>1, <1>2, <1>5, Table, Memory DEF TypeOK
<1>7. Sorted'
    BY <1>2, <1>5, <1>6, SortedIs DEF InOrder, Linear
<1>8. Len(table') <= cap'
    BY <1>2, <1>5, Memory
<1> QED
    BY <1>2, <1>6, <1>7, <1>8, IdleInv

LEMMA AddVolInv ==
    ASSUME IInv, NEW d \in Date, NEW v \in Value, AddVol(d, v)
    PROVE  IInv'
<1>1. /\ kind = "vol" /\ cap' = Doubled /\ ask' = Setting(d, v)
      /\ pc' = "vol" /\ lo' = 1 /\ hi' = Len(table)
      /\ table # <<>> /\ table[1].at <= d /\ d <= table[Len(table)].at
      /\ UNCHANGED <<kind, table, bounds, answer>>
    BY DEF AddVol
<1>2. Setting(d, v) \in Call /\ Setting(d, v).at = d /\ Setting(d, v).what = "set"
    BY Entered DEF Setting
<1>3. TypeOK'
    BY <1>1, <1>2, Table, Memory DEF TypeOK
<1>4. Sorted'
    BY <1>1, <1>3, Table, SortedIs
<1>5. FitsCapacity'
    BY <1>1, Memory DEF FitsCapacity
<1>6. SearchBetween'
    BY <1>1, <1>2, Table DEF SearchBetween
<1>7. SearchInv'
    BY <1>1, <1>2, Memory DEF SearchInv
<1> QED
    BY <1>3, <1>4, <1>5, <1>6, <1>7 DEF IInv

\* Where the search of rq_vol_curve_add stands.
LEMMA VolBounds ==
    ASSUME IInv, pc \in {"vol", "insert"}
    PROVE  /\ kind = "vol" /\ ask.at \in Date /\ ask.at \in Int /\ Len(table) < cap
           /\ ask.val \in SUBSET Value
           /\ lo \in 1..Len(table) /\ hi \in 1..Len(table) /\ lo <= hi
           /\ table[lo].at <= ask.at /\ ask.at <= table[hi].at
           /\ Ordered(table, FALSE)
<1>1. TypeOK /\ SearchBetween /\ SearchInv
    BY DEF IInv
<1>2. kind = "vol" /\ ask.at \in Date /\ Len(table) < cap
    BY <1>1 DEF SearchInv
<1>3. ask.at \in Int /\ ask.val \in SUBSET Value
    BY <1>1, <1>2, DateAssumption DEF TypeOK, Call
<1>4. /\ lo \in 1..Len(table) /\ hi \in 1..Len(table) /\ lo <= hi
      /\ table[lo].at <= ask.at /\ ask.at <= table[hi].at
    BY <1>1, Table DEF SearchBetween, TypeOK
<1> QED
    BY <1>2, <1>3, <1>4, Table DEF InOrder

LEMMA VolHalveInv == ASSUME IInv, VolHalve PROVE IInv'
<1> DEFINE mid == lo + (hi - lo) \div 2
           x == table[mid].at
<1>1. pc = "vol"
    BY DEF VolHalve
<1>2. /\ kind = "vol" /\ ask.at \in Date /\ ask.at \in Int /\ Len(table) < cap
      /\ ask.val \in SUBSET Value
      /\ lo \in 1..Len(table) /\ hi \in 1..Len(table) /\ lo <= hi
      /\ table[lo].at <= ask.at /\ ask.at <= table[hi].at
      /\ Ordered(table, FALSE)
    BY <1>1, VolBounds
<1>3. mid \in 1..Len(table) /\ lo <= mid /\ mid <= hi
    BY <1>2, Table
<1>4. x \in Int
    BY <1>3, Table
<1>5. /\ UNCHANGED <<kind, cap, bounds, ask, answer>>
      /\ hi' = IF x > ask.at THEN mid ELSE hi
      /\ lo' = IF x < ask.at THEN mid ELSE lo
    BY DEF VolHalve
<1> HIDE DEF mid, x
<1>6. CASE x = ask.at
  <2>1. /\ table' = Revalue(table, mid, ask.val) /\ pc' = "idle"
        /\ hi' = hi /\ lo' = lo
    BY <1>2, <1>4, <1>5, <1>6 DEF VolHalve, Revalue, mid, x
  <2>2. table' \in Seq(Entry) /\ Len(table') = Len(table) /\ Ordered(table', FALSE)
    BY <1>2, <2>1, Table, Revalued, RevaluedOrder
  <2>3. TypeOK'
    BY <1>5, <2>1, <2>2, Table DEF TypeOK
  <2>4. Sorted'
    BY <1>2, <1>5, <2>2, <2>3, SortedIs DEF InOrder, Linear
  <2>5. Len(table') <= cap'
    BY <1>5, <2>2, Memory
  <2> QED
    BY <2>1, <2>3, <2>4, <2>5, IdleInv
<1>7. CASE x # ask.at
  <2>1. table' = table /\ pc' = IF hi' - lo' > 1 THEN "vol" ELSE "insert"
    BY <1>7 DEF VolHalve, mid, x
  <2>2. /\ lo' \in 1..Len(table) /\ hi' \in 1..Len(table) /\ lo' <= hi'
        /\ table[lo'].at <= ask.at /\ ask.at <= table[hi'].at
    <3>1. CASE x > ask.at
      <4>1. hi' = mid /\ lo' = lo
        BY <1>2, <1>4, <1>5, <3>1
      <4> QED
        BY <1>2, <1>3, <1>4, <3>1, <4>1 DEF x
    <3>2. CASE x < ask.at
      <4>1. hi' = hi /\ lo' = mid
        BY <1>2, <1>4, <1>5, <3>2
      <4> QED
        BY <1>2, <1>3, <1>4, <3>2, <4>1 DEF x
    <3> QED
      BY <1>2, <1>4, <1>7, <3>1, <3>2
  <2>3. TypeOK'
    BY <1>5, <2>1, <2>2, Table DEF TypeOK
  <2>4. Sorted'
    BY <1>5, <2>1, <2>3, Table, SortedIs
  <2>5. FitsCapacity'
    BY <1>2, <1>5, <2>1, Memory DEF FitsCapacity
  <2>6. SearchBetween'
    <3>1. pc' # "events" /\ table' = table /\ ask' = ask
      BY <1>5, <2>1
    <3> QED
      BY <2>2, <3>1, Table DEF SearchBetween
  <2>7. SearchInv'
    BY <1>1, <1>2, <1>5, <2>1, <2>2 DEF IInv, SearchInv
  <2> QED
    BY <2>3, <2>4, <2>5, <2>6, <2>7 DEF IInv
<1> QED
    BY <1>6, <1>7

LEMMA VolInsertInv == ASSUME IInv, VolInsert PROVE IInv'
<1> DEFINE e == [at |-> ask.at, val |-> ask.val]
<1>1. /\ pc = "insert" /\ pc' = "idle" /\ table' = InsertAt(table, hi, e)
      /\ UNCHANGED <<kind, cap, bounds, ask, lo, hi, answer>>
    BY DEF VolInsert, Insert
<1>2. /\ kind = "vol" /\ ask.at \in Date /\ ask.at \in Int /\ Len(table) < cap
      /\ ask.val \in SUBSET Value
      /\ lo \in 1..Len(table) /\ hi \in 1..Len(table) /\ lo <= hi
      /\ table[lo].at <= ask.at /\ ask.at <= table[hi].at
      /\ Ordered(table, FALSE)
    BY <1>1, VolBounds
<1>3. e \in Entry /\ e.at = ask.at
    BY <1>2 DEF Entry
<1>4. hi - lo <= 1 /\ hi \in 1..Len(table)+1
    BY <1>1, <1>2, Table DEF IInv, SearchInv
<1>5. ASSUME NEW j \in 1..Len(table)
      PROVE  /\ j < hi => table[j].at <= ask.at
             /\ j >= hi => ask.at <= table[j].at
  <2>1. j < lo => table[j].at <= table[lo].at
    BY <1>2, Table DEF Ordered, Before
  <2>2. hi < j => table[hi].at <= table[j].at
    BY <1>2, Table DEF Ordered, Before
  <2>3. j < hi => j < lo \/ j = lo
    BY <1>2, <1>4, Table
  <2>4. j >= hi => hi < j \/ j = hi
    BY <1>2, Table
  <2> QED
    BY <1>2, <2>1, <2>2, <2>3, <2>4, Table
<1> HIDE DEF e
<1>6. table' \in Seq(Entry) /\ Len(table') = Len(table) + 1
    BY <1>1, <1>3, <1>4, Table, InsertedType
<1>7. Ordered(table', FALSE)
  <2>1. Ordered(InsertAt(table, hi, e), FALSE)
    <3>1. /\ \A j \in 1..Len(table) : j < hi => Before(table[j].at, e.at, FALSE)
          /\ \A j \in 1..Len(table) : j >= hi => Before(e.at, table[j].at, FALSE)
      BY <1>3, <1>5 DEF Before
    <3> QED
      BY <1>2, <1>3, <1>4, <3>1, Table, InsertedOrder
  <2> QED
    BY <1>1, <2>1
<1>8. TypeOK'
    BY <1>1, <1>6, Table DEF TypeOK
<1>9. Sorted'
    BY <1>1, <1>2, <1>7, <1>8, SortedIs DEF InOrder, Linear
<1>10. Len(table') <= cap'
    BY <1>1, <1>2, <1>6, Memory
<1> QED
    BY <1>1, <1>8, <1>9, <1>10, IdleInv
-----------------------------------------------------------------------------
\* rq_calendar_add_event and rq_calendar_get_event_mask.
LEMMA AddFirstEventInv ==
    ASSUME IInv, NEW d \in Date, NEW v \in Value, AddFirstEvent(d, v)
    PROVE  IInv'
<1> DEFINE e == [at |-> d, val |-> {v}]
<1>1. e \in Entry /\ Setting(d, v) \in Call
    BY Entered
<1>2. /\ kind = "events" /\ ask' = Setting(d, v) /\ pc' = "idle" /\ table = <<>>
      /\ table' = InsertAt(table, 1, e)
      /\ UNCHANGED <<kind, cap, bounds, lo, hi, answer>>
    BY DEF AddFirstEvent, Done, Idle, Insert
<1> HIDE DEF e
<1>3. Len(table) = 0
    BY <1>2
<1>4. table' \in Seq(Entry) /\ Len(table') = 1
  <2>1. 1 \in 1..Len(table)+1
    BY <1>3
  <2>2. table' = InsertAt(table, 1, e)
    BY <1>2
  <2>3. table' \in Seq(Entry) /\ Len(table') = Len(table) + 1
    BY <1>1, <2>1, <2>2, Table, InsertedType
  <2> QED
    BY <1>3, <2>3
<1>5. Ordered(table', TRUE)
    BY <1>4 DEF Ordered
<1>6. TypeOK'
    BY <1>1, <1>2, <1>4, Table DEF TypeOK
<1>7. Sorted'
  <2>1. kind' = "events"
    BY <1>2
  <2> QED
    BY <1>5, <1>6, <2>1, SortedIs DEF InOrder
<1>8. Len(table') <= cap'
  <2>1. cap' = cap /\ cap \in Nat \ {0}
    BY <1>2, Memory
  <2> QED
    BY <1>4, <2>1
<1> QED
    BY <1>2, <1>6, <1>7, <1>8, IdleInv

LEMMA FindInv ==
    ASSUME IInv, kind = "events", FindDateEvent,
           ask'.at \in Date, ask'.what \in {"set", "look"}, ask' \in Call,
           UNCHANGED <<kind, table, cap, bounds, answer>>
    PROVE  IInv'
<1>1. pc' = "events" /\ lo' = 0 /\ hi' = Len(table) + 1
    BY DEF FindDateEvent
<1>2. TypeOK'
    BY <1>1, Table DEF TypeOK
<1>3. Sorted'
    BY <1>2, Table, SortedIs
<1>4. FitsCapacity'
    BY <1>1, Memory DEF FitsCapacity
<1>5. SearchBetween'
    BY <1>1, Table DEF SearchBetween
<1>6. SearchInv'
    BY <1>1 DEF SearchInv
<1> QED
    BY <1>2, <1>3, <1>4, <1>5, <1>6 DEF IInv

LEMMA AddEventInv ==
    ASSUME IInv, NEW d \in Date, NEW v \in Value, AddEvent(d, v)
    PROVE  IInv'
<1>1. /\ kind = "events" /\ FindDateEvent /\ ask' = Setting(d, v)
      /\ UNCHANGED <<kind, table, cap, bounds, answer>>
    BY DEF AddEvent
<1>2. ask' \in Call /\ ask'.at \in Date /\ ask'.what = "set"
    BY <1>1, Entered DEF Setting
<1> QED
    BY <1>1, <1>2, FindInv

LEMMA GetEventMaskInv == ASSUME IInv, NEW d \in Date, GetEventMask(d) PROVE IInv'
<1>1. /\ kind = "events" /\ FindDateEvent
      /\ ask' = [what |-> "look", at |-> d, val |-> {}]
      /\ UNCHANGED <<kind, table, cap, bounds, answer>>
    BY DEF GetEventMask
<1>2. ask' \in Call /\ ask'.at \in Date /\ ask'.what = "look"
    BY <1>1 DEF Call
<1> QED
    BY <1>1, <1>2, FindInv

\* Where the search of rq_calendar_find_date_event stands.
LEMMA EventBounds ==
    ASSUME IInv, pc = "events"
    PROVE  /\ kind = "events" /\ ask.at \in Date /\ ask.at \in Int
           /\ ask.val \in SUBSET Value /\ ask.what \in {"set", "look"}
           /\ lo \in Nat /\ hi \in Nat /\ lo < hi /\ hi <= Len(table) + 1
           /\ \A i \in 1..Len(table) : i <= lo => table[i].at < ask.at
           /\ \A i \in 1..Len(table) : i >= hi => table[i].at > ask.at
           /\ Ordered(table, TRUE)
<1>1. TypeOK /\ SearchBetween /\ SearchInv
    BY DEF IInv
<1>2. kind = "events" /\ ask.at \in Date /\ ask.what \in {"set", "look"}
    BY <1>1 DEF SearchInv
<1>3. ask.at \in Int /\ ask.val \in SUBSET Value /\ lo \in Nat /\ hi \in Nat
    BY <1>1, <1>2, DateAssumption DEF TypeOK, Call
<1>4. /\ lo < hi /\ hi <= Len(table) + 1
      /\ \A i \in 1..Len(table) : i <= lo => table[i].at < ask.at
      /\ \A i \in 1..Len(table) : i >= hi => table[i].at > ask.at
    BY <1>1, Table DEF SearchBetween
<1> QED
    BY <1>2, <1>3, <1>4, Table DEF InOrder

\* The entry in the middle is one of the table, strictly between the bounds.
LEMMA EventMiddle ==
    ASSUME IInv, pc = "events", hi - lo > 1,
           NEW mid, mid = (lo + hi) \div 2
    PROVE  mid \in 1..Len(table) /\ lo < mid /\ mid < hi /\ table[mid].at \in Int
<1>1. lo \in Nat /\ hi \in Nat /\ lo < hi /\ hi <= Len(table) + 1 /\ Len(table) \in Nat
    BY EventBounds, Table
<1>2. mid \in 1..Len(table) /\ lo < mid /\ mid < hi
    BY <1>1
<1> QED
    BY <1>2, Table

LEMMA EventHalveInv == ASSUME IInv, EventHalve PROVE IInv'
<1> DEFINE mid == (lo + hi) \div 2
           x == table[mid].at
<1>1. pc = "events" /\ hi - lo > 1
    BY DEF EventHalve
<1>2. /\ kind = "events" /\ ask.at \in Date /\ ask.at \in Int
      /\ ask.val \in SUBSET Value /\ ask.what \in {"set", "look"}
      /\ lo \in Nat /\ hi \in Nat /\ lo < hi /\ hi <= Len(table) + 1
      /\ \A i \in 1..Len(table) : i <= lo => table[i].at < ask.at
      /\ \A i \in 1..Len(table) : i >= hi => table[i].at > ask.at
      /\ Ordered(table, TRUE)
    BY <1>1, EventBounds
<1>3. mid \in 1..Len(table) /\ lo < mid /\ mid < hi /\ x \in Int
    BY <1>1, EventMiddle
<1>4. /\ UNCHANGED <<kind, cap, bounds, ask>>
      /\ lo' = IF x < ask.at THEN mid ELSE lo
      /\ hi' = IF x > ask.at THEN mid ELSE hi
      /\ pc' = IF x = ask.at THEN "idle" ELSE "events"
    BY DEF EventHalve
<1>5. table[mid].val \in SUBSET Value
    BY <1>3, Table, Fields
<1>6. answer' \in SUBSET Value
  <2>1. answer' = answer \/ answer' = table[mid].val
    BY DEF EventHalve
  <2> QED
    BY <1>5, <2>1, Table DEF TypeOK
<1>7. lo' \in Nat /\ hi' \in Nat
    BY <1>2, <1>3, <1>4
<1>8. CASE x = ask.at
  <2>1. \/ table' = table
        \/ table' = Revalue(table, mid, table[mid].val \cup ask.val)
    BY DEF EventHalve, Revalue
  <2> HIDE DEF mid, x
  <2>2. table[mid].val \cup ask.val \in SUBSET Value
    BY <1>2, <1>5
  <2>3. table' \in Seq(Entry) /\ Len(table') = Len(table) /\ Ordered(table', TRUE)
    <3>1. LET r == Revalue(table, mid, table[mid].val \cup ask.val)
          IN r \in Seq(Entry) /\ Len(r) = Len(table) /\ Ordered(r, TRUE)
      BY <1>2, <2>2, Table, Revalued, RevaluedOrder
    <3> QED
      BY <1>2, <2>1, <3>1, Table
  <2>4. TypeOK'
    BY <1>4, <1>6, <1>7, <1>8, <2>3, Table DEF TypeOK
  <2>5. Sorted'
    BY <1>2, <1>4, <2>3, <2>4, SortedIs DEF InOrder, Linear
  <2>6. Len(table') <= cap'
    BY <1>4, <2>3, Memory
  <2> QED
    BY <1>4, <1>8, <2>4, <2>5, <2>6, IdleInv
<1>9. CASE x # ask.at
  <2>1. table' = table /\ pc' = "events"
    BY <1>4, <1>9 DEF EventHalve
  <2>2. /\ lo' < hi' /\ hi' <= Len(table) + 1
        /\ \A i \in 1..Len(table) : i <= lo' => table[i].at < ask.at
        /\ \A i \in 1..Len(table) : i >= hi' => table[i].at > ask.at
    <3>1. CASE x < ask.at
      <4>1. lo' = mid /\ hi' = hi
        BY <1>2, <1>3, <1>4, <3>1
      <4> HIDE DEF mid
      <4>2. ASSUME NEW i \in 1..Len(table), i <= mid PROVE table[i].at < ask.at
        <5>1. i = mid \/ table[i].at < table[mid].at
          BY <1>2, <1>3, <4>2, Table DEF Ordered, Before
        <5> QED
          BY <1>2, <1>3, <3>1, <5>1, Table
      <4> QED
        BY <1>2, <1>3, <4>1, <4>2, Table
    <3>2. CASE x > ask.at
      <4>1. lo' = lo /\ hi' = mid
        BY <1>2, <1>3, <1>4, <3>2
      <4> HIDE DEF mid
      <4>2. ASSUME NEW i \in 1..Len(table), i >= mid PROVE table[i].at > ask.at
        <5>1. i = mid \/ table[mid].at < table[i].at
          BY <1>2, <1>3, <4>2, Table DEF Ordered, Before
        <5> QED
          BY <1>2, <1>3, <3>2, <5>1, Table
      <4> QED
        BY <1>2, <1>3, <4>1, <4>2, Table
    <3> QED
      BY <1>2, <1>3, <1>9, <3>1, <3>2
  <2> HIDE DEF mid, x
  <2>3. TypeOK'
    BY <1>4, <1>6, <1>7, <2>1, Table DEF TypeOK
  <2>4. Sorted'
    BY <1>4, <2>1, <2>3, Table, SortedIs
  <2>5. FitsCapacity'
    BY <1>4, <2>1, Memory DEF FitsCapacity
  <2>6. SearchBetween'
    BY <1>4, <2>1, <2>2, Table DEF SearchBetween
  <2>7. SearchInv'
    BY <1>2, <1>4, <2>1 DEF SearchInv
  <2> QED
    BY <2>3, <2>4, <2>5, <2>6, <2>7 DEF IInv
<1> QED
    BY <1>8, <1>9

LEMMA EventInsertInv == ASSUME IInv, EventInsert PROVE IInv'
<1> DEFINE e == [at |-> ask.at, val |-> ask.val]
           i == IF lo >= 1 /\ table[lo].at > ask.at THEN lo ELSE hi
<1>1. /\ pc = "events" /\ hi - lo <= 1 /\ pc' = "idle"
      /\ cap' = IF Len(table) = cap THEN cap + Initial ELSE cap
      /\ table' = InsertAt(table, i, e)
      /\ UNCHANGED <<kind, bounds, ask, lo, hi, answer>>
    BY DEF EventInsert, Insert
<1>2. /\ kind = "events" /\ ask.at \in Date /\ ask.at \in Int
      /\ ask.val \in SUBSET Value /\ ask.what \in {"set", "look"}
      /\ lo \in Nat /\ hi \in Nat /\ lo < hi /\ hi <= Len(table) + 1
      /\ \A j \in 1..Len(table) : j <= lo => table[j].at < ask.at
      /\ \A j \in 1..Len(table) : j >= hi => table[j].at > ask.at
      /\ Ordered(table, TRUE)
    BY <1>1, EventBounds
<1>3. e \in Entry /\ e.at = ask.at
    BY <1>2 DEF Entry
<1>4. i = hi /\ hi = lo + 1 /\ hi \in 1..Len(table)+1
  <2>1. hi = lo + 1 /\ hi \in 1..Len(table)+1
    BY <1>1, <1>2, Table
  <2>2. lo >= 1 => lo \in 1..Len(table)
    BY <1>2, Table
  <2>3. lo >= 1 => ~(table[lo].at > ask.at)
    BY <1>2, <2>2, Table
  <2> QED
    BY <2>1, <2>3
<1>5. table' = InsertAt(table, hi, e)
    BY <1>1, <1>4
<1> HIDE DEF e, i
<1>6. table' \in Seq(Entry) /\ Len(table') = Len(table) + 1
    BY <1>3, <1>4, <1>5, Table, InsertedType
<1>7. Ordered(table', TRUE)
  <2>1. /\ \A j \in 1..Len(table) : j < hi => Before(table[j].at, e.at, TRUE)
        /\ \A j \in 1..Len(table) : j >= hi => Before(e.at, table[j].at, TRUE)
    BY <1>2, <1>3, <1>4, Table DEF Before
  <2>2. Ordered(InsertAt(table, hi, e), TRUE)
    BY <1>2, <1>3, <1>4, <2>1, Table, InsertedOrder
  <2> QED
    BY <1>5, <2>2
<1>8. cap' \in Nat \ {0} /\ Len(table') <= cap'
    BY <1>1, <1>6, Memory, InitialAssumption
<1>9. TypeOK'
    BY <1>1, <1>6, <1>8, Table DEF TypeOK
<1>10. Sorted'
    BY <1>1, <1>2, <1>7, <1>9, SortedIs DEF InOrder, Linear
<1> QED
    BY <1>1, <1>8, <1>9, <1>10, IdleInv

LEMMA EventNotFoundInv == ASSUME IInv, EventNotFound PROVE IInv'
<1>1. pc' = "idle" /\ answer' = {} /\ UNCHANGED <<kind, table, cap, bounds, ask, lo, hi>>
    BY DEF EventNotFound
<1>2. TypeOK'
    BY <1>1, Table DEF TypeOK
<1>3. Sorted'
    BY <1>1, <1>2, Table, SortedIs
<1> QED
    BY <1>1, <1>2, <1>3, Memory, IdleInv
-----------------------------------------------------------------------------
LEMMA StutterInv == ASSUME IInv, UNCHANGED vars PROVE IInv'
<1>1. UNCHANGED <<kind, table, cap, bounds, ask, pc, lo, hi, answer>>
    BY DEF vars
<1> QED
    BY <1>1 DEF IInv, TypeOK, Sorted, FitsCapacity, SearchBetween, SearchInv

LEMMA NextInv == ASSUME IInv, Next PROVE IInv'
<1>1. CASE \E d \in Date : GetEventMask(d)
    BY <1>1, GetEventMaskInv
<1>2. CASE \E d \in Date, v \in Value :
            SetForwardRate(d, v) \/ SetSpread(d, v) \/ SetSurvivalRate(d, v)
    BY <1>2, PutInOrderInv DEF SetForwardRate, SetSpread, SetSurvivalRate, Linear
<1>3. CASE \E d \in Date, v \in Value : SetPrice(d, v) \/ AddToDividendYield(d, v)
    BY <1>3, SetPriceInv, AddToDividendYieldInv
<1>4. CASE \E d \in Date, v \in Value : AddVolAtEnd(d, v) \/ AddVol(d, v)
    BY <1>4, AddVolAtEndInv, AddVolInv
<1>5. CASE \E d \in Date, v \in Value : AddFirstEvent(d, v) \/ AddEvent(d, v)
    BY <1>5, AddFirstEventInv, AddEventInv
<1>6. CASE FindDateBounds \/ CloneFitted \/ CloneWhole \/ CloneEquityCurve
    BY <1>6, FindDateBoundsInv, CloneInv
<1>7. CASE Search
    BY <1>7, VolHalveInv, VolInsertInv, EventHalveInv, EventInsertInv, EventNotFoundInv
       DEF Search
<1> QED
    BY <1>1, <1>2, <1>3, <1>4, <1>5, <1>6, <1>7, Zenon DEF Next, Client

\* The inductive invariant.
THEOREM Invariance == Spec => []IInv
<1>1. IInv /\ [Next]_vars => IInv'
    BY NextInv, StutterInv
<1> QED
    BY InitInv, <1>1, PTL DEF Spec

\* The fields keep their types, in all the tables.
THEOREM TypeCorrect == Spec => []TypeOK
<1>1. IInv => TypeOK
    BY DEF IInv
<1> QED
    BY Invariance, <1>1, PTL

\* The dates of forward, spread and survival curves and of calendars rise, with a
\* date once; those of volatility curves do not fall.
THEOREM KeptSorted == Spec => []Sorted
<1>1. IInv => Sorted
    BY DEF IInv
<1> QED
    BY Invariance, <1>1, PTL

\* Nothing is written past the memory, however many entries come, in copies too.
THEOREM WithinMemory == Spec => []FitsCapacity
<1>1. IInv => FitsCapacity
    BY DEF IInv
<1> QED
    BY Invariance, <1>1, PTL

\* The bisections of calendars and volatility curves keep the place they look for
\* between their bounds, and read within the table.
THEOREM Bisection == Spec => []SearchBetween
<1>1. IInv => SearchBetween
    BY DEF IInv
<1> QED
    BY Invariance, <1>1, PTL
-----------------------------------------------------------------------------
LEMMA LeastOfOne == ASSUME NEW n \in Int PROVE Min({n}) = n
BY DEF Min

\* In a table where a date occurs once, the first entry of a date is the only one.
LEMMA ExactFound ==
    ASSUME NEW t \in Seq(Entry), Ordered(t, TRUE), NEW i \in 1..Len(t)
    PROVE  Exact(t, t[i].at) = {t[i]}
<1>1. /\ Len(t) \in Nat /\ DOMAIN t = 1..Len(t)
      /\ \A j \in 1..Len(t) : t[j].at \in Int
    BY Entries
<1>2. ASSUME NEW j \in 1..Len(t), t[j].at = t[i].at PROVE j = i
  <2>1. ~(j < i) /\ ~(i < j)
    BY <1>1, <1>2 DEF Ordered, Before
  <2> QED
    BY <1>1, <2>1
<1>3. {j \in DOMAIN t : t[j].at = t[i].at} = {i}
    BY <1>1, <1>2
<1>4. Min({i}) = i
    BY LeastOfOne
<1> QED
    BY <1>3, <1>4 DEF Exact

LEMMA ExactNotFound ==
    ASSUME NEW t \in Seq(Entry), NEW d, \A i \in 1..Len(t) : t[i].at # d
    PROVE  Exact(t, d) = {}
<1>1. {j \in DOMAIN t : t[j].at = d} = {}
    BY Entries
<1> QED
    BY <1>1 DEF Exact

LEMMA HalveLooksUp == ASSUME IInv, EventHalve PROVE LooksUpRight'
<1> DEFINE mid == (lo + hi) \div 2
<1>1. /\ pc = "events" /\ hi - lo > 1 /\ ask' = ask
      /\ pc' = IF table[mid].at = ask.at THEN "idle" ELSE "events"
    BY DEF EventHalve
<1>2. SUFFICES ASSUME table[mid].at = ask.at, ask.what = "look"
               PROVE  answer' = UNION {e.val : e \in Exact(table', ask.at)}
    BY <1>1 DEF LooksUpRight, Idle
<1>3. table' = table /\ answer' = table[mid].val
    BY <1>2 DEF EventHalve
<1>4. mid \in 1..Len(table)
    BY <1>1, EventMiddle
<1>5. Ordered(table, TRUE)
    BY <1>1, EventBounds
<1> HIDE DEF mid
<1>6. Exact(table, ask.at) = {table[mid]}
  <2>1. Exact(table, table[mid].at) = {table[mid]}
    BY <1>4, <1>5, Table, ExactFound
  <2> QED
    BY <1>2, <2>1
<1> QED
    BY <1>3, <1>6

LEMMA NotFoundLooksUp == ASSUME IInv, EventNotFound PROVE LooksUpRight'
<1>1. pc = "events" /\ hi - lo <= 1 /\ answer' = {} /\ UNCHANGED <<table, ask>>
    BY DEF EventNotFound
<1>2. ASSUME NEW i \in 1..Len(table) PROVE table[i].at # ask.at
  <2>1. i <= lo \/ i >= hi
    BY <1>1, EventBounds, Table
  <2> QED
    BY <1>1, <2>1, EventBounds, Table
<1>3. Exact(table, ask.at) = {}
    BY <1>2, Table, ExactNotFound
<1> QED
    BY <1>1, <1>3 DEF LooksUpRight

LEMMA LooksUpStep ==
    ASSUME IInv, LooksUpRight, [Next]_vars
    PROVE  LooksUpRight'
<1>1. CASE UNCHANGED <<table, ask, pc, answer>>
    BY <1>1 DEF LooksUpRight, Idle
<1>2. CASE pc' # "idle" \/ ask'.what # "look"
    BY <1>2 DEF LooksUpRight, Idle
<1>3. CASE EventHalve \/ EventNotFound
    BY <1>3, HalveLooksUp, NotFoundLooksUp
<1>4. CASE \E d \in Date : GetEventMask(d)
    BY <1>2, <1>4 DEF GetEventMask, FindDateEvent
<1>5. ASSUME NEW d \in Date, NEW v \in Value,
             \/ PutInOrder(d, v) \/ SetPrice(d, v) \/ AddToDividendYield(d, v)
             \/ AddVolAtEnd(d, v) \/ AddVol(d, v) \/ AddFirstEvent(d, v) \/ AddEvent(d, v)
      PROVE  LooksUpRight'
  <2>1. ask' = Setting(d, v)
    BY <1>5 DEF PutInOrder, SetPrice, AddToDividendYield, AddVolAtEnd, AddVol,
                AddFirstEvent, AddEvent, Done
  <2> QED
    BY <1>2, <2>1 DEF Setting
<1>6. CASE FindDateBounds \/ CloneEquityCurve
    BY <1>2, <1>6 DEF FindDateBounds, CloneEquityCurve
<1>7. CASE CloneFitted \/ CloneWhole \/ UNCHANGED vars
    BY <1>1, <1>7 DEF CloneFitted, CloneWhole, vars
<1>8. CASE VolHalve \/ VolInsert
  <2>1. ask' = ask /\ pc \in {"vol", "insert"}
    BY <1>8 DEF VolHalve, VolInsert
  <2>2. ask.what # "look"
    BY <2>1 DEF IInv, SearchInv
  <2> QED
    BY <1>2, <2>1, <2>2
<1>9. CASE EventInsert
  <2>1. ask' = ask /\ ask.what = "set"
    BY <1>9 DEF EventInsert
  <2> QED
    BY <1>2, <2>1
<1> QED
    BY <1>3, <1>4, <1>5, <1>6, <1>7, <1>8, <1>9, Zenon
       DEF Next, Client, Search, SetForwardRate, SetSpread, SetSurvivalRate

\* What rq_calendar_get_event_mask finds by bisection is what the calendar has.
THEOREM LooksUp == Spec => []LooksUpRight
<1>1. Init => LooksUpRight
    BY DEF Init, LooksUpRight
<1>2. IInv /\ LooksUpRight /\ [Next]_vars => LooksUpRight'
    BY LooksUpStep
<1> QED
    BY Invariance, <1>1, <1>2, PTL DEF Spec

\* However the tables are filled, copied and read, and at every step of an
\* insertion: order, memory, and the bounds of a search.
THEOREM TablesKept == Spec => []TableOK
<1> QED
    BY KeptSorted, WithinMemory, Bisection, PTL DEF TableOK
-----------------------------------------------------------------------------
LEMMA MinIs ==
    ASSUME NEW S \in SUBSET Nat, S # {}
    PROVE  Min(S) \in S /\ \A y \in S : Min(S) <= y
BY LeastExists DEF Min

LEMMA Weaker ==
    ASSUME NEW t \in Seq(Entry), Ordered(t, TRUE)
    PROVE  Ordered(t, FALSE)
<1>1. Len(t) \in Nat /\ \A j \in 1..Len(t) : t[j].at \in Int
    BY Entries
<1> QED
    BY <1>1 DEF Ordered, Before

\* The entries before the place are not later than the date, those behind it are.
Splits(t, d, n) ==
    /\ n \in 1..Len(t)+1
    /\ \A j \in 1..Len(t) : j < n => t[j].at <= d
    /\ \A j \in 1..Len(t) : j >= n => t[j].at > d

LEMMA AfterIs ==
    ASSUME NEW t \in Seq(Entry), Ordered(t, FALSE), NEW d \in Int
    PROVE  Splits(t, d, After(t, d))
<1> DEFINE S == {i \in DOMAIN t : t[i].at > d} \cup {Len(t) + 1}
           n == After(t, d)
<1>1. Len(t) \in Nat /\ DOMAIN t = 1..Len(t) /\ \A j \in 1..Len(t) : t[j].at \in Int
    BY Entries
<1>2. S \in SUBSET Nat /\ S # {} /\ n = Min(S)
    BY <1>1 DEF After
<1>3. n \in S /\ \A y \in S : n <= y
  <2> HIDE DEF S, n
  <2> QED
    BY <1>2, MinIs
<1> HIDE DEF n
<1>4. n \in 1..Len(t)+1
    BY <1>1, <1>3
<1>5. ASSUME NEW j \in 1..Len(t), j < n PROVE t[j].at <= d
    BY <1>1, <1>3, <1>4, <1>5
<1>6. ASSUME NEW j \in 1..Len(t), j >= n PROVE t[j].at > d
  <2>1. n \in 1..Len(t) /\ t[n].at > d
    BY <1>1, <1>3, <1>4, <1>6
  <2>2. j = n \/ t[n].at <= t[j].at
    BY <1>6, <2>1 DEF Ordered, Before
  <2> QED
    BY <1>1, <2>1, <2>2
<1> QED
    BY <1>4, <1>5, <1>6 DEF Splits, n

\* The entries before the place are earlier, those behind it are not.
Parts(t, d, n) ==
    /\ n \in 1..Len(t)+1
    /\ \A j \in 1..Len(t) : j < n => t[j].at < d
    /\ \A j \in 1..Len(t) : j >= n => t[j].at >= d

LEMMA NotBeforeIs ==
    ASSUME NEW t \in Seq(Entry), Ordered(t, FALSE), NEW d \in Int
    PROVE  Parts(t, d, NotBefore(t, d))
<1> DEFINE S == {i \in DOMAIN t : t[i].at >= d} \cup {Len(t) + 1}
           n == NotBefore(t, d)
<1>1. Len(t) \in Nat /\ DOMAIN t = 1..Len(t) /\ \A j \in 1..Len(t) : t[j].at \in Int
    BY Entries
<1>2. S \in SUBSET Nat /\ S # {} /\ n = Min(S)
    BY <1>1 DEF NotBefore
<1>3. n \in S /\ \A y \in S : n <= y
  <2> HIDE DEF S, n
  <2> QED
    BY <1>2, MinIs
<1> HIDE DEF n
<1>4. n \in 1..Len(t)+1
    BY <1>1, <1>3
<1>5. ASSUME NEW j \in 1..Len(t), j < n PROVE t[j].at < d
    BY <1>1, <1>3, <1>4, <1>5
<1>6. ASSUME NEW j \in 1..Len(t), j >= n PROVE t[j].at >= d
  <2>1. n \in 1..Len(t) /\ t[n].at >= d
    BY <1>1, <1>3, <1>4, <1>6
  <2>2. j = n \/ t[n].at <= t[j].at
    BY <1>6, <2>1 DEF Ordered, Before
  <2> QED
    BY <1>1, <2>1, <2>2
<1> QED
    BY <1>4, <1>5, <1>6 DEF Parts, n

\* The closest entries, by their positions.
Closest(t, d) ==
    {i \in 1..Len(t) :
        \/ t[i].at <= d /\ \A j \in 1..Len(t) : t[j].at <= d => t[j].at <= t[i].at
        \/ t[i].at >= d /\ \A j \in 1..Len(t) : t[j].at >= d => t[j].at >= t[i].at}

LEMMA NearestIs ==
    ASSUME table \in Seq(Entry), NEW d
    PROVE  Nearest(d) = {table[i] : i \in Closest(table, d)}
<1>1. DOMAIN table = 1..Len(table)
    BY Entries
<1> QED
    BY <1>1 DEF Nearest, Closest

LEMMA ClosestUpTo ==
    ASSUME NEW t \in Seq(Entry), Ordered(t, TRUE), NEW d \in Int, NEW n, Splits(t, d, n)
    PROVE  \A i : i \in Closest(t, d) <=> i \in 1..Len(t) /\ (i = n - 1 \/ (i = n /\ ~(n > 1 /\ t[n-1].at = d)))
<1>1. Len(t) \in Nat /\ \A j \in 1..Len(t) : t[j].at \in Int
    BY Entries
<1>2. \A i, j \in 1..Len(t) : i < j => t[i].at < t[j].at
    BY DEF Ordered, Before
<1>3. /\ n \in 1..Len(t)+1
      /\ \A j \in 1..Len(t) : j < n => t[j].at <= d
      /\ \A j \in 1..Len(t) : j >= n => t[j].at > d
    BY DEF Splits
<1>4. ASSUME NEW i \in 1..Len(t), i < n - 1 PROVE i \notin Closest(t, d)
  <2>1. n - 1 \in 1..Len(t) /\ t[n-1].at <= d /\ t[i].at < t[n-1].at
    BY <1>1, <1>2, <1>3, <1>4
  <2>2. ~(t[i].at >= d) /\ ~(t[n-1].at <= t[i].at)
    BY <1>1, <2>1
  <2> QED
    BY <2>1, <2>2 DEF Closest
<1>5. ASSUME NEW i \in 1..Len(t), i > n PROVE i \notin Closest(t, d)
  <2>1. n \in 1..Len(t) /\ t[n].at >= d /\ t[n].at < t[i].at
    BY <1>1, <1>2, <1>3, <1>5
  <2>2. ~(t[i].at <= d) /\ ~(t[n].at >= t[i].at)
    BY <1>1, <2>1
  <2> QED
    BY <2>1, <2>2 DEF Closest
<1>6. ASSUME NEW i \in 1..Len(t), i = n - 1 PROVE i \in Closest(t, d)
  <2>1. t[i].at <= d
    BY <1>1, <1>3, <1>6
  <2>2. \A j \in 1..Len(t) : t[j].at <= d => t[j].at <= t[i].at
    BY <1>1, <1>2, <1>3, <1>6
  <2> QED
    BY <2>1, <2>2 DEF Closest
<1>7. ASSUME NEW i \in 1..Len(t), i = n PROVE i \in Closest(t, d) <=> ~(n > 1 /\ t[n-1].at = d)
  <2>1. t[i].at > d
    BY <1>1, <1>3, <1>7
  <2>2. CASE n > 1 /\ t[n-1].at = d
    <3>1. n - 1 \in 1..Len(t)
      BY <1>1, <1>3, <2>2
    <3>2. t[n-1].at >= d /\ ~(t[n-1].at >= t[i].at) /\ ~(t[i].at <= d)
      BY <1>1, <2>1, <2>2, <3>1
    <3> QED
      BY <2>2, <3>1, <3>2 DEF Closest
  <2>3. CASE ~(n > 1 /\ t[n-1].at = d)
    <3>1. ASSUME NEW j \in 1..Len(t), t[j].at >= d PROVE t[j].at >= t[i].at
      <4>1. CASE j >= n
        BY <1>1, <1>2, <1>3, <1>7, <4>1
      <4>2. CASE j < n
        <5>1. n - 1 \in 1..Len(t) /\ t[n-1].at <= d /\ n > 1
          BY <1>1, <1>3, <4>2
        <5>2. j = n - 1 \/ t[j].at < t[n-1].at
          <6>1. j = n - 1 \/ j < n - 1
            BY <1>3, <4>2
          <6> QED
            BY <1>2, <5>1, <6>1
        <5> QED
          BY <1>1, <2>3, <3>1, <5>1, <5>2
      <4> QED
        BY <1>3, <4>1, <4>2
    <3>2. t[i].at >= d
      BY <1>1, <2>1
    <3> QED
      BY <2>3, <3>1, <3>2 DEF Closest
  <2> QED
    BY <2>2, <2>3
<1>8. Closest(t, d) \subseteq 1..Len(t)
    BY DEF Closest
<1>9. ASSUME NEW i \in 1..Len(t)
      PROVE  i \in Closest(t, d) <=> i = n - 1 \/ (i = n /\ ~(n > 1 /\ t[n-1].at = d))
    BY <1>1, <1>3, <1>4, <1>5, <1>6, <1>7
<1> QED
    BY <1>8, <1>9

LEMMA ClosestAround ==
    ASSUME NEW t \in Seq(Entry), Ordered(t, TRUE), NEW d \in Int, NEW n, Parts(t, d, n)
    PROVE  \A i : i \in Closest(t, d) <=> i \in 1..Len(t) /\ (i = n \/ (i = n - 1 /\ ~(n <= Len(t) /\ t[n].at = d)))
<1>1. Len(t) \in Nat /\ \A j \in 1..Len(t) : t[j].at \in Int
    BY Entries
<1>2. \A i, j \in 1..Len(t) : i < j => t[i].at < t[j].at
    BY DEF Ordered, Before
<1>3. /\ n \in 1..Len(t)+1
      /\ \A j \in 1..Len(t) : j < n => t[j].at < d
      /\ \A j \in 1..Len(t) : j >= n => t[j].at >= d
    BY DEF Parts
<1>4. CASE n <= Len(t) /\ t[n].at = d
  <2>1. PICK m : m = n + 1
    OBVIOUS
  <2>2. m - 1 = n /\ m > 1
    BY <1>3, <2>1
  <2>3. Splits(t, d, m)
    BY <1>1, <1>2, <1>3, <1>4, <2>1 DEF Splits
  <2>4. \A i : i \in Closest(t, d) <=> i \in 1..Len(t) /\ (i = m - 1 \/ (i = m /\ ~(m > 1 /\ t[m-1].at = d)))
    BY <2>3, ClosestUpTo
  <2>5. ASSUME NEW i PROVE (i = m - 1 \/ (i = m /\ ~(m > 1 /\ t[m-1].at = d))) <=> i = n
    BY <1>4, <2>2
  <2>6. ASSUME NEW i PROVE (i = n \/ (i = n - 1 /\ ~(n <= Len(t) /\ t[n].at = d))) <=> i = n
    BY <1>4
  <2> QED
    BY <2>4, <2>5, <2>6
<1>5. CASE ~(n <= Len(t) /\ t[n].at = d)
  <2>1. \A j \in 1..Len(t) : j >= n => t[j].at > d
    BY <1>1, <1>2, <1>3, <1>5
  <2>2. Splits(t, d, n)
    BY <1>1, <1>3, <2>1 DEF Splits
  <2>3. ~(n > 1 /\ t[n-1].at = d)
    BY <1>1, <1>3
  <2> QED
    BY <1>5, <2>2, <2>3, ClosestUpTo
<1> QED
    BY <1>4, <1>5

\* A read by interpolation uses the closest entries.
LEMMA UpToClosest ==
    ASSUME NEW t \in Seq(Entry), Ordered(t, TRUE), NEW d \in Int
    PROVE  UpTo(t, d) = {t[i] : i \in Closest(t, d)}
<1>1. Len(t) \in Nat /\ \A j \in 1..Len(t) : t[j].at \in Int
    BY Entries
<1>2. PICK n : n = After(t, d)
    OBVIOUS
<1>3. Splits(t, d, n)
    BY <1>2, Weaker, AfterIs
<1>4. \A i : i \in Closest(t, d) <=> i \in 1..Len(t) /\ (i = n - 1 \/ (i = n /\ ~(n > 1 /\ t[n-1].at = d)))
    BY <1>3, ClosestUpTo
<1>5. /\ n \in 1..Len(t)+1
      /\ \A j \in 1..Len(t) : j < n => t[j].at <= d
      /\ \A j \in 1..Len(t) : j >= n => t[j].at > d
    BY <1>3 DEF Splits
<1>6. CASE t = <<>>
  <2>1. UpTo(t, d) = {}
    BY <1>6 DEF UpTo
  <2>2. Closest(t, d) = {}
    <3>1. Len(t) = 0
      BY <1>6
    <3> QED
      BY <3>1 DEF Closest
  <2> QED
    BY <2>1, <2>2
<1>7. CASE t # <<>> /\ n = 1
  <2>1. UpTo(t, d) = {t[1]}
    BY <1>2, <1>7 DEF UpTo
  <2>2. Closest(t, d) = {1}
    <3>1. 1 \in 1..Len(t)
      BY <1>1, <1>7
    <3>2. \A i \in 1..Len(t) : i = n - 1 \/ (i = n /\ ~(n > 1 /\ t[n-1].at = d)) <=> i = 1
      BY <1>7
    <3>3. \A i : i \in Closest(t, d) <=> i \in 1..Len(t) /\ i = 1
      BY <1>4, <3>2
    <3> QED
      BY <3>1, <3>3
  <2> QED
    BY <2>1, <2>2
<1>8. CASE t # <<>> /\ n > Len(t)
  <2>1. n # 1 /\ n = Len(t) + 1
    BY <1>1, <1>5, <1>8
  <2>2. UpTo(t, d) = {t[Len(t)]}
    BY <1>2, <1>8, <2>1 DEF UpTo
  <2>3. Closest(t, d) = {Len(t)}
    <3>1. Len(t) \in 1..Len(t)
      BY <1>1, <1>8
    <3>2. \A i \in 1..Len(t) : i = n - 1 \/ (i = n /\ ~(n > 1 /\ t[n-1].at = d)) <=> i = Len(t)
      BY <1>1, <2>1
    <3>3. \A i : i \in Closest(t, d) <=> i \in 1..Len(t) /\ i = Len(t)
      BY <1>4, <3>2
    <3> QED
      BY <3>1, <3>3
  <2> QED
    BY <2>2, <2>3
<1>9. CASE t # <<>> /\ n # 1 /\ ~(n > Len(t))
  <2>1. UpTo(t, d) = Interpolated(d, t[n-1], t[n])
    BY <1>2, <1>9 DEF UpTo
  <2>2. n \in 1..Len(t) /\ n - 1 \in 1..Len(t) /\ n > 1
    BY <1>1, <1>5, <1>9
  <2>3. t[n-1].at # t[n].at /\ d # t[n].at
    BY <1>1, <1>5, <2>2
  <2>4. CASE t[n-1].at = d
    <3>1. UpTo(t, d) = {t[n-1]}
      BY <2>1, <2>3, <2>4 DEF Interpolated
    <3>2. Closest(t, d) = {n-1}
      BY <1>4, <2>2, <2>4
    <3> QED
      BY <3>1, <3>2
  <2>5. CASE t[n-1].at # d
    <3>1. UpTo(t, d) = {t[n-1], t[n]}
      BY <2>1, <2>3, <2>5 DEF Interpolated
    <3>2. Closest(t, d) = {n-1, n}
      BY <1>4, <2>2, <2>5
    <3> QED
      BY <3>1, <3>2
  <2> QED
    BY <2>4, <2>5
<1> QED
    BY <1>6, <1>7, <1>8, <1>9

LEMMA AroundClosest ==
    ASSUME NEW t \in Seq(Entry), Ordered(t, TRUE), NEW d \in Int
    PROVE  Around(t, d) = {t[i] : i \in Closest(t, d)}
<1>1. Len(t) \in Nat /\ \A j \in 1..Len(t) : t[j].at \in Int
    BY Entries
<1>2. PICK n : n = NotBefore(t, d)
    OBVIOUS
<1>3. Parts(t, d, n)
    BY <1>2, Weaker, NotBeforeIs
<1>4. \A i : i \in Closest(t, d) <=> i \in 1..Len(t) /\ (i = n \/ (i = n - 1 /\ ~(n <= Len(t) /\ t[n].at = d)))
    BY <1>3, ClosestAround
<1>5. /\ n \in 1..Len(t)+1
      /\ \A j \in 1..Len(t) : j < n => t[j].at < d
      /\ \A j \in 1..Len(t) : j >= n => t[j].at >= d
    BY <1>3 DEF Parts
<1>6. CASE t = <<>>
  <2>1. Around(t, d) = {}
    BY <1>6 DEF Around
  <2>2. Closest(t, d) = {}
    <3>1. Len(t) = 0
      BY <1>6
    <3> QED
      BY <3>1 DEF Closest
  <2> QED
    BY <2>1, <2>2
<1>7. CASE t # <<>> /\ n > Len(t)
  <2>1. n = Len(t) + 1 /\ Len(t) >= 1
    BY <1>1, <1>5, <1>7
  <2>2. Around(t, d) = {t[Len(t)]}
    BY <1>1, <1>2, <1>7, <2>1 DEF Around
  <2>3. Closest(t, d) = {Len(t)}
    <3>1. Len(t) \in 1..Len(t)
      BY <1>1, <2>1
    <3>2. \A i \in 1..Len(t) : i = n \/ (i = n - 1 /\ ~(n <= Len(t) /\ t[n].at = d)) <=> i = Len(t)
      BY <1>1, <2>1
    <3>3. \A i : i \in Closest(t, d) <=> i \in 1..Len(t) /\ i = Len(t)
      BY <1>4, <3>2
    <3> QED
      BY <3>1, <3>3
  <2> QED
    BY <2>2, <2>3
<1>8. CASE t # <<>> /\ n <= Len(t)
  <2>1. Around(t, d) = IF n = 1 \/ t[n].at = d THEN {t[n]} ELSE Interpolated(d, t[n-1], t[n])
    BY <1>1, <1>2, <1>5, <1>8 DEF Around
  <2>2. n \in 1..Len(t)
    BY <1>1, <1>5, <1>8
  <2>3. CASE n = 1 \/ t[n].at = d
    <3>1. Closest(t, d) = {n}
      BY <1>4, <1>8, <2>2, <2>3
    <3> QED
      BY <2>1, <2>3, <3>1
  <2>4. CASE ~(n = 1 \/ t[n].at = d)
    <3>1. n - 1 \in 1..Len(t) /\ t[n-1].at # t[n].at /\ d # t[n-1].at /\ d # t[n].at
      BY <1>1, <1>5, <2>2, <2>4
    <3>2. Around(t, d) = {t[n-1], t[n]}
      BY <2>1, <2>4, <3>1 DEF Interpolated
    <3>3. Closest(t, d) = {n-1, n}
      BY <1>4, <2>2, <2>4, <3>1
    <3> QED
      BY <3>2, <3>3
  <2> QED
    BY <2>3, <2>4
<1> QED
    BY <1>1, <1>5, <1>6, <1>7, <1>8
-----------------------------------------------------------------------------
\* Where a date occurs once, all the lookups find its entry.
Alone(t, i) == \A j \in 1..Len(t) : t[j].at = t[i].at => j = i

LEMMA UpToAt ==
    ASSUME NEW t \in Seq(Entry), Ordered(t, FALSE), NEW i \in 1..Len(t), Alone(t, i)
    PROVE  UpTo(t, t[i].at) = {t[i]}
<1>1. PICK d \in Int : d = t[i].at
    BY Entries
<1>2. Len(t) \in Nat /\ \A j \in 1..Len(t) : t[j].at \in Int
    BY Entries
<1>3. PICK n : n = After(t, d)
    OBVIOUS
<1>4. /\ n \in 1..Len(t)+1
      /\ \A j \in 1..Len(t) : j < n => t[j].at <= d
      /\ \A j \in 1..Len(t) : j >= n => t[j].at > d
    BY <1>3, AfterIs DEF Splits
<1>5. n > i
    BY <1>1, <1>2, <1>4
<1>6. n - 1 = i
  <2> SUFFICES ASSUME i < n - 1 PROVE FALSE
    BY <1>4, <1>5
  <2>1. n - 1 \in 1..Len(t) /\ t[n-1].at <= d /\ t[i].at <= t[n-1].at
    BY <1>4, <1>2 DEF Ordered, Before
  <2>2. t[n-1].at = t[i].at
    BY <1>1, <1>2, <2>1
  <2> QED
    BY <2>1, <2>2 DEF Alone
<1>7. t # <<>> /\ n # 1
    BY <1>2, <1>5, <1>6
<1>8. CASE n > Len(t)
  <2>1. i = Len(t)
    BY <1>2, <1>4, <1>6, <1>8
  <2> QED
    BY <1>1, <1>3, <1>7, <1>8, <2>1 DEF UpTo
<1>9. CASE ~(n > Len(t))
  <2>1. UpTo(t, d) = Interpolated(d, t[n-1], t[n])
    BY <1>3, <1>7, <1>9 DEF UpTo
  <2>2. n \in 1..Len(t) /\ d # t[n].at
    BY <1>1, <1>2, <1>4, <1>9
  <2> QED
    BY <1>1, <1>6, <2>1, <2>2 DEF Interpolated
<1> QED
    BY <1>8, <1>9

LEMMA AroundAt ==
    ASSUME NEW t \in Seq(Entry), Ordered(t, FALSE), NEW i \in 1..Len(t), Alone(t, i)
    PROVE  Around(t, t[i].at) = {t[i]}
<1>1. PICK d \in Int : d = t[i].at
    BY Entries
<1>2. Len(t) \in Nat /\ \A j \in 1..Len(t) : t[j].at \in Int
    BY Entries
<1>3. PICK n : n = NotBefore(t, d)
    OBVIOUS
<1>4. /\ n \in 1..Len(t)+1
      /\ \A j \in 1..Len(t) : j < n => t[j].at < d
      /\ \A j \in 1..Len(t) : j >= n => t[j].at >= d
    BY <1>3, NotBeforeIs DEF Parts
<1>5. n <= i
    BY <1>1, <1>2, <1>4
<1>6. n = i
  <2> SUFFICES ASSUME n < i PROVE FALSE
    BY <1>4, <1>5
  <2>1. n \in 1..Len(t) /\ t[n].at >= d /\ t[n].at <= t[i].at
    BY <1>4, <1>2 DEF Ordered, Before
  <2>2. t[n].at = t[i].at
    BY <1>1, <1>2, <2>1
  <2> QED
    BY <2>1, <2>2 DEF Alone
<1>7. t # <<>> /\ n <= Len(t) /\ ~(n > Len(t)) /\ t[n].at = d
    BY <1>1, <1>2, <1>6
<1> QED
    BY <1>1, <1>3, <1>6, <1>7 DEF Around

LEMMA ExactAt ==
    ASSUME NEW t \in Seq(Entry), NEW i \in 1..Len(t), Alone(t, i)
    PROVE  Exact(t, t[i].at) = {t[i]}
<1>1. DOMAIN t = 1..Len(t)
    BY Entries
<1>2. {j \in DOMAIN t : t[j].at = t[i].at} = {i}
    BY <1>1 DEF Alone
<1>3. Min({i}) = i
    BY LeastOfOne
<1> QED
    BY <1>2, <1>3 DEF Exact

\* The first entry of a date.
LEMMA ExactFirst ==
    ASSUME NEW t \in Seq(Entry), NEW d, Exact(t, d) # {}
    PROVE  LET i == Min({j \in DOMAIN t : t[j].at = d}) IN i \in 1..Len(t) /\ t[i].at = d
<1> DEFINE S == {j \in DOMAIN t : t[j].at = d}
<1>1. S \in SUBSET Nat /\ DOMAIN t = 1..Len(t)
    BY Entries
<1>0. S # {}
    BY DEF Exact
<1>2. Min(S) \in S
  <2> HIDE DEF S
  <2> QED
    BY <1>0, <1>1, MinIs
<1> QED
    BY <1>1, <1>2

LEMMA RevaluedAt ==
    ASSUME NEW t \in Seq(Entry), NEW i \in 1..Len(t), NEW V
    PROVE  Revalue(t, i, V)[i] = [at |-> t[i].at, val |-> V]
<1>1. DOMAIN t = 1..Len(t) /\ t[i] \in Entry
    BY Entries
<1> QED
    BY <1>1 DEF Revalue, Entry

LEMMA InsertedAt ==
    ASSUME NEW t \in Seq(Entry), NEW i \in 1..Len(t)+1, NEW e \in Entry
    PROVE  /\ InsertAt(t, i, e)[i] = e
           /\ i \in 1..Len(InsertAt(t, i, e))
<1>1. PICK r : r = InsertAt(t, i, e)
    OBVIOUS
<1>2. Len(r) = Len(t) + 1 /\ r[i] = e
    BY <1>1, Inserted
<1> QED
    BY <1>1, <1>2, Entries

\* What the last call put is there.
SetIsThere ==
    Idle /\ ask.what = "set" =>
        /\ ask.at \in Date
        /\ \E i \in 1..Len(table) :
            /\ table[i].at = ask.at /\ ask.val \subseteq table[i].val
            /\ kind # "events" => table[i].val = ask.val

LEMMA PutShows ==
    ASSUME IInv, NEW d \in Date, NEW v \in Value, PutInOrder(d, v)
    PROVE  SetIsThere'
<1> DEFINE e == [at |-> d, val |-> {v}]
<1>1. /\ ask' = Setting(d, v) /\ kind' = kind
    BY DEF PutInOrder, Done
<1>2. PICK i \in 1..Len(table)+1 :
        /\ Place(d, i)
        /\ IF i <= Len(table) /\ table[i].at = d
           THEN table' = [table EXCEPT ![i].val = {v}]
           ELSE Insert(i, d, {v})
    BY DEF PutInOrder
<1>3. e \in Entry /\ {v} \in SUBSET Value
    BY Entered
<1>4. i \in 1..Len(table') /\ table'[i] = e
  <2>1. CASE i <= Len(table) /\ table[i].at = d
    <3>1. table' = Revalue(table, i, {v}) /\ i \in 1..Len(table)
      BY <1>2, <2>1, Table DEF Revalue
    <3> QED
      BY <1>3, <2>1, <3>1, Table, RevaluedAt, Revalued, ZenonT(60)
  <2>2. CASE ~(i <= Len(table) /\ table[i].at = d)
    <3>1. table' = InsertAt(table, i, e)
      BY <1>2, <2>2 DEF Insert
    <3> HIDE DEF e
    <3> QED
      BY <1>3, <3>1, Table, InsertedAt
  <2> QED
    BY <2>1, <2>2
<1> QED
    BY <1>1, <1>4 DEF SetIsThere, Setting

LEMMA PriceShows ==
    ASSUME IInv, NEW d \in Date, NEW v \in Value, SetPrice(d, v) \/ AddToDividendYield(d, v)
    PROVE  SetIsThere'
<1> DEFINE e == [at |-> d, val |-> {v}]
           i == Min({j \in DOMAIN table : table[j].at = d})
<1>1. ask' = Setting(d, v)
    BY DEF SetPrice, AddToDividendYield, Done
<1>2. e \in Entry /\ {v} \in SUBSET Value
    BY Entered
<1>3. \E j \in 1..Len(table') : table'[j] = e
  <2>1. CASE table' = InsertAt(table, Len(table) + 1, e)
    <3>1. Len(table) + 1 \in 1..Len(table)+1
      BY Table
    <3> HIDE DEF e
    <3> QED
      BY <1>2, <2>1, <3>1, Table, InsertedAt
  <2>2. CASE table' = Revalue(table, i, {v}) /\ Exact(table, d) # {}
    <3>1. i \in 1..Len(table) /\ table[i].at = d
      BY <2>2, Table, ExactFirst
    <3> HIDE DEF i
    <3>2. table'[i] = [at |-> d, val |-> {v}]
      <4>1. table \in Seq(Entry)
        BY Table
      <4>2. PICK V, n : V = {v} /\ n = i
        OBVIOUS
      <4>3. Revalue(table, n, V)[n] = [at |-> table[n].at, val |-> V]
        BY <3>1, <4>1, <4>2, RevaluedAt
      <4> QED
        BY <2>2, <3>1, <4>2, <4>3
    <3>3. Len(table') = Len(table)
      BY <1>2, <2>2, Table, Revalued
    <3> QED
      BY <3>1, <3>2, <3>3
  <2>3. table' = InsertAt(table, Len(table) + 1, e) \/ (table' = Revalue(table, i, {v}) /\ Exact(table, d) # {})
    BY DEF SetPrice, AddToDividendYield, Insert, Revalue
  <2> QED
    BY <2>1, <2>2, <2>3
<1> QED
    BY <1>1, <1>3 DEF SetIsThere, Setting

LEMMA VolShows ==
    ASSUME IInv, NEW d \in Date, NEW v \in Value, AddVolAtEnd(d, v) \/ AddFirstEvent(d, v)
    PROVE  SetIsThere'
<1> DEFINE e == [at |-> d, val |-> {v}]
<1>1. ask' = Setting(d, v)
    BY DEF AddVolAtEnd, AddFirstEvent, Done
<1>2. e \in Entry
    BY Entered
<1>3. \E i \in 1..Len(table)+1 : table' = InsertAt(table, i, e)
    BY Table DEF AddVolAtEnd, AddFirstEvent, Insert
<1> HIDE DEF e
<1>4. \E j \in 1..Len(table') : table'[j] = e
    BY <1>2, <1>3, Table, InsertedAt
<1> QED
    BY <1>1, <1>4 DEF SetIsThere, Setting, e

LEMMA HalveShows ==
    ASSUME IInv, VolHalve \/ EventHalve
    PROVE  SetIsThere'
<1> SUFFICES ASSUME pc' = "idle", ask'.what = "set" PROVE SetIsThere'
    BY DEF SetIsThere, Idle
<1>1. ask' = ask /\ kind' = kind
    BY DEF VolHalve, EventHalve
<1>2. CASE VolHalve
  <2>1. PICK mid : mid = lo + (hi - lo) \div 2
    OBVIOUS
  <2>2. pc = "vol" /\ (table[mid].at # ask.at => pc' # "idle")
    BY <1>2, <2>1 DEF VolHalve
  <2>3. table[mid].at = ask.at
    BY <2>2
  <2>4. table' = Revalue(table, mid, ask.val)
    BY <1>2, <2>1, <2>3 DEF VolHalve, Revalue
  <2>5. mid \in 1..Len(table) /\ ask.at \in Date /\ ask.val \in SUBSET Value
    BY <2>1, <2>2, VolBounds, Table
  <2>6. mid \in 1..Len(table') /\ table'[mid] = [at |-> ask.at, val |-> ask.val]
    BY <2>3, <2>4, <2>5, Table, Revalued, RevaluedAt
  <2> QED
    BY <1>1, <2>5, <2>6 DEF SetIsThere
<1>3. CASE EventHalve
  <2>1. PICK mid : mid = (lo + hi) \div 2
    OBVIOUS
  <2>2. pc = "events" /\ hi - lo > 1 /\ (table[mid].at # ask.at => pc' # "idle")
    BY <1>3, <2>1 DEF EventHalve
  <2>3. table[mid].at = ask.at
    BY <2>2
  <2>4. table' = Revalue(table, mid, table[mid].val \cup ask.val)
    BY <1>1, <1>3, <2>1, <2>3 DEF EventHalve, Revalue
  <2>5. mid \in 1..Len(table) /\ ask.at \in Date /\ ask.val \in SUBSET Value /\ kind = "events"
    BY <2>1, <2>2, EventMiddle, EventBounds
  <2>6. table[mid].val \cup ask.val \in SUBSET Value
    BY <2>5, Table, Fields
  <2>7. mid \in 1..Len(table') /\ table'[mid] = [at |-> ask.at, val |-> table[mid].val \cup ask.val]
    <3>1. Len(table') = Len(table)
      BY <2>4, <2>6, Table, Revalued
    <3>2. table'[mid] = [at |-> table[mid].at, val |-> table[mid].val \cup ask.val]
      <4>1. table \in Seq(Entry)
        BY Table
      <4>2. PICK V : V = table[mid].val \cup ask.val
        OBVIOUS
      <4>3. Revalue(table, mid, V)[mid] = [at |-> table[mid].at, val |-> V]
        BY <2>5, <4>1, RevaluedAt
      <4> QED
        BY <2>4, <4>2, <4>3
    <3> QED
      BY <2>3, <2>5, <3>1, <3>2
  <2> QED
    BY <1>1, <2>5, <2>7 DEF SetIsThere
<1> QED
    BY <1>2, <1>3

LEMMA InsertShows ==
    ASSUME IInv, VolInsert \/ EventInsert
    PROVE  SetIsThere'
<1> DEFINE e == [at |-> ask.at, val |-> ask.val]
<1>1. ask' = ask /\ kind' = kind
    BY DEF VolInsert, EventInsert
<1>2. ask.at \in Date /\ ask.val \in SUBSET Value
    BY VolBounds, EventBounds DEF VolInsert, EventInsert
<1>3. \E i \in 1..Len(table)+1 : table' = InsertAt(table, i, e)
  <2>1. CASE VolInsert
    <3>1. hi \in 1..Len(table)+1
      BY <2>1, VolBounds, Table DEF VolInsert
    <3> QED
      BY <2>1, <3>1 DEF VolInsert, Insert
  <2>2. CASE EventInsert
    <3>1. lo \in Nat /\ hi \in Nat /\ lo < hi /\ hi <= Len(table) + 1
      BY <2>2, EventBounds DEF EventInsert
    <3>2. \A i \in {lo, hi} : i >= 1 => i \in 1..Len(table)+1
      BY <3>1, Table
    <3>3. hi >= 1
      BY <3>1
    <3> QED
      BY <2>2, <3>2, <3>3 DEF EventInsert, Insert
  <2> QED
    BY <2>1, <2>2
<1>4. e \in Entry
    BY <1>2 DEF Entry
<1> HIDE DEF e
<1>5. \E j \in 1..Len(table') : table'[j] = e
    BY <1>3, <1>4, Table, InsertedAt
<1> QED
    BY <1>1, <1>2, <1>5 DEF SetIsThere, e

LEMMA ShowsStep ==
    ASSUME IInv, SetIsThere, [Next]_vars
    PROVE  SetIsThere'
<1>1. CASE UNCHANGED <<kind, table, ask, pc>>
    BY <1>1 DEF SetIsThere, Idle
<1>2. CASE pc' # "idle" \/ ask'.what # "set"
    BY <1>2 DEF SetIsThere, Idle
<1>3. CASE VolHalve \/ EventHalve \/ VolInsert \/ EventInsert
    BY <1>3, HalveShows, InsertShows
<1>4. CASE \E d \in Date : GetEventMask(d)
    BY <1>2, <1>4 DEF GetEventMask, FindDateEvent
<1>5. ASSUME NEW d \in Date, NEW v \in Value,
             \/ PutInOrder(d, v) \/ SetPrice(d, v) \/ AddToDividendYield(d, v)
             \/ AddVolAtEnd(d, v) \/ AddFirstEvent(d, v)
      PROVE  SetIsThere'
    BY <1>5, PutShows, PriceShows, VolShows
<1>6. ASSUME NEW d \in Date, NEW v \in Value, AddVol(d, v) \/ AddEvent(d, v)
      PROVE  SetIsThere'
    BY <1>2, <1>6 DEF AddVol, AddEvent, FindDateEvent
<1>7. CASE FindDateBounds \/ CloneEquityCurve
    BY <1>2, <1>7 DEF FindDateBounds, CloneEquityCurve
<1>8. CASE CloneFitted \/ CloneWhole \/ UNCHANGED vars
    BY <1>1, <1>8 DEF CloneFitted, CloneWhole, vars
<1>9. CASE EventNotFound
    BY <1>2, <1>9 DEF EventNotFound
<1> QED
    BY <1>3, <1>4, <1>5, <1>6, <1>7, <1>8, <1>9, Zenon
       DEF Next, Client, Search, SetForwardRate, SetSpread, SetSurvivalRate

LEMMA LastSetNow ==
    ASSUME IInv, SetIsThere
    PROVE  LastSetIsRead
<1> SUFFICES ASSUME Idle, ask.what = "set", Readable(ask.at), Once(ask.at)
             PROVE  \E e \in Entry :
                        /\ Read(ask.at) = {e} /\ ask.val \subseteq e.val
                        /\ kind # "events" => e.val = ask.val
    BY DEF LastSetIsRead
<1>1. PICK d \in Date : d = ask.at
    BY DEF SetIsThere
<1>2. PICK i \in 1..Len(table) :
            /\ table[i].at = ask.at /\ ask.val \subseteq table[i].val
            /\ kind # "events" => table[i].val = ask.val
    BY DEF SetIsThere
<1>3. Alone(table, i)
    BY <1>2, Table DEF Once, Alone
<1>4. table \in Seq(Entry) /\ table[i] \in Entry
    BY Table
<1>5. Exact(table, d) = {table[i]}
    BY <1>1, <1>2, <1>3, <1>4, ExactAt
<1>6. kind \in Kind
    BY Table DEF TypeOK
<1>7. Read(d) = {table[i]}
  <2>1. CASE kind \in {"future", "events"}
    BY <1>5, <2>1 DEF Read
  <2>2. CASE kind = "dividend"
    <3>1. table # <<>>
      BY <1>2
    <3>2. Exact(table, d) # {}
      BY <1>5
    <3>3. GetDividendYield(d) = Exact(table, d)
      BY <3>1, <3>2 DEF GetDividendYield
    <3> QED
      BY <1>5, <2>2, <3>3 DEF Read
  <2>3. CASE kind \in {"forward", "vol"}
    <3>1. Ordered(table, FALSE)
      BY <2>3, Table, Weaker DEF InOrder, Linear
    <3>2. UpTo(table, d) = {table[i]}
      BY <1>1, <1>2, <1>3, <1>4, <3>1, UpToAt
    <3> QED
      BY <2>3, <3>2 DEF Read, GetForwardRate, GetVolatility
  <2>4. CASE kind \in {"spread", "survival"}
    <3>1. Ordered(table, FALSE)
      BY <2>4, Table, Weaker DEF InOrder, Linear
    <3>2. Around(table, d) = {table[i]}
      BY <1>1, <1>2, <1>3, <1>4, <3>1, AroundAt
    <3>3. (kind = "spread" => ~(d <= From)) /\ (kind = "survival" => ~(d <= 0))
      BY <1>1, DateAssumption DEF Readable
    <3> QED
      BY <2>4, <3>2, <3>3 DEF Read, GetSpread, GetSurvivalRate
  <2> QED
    BY <1>6, <2>1, <2>2, <2>3, <2>4 DEF Kind, Linear
<1> QED
    BY <1>1, <1>2, <1>4, <1>7

LEMMA NearestNow == ASSUME IInv PROVE ReadsNearest
<1> SUFFICES ASSUME kind \in Linear \cup {"vol"}, \A d \in Date : Once(d),
                    NEW d \in Date, Readable(d)
             PROVE  Read(d) = Nearest(d)
    BY DEF ReadsNearest
<1>1. table \in Seq(Entry) /\ d \in Int
    BY Table, DateAssumption
<1>2. Ordered(table, TRUE)
  <2>1. CASE kind \in Linear
    BY <2>1, Table DEF InOrder
  <2>2. CASE kind = "vol"
    <3>1. Ordered(table, FALSE)
      BY <2>2, Table DEF InOrder
    <3>2. ASSUME NEW i \in 1..Len(table), NEW j \in 1..Len(table), i < j
          PROVE  table[i].at < table[j].at
      <4>1. table[i].at <= table[j].at
        BY <3>1, <3>2 DEF Ordered, Before
      <4>2. table[i].at \in Date /\ table[i].at \in Int /\ table[j].at \in Int
        BY <1>1, Entries
      <4>3. table[j].at # table[i].at
        BY <1>1, <3>2, <4>2, Entries DEF Once
      <4> QED
        BY <4>1, <4>2, <4>3
    <3> QED
      BY <3>2 DEF Ordered, Before
  <2> QED
    BY <2>1, <2>2
<1>3. Nearest(d) = {table[i] : i \in Closest(table, d)}
    BY <1>1, NearestIs
<1>4. UpTo(table, d) = Nearest(d) /\ Around(table, d) = Nearest(d)
    BY <1>1, <1>2, <1>3, UpToClosest, AroundClosest
<1>5. (kind = "spread" => ~(d <= From)) /\ (kind = "survival" => ~(d <= 0))
    BY <1>1, DateAssumption DEF Readable
<1> QED
    BY <1>4, <1>5 DEF Read, GetForwardRate, GetVolatility, GetSpread, GetSurvivalRate, Linear
-----------------------------------------------------------------------------
\* The bounds of an equity curve, as long as nothing was added.
BoundsThere ==
    ask.what = "bounds" =>
        \E l, u \in DOMAIN table :
            /\ bounds = <<l, u>>
            /\ \A i \in DOMAIN table : table[l].at <= table[i].at /\ table[i].at <= table[u].at

LEMMA BoundsStep ==
    ASSUME IInv, BoundsThere, [Next]_vars
    PROVE  BoundsThere'
<1>1. CASE UNCHANGED <<table, ask, bounds>>
    BY <1>1 DEF BoundsThere
<1>2. CASE ask'.what # "bounds"
    BY <1>2 DEF BoundsThere
<1>3. CASE FindDateBounds
    BY <1>3, Zenon DEF FindDateBounds, BoundsThere
<1>4. CASE Search
  <2>1. ask' = ask /\ pc \in {"vol", "insert", "events"}
    BY <1>4 DEF Search, VolHalve, VolInsert, EventHalve, EventInsert, EventNotFound
  <2>2. ask.what \in {"set", "look"}
    BY <2>1 DEF IInv, SearchInv
  <2> QED
    BY <1>2, <2>1, <2>2
<1>5. CASE \E d \in Date : GetEventMask(d)
    BY <1>2, <1>5 DEF GetEventMask
<1>6. ASSUME NEW d \in Date, NEW v \in Value,
             \/ PutInOrder(d, v) \/ SetPrice(d, v) \/ AddToDividendYield(d, v)
             \/ AddVolAtEnd(d, v) \/ AddVol(d, v) \/ AddFirstEvent(d, v) \/ AddEvent(d, v)
      PROVE  BoundsThere'
  <2>1. ask' = Setting(d, v)
    BY <1>6 DEF PutInOrder, SetPrice, AddToDividendYield, AddVolAtEnd, AddVol,
                AddFirstEvent, AddEvent, Done
  <2> QED
    BY <1>2, <2>1 DEF Setting
<1>7. CASE CloneFitted \/ CloneWhole \/ UNCHANGED vars
    BY <1>1, <1>7 DEF CloneFitted, CloneWhole, vars
<1>8. CASE CloneEquityCurve
    BY <1>2, <1>8 DEF CloneEquityCurve
<1> QED
    BY <1>3, <1>4, <1>5, <1>6, <1>7, <1>8, Zenon
       DEF Next, Client, SetForwardRate, SetSpread, SetSurvivalRate

\* Through dates that rise, from the latest and the earliest, and none of them the
\* date: to the last before the place and the first behind it.
LEMMA ClosestDatesAre ==
    ASSUME NEW t \in Seq(Entry), Ordered(t, TRUE), NEW d \in Int,
           NEW n \in 2..Len(t)+1,
           \A j \in 1..Len(t) : j < n => t[j].at < d,
           \A j \in 1..Len(t) : j >= n => t[j].at > d
    PROVE  ClosestDates(t, d, 1, Len(t)) = <<n - 1, IF n > Len(t) THEN 1 ELSE n>>
<1> DEFINE g == [i \in 0..Len(t) |-> <<IF i = 0 THEN Len(t) ELSE IF i < n THEN i ELSE n - 1,
                                       IF i < n THEN 1 ELSE n>>]
<1>1. Len(t) \in Nat /\ \A j \in 1..Len(t) : t[j].at \in Int
    BY Entries
<1>2. \A i, j \in 1..Len(t) : i < j => t[i].at < t[j].at
    BY DEF Ordered, Before
<1>3. ASSUME NEW i \in 1..Len(t)
      PROVE  g[i] = Closer(t, d, 1, Len(t), i, g[i-1])
  <2>1. i \in 0..Len(t) /\ i - 1 \in 0..Len(t)
    BY <1>1
  <2>2. PICK p : p = g[i-1]
    OBVIOUS
  <2>3. CASE i < n
    <3>1. g[i] = <<i, 1>>
      BY <2>1, <2>3
    <3>2. p = <<IF i = 1 THEN Len(t) ELSE i - 1, 1>>
      BY <1>1, <2>1, <2>2, <2>3
    <3>3. t[i].at < d
      BY <2>3
    <3>4. p[1] = Len(t) \/ t[i].at > t[p[1]].at
      <4>1. CASE i = 1
        BY <3>2, <4>1
      <4>2. CASE i # 1
        <5>1. i - 1 \in 1..Len(t) /\ i - 1 < i /\ p[1] = i - 1
          BY <3>2, <4>2
        <5> QED
          BY <1>1, <1>2, <5>1
      <4> QED
        BY <4>1, <4>2
    <3>5. ~(t[i].at > d)
      BY <1>1, <3>3
    <3>6. p[2] = 1
      BY <3>2
    <3> HIDE DEF g
    <3> QED
      BY <2>2, <3>1, <3>3, <3>4, <3>5, <3>6 DEF Closer
  <2>4. CASE i >= n
    <3>1. g[i] = <<n - 1, n>>
      BY <1>1, <2>1, <2>4
    <3>2. p = <<n - 1, IF i = n THEN 1 ELSE n>>
      BY <1>1, <2>1, <2>2, <2>4
    <3>3. t[i].at > d /\ ~(t[i].at < d)
      BY <1>1, <2>4
    <3>4. CASE i = n
      <4>1. p[1] = n - 1 /\ p[2] = 1
        BY <3>2, <3>4
      <4> HIDE DEF g
      <4> QED
        BY <2>2, <3>1, <3>3, <3>4, <4>1 DEF Closer
    <3>5. CASE i # n
      <4>1. p[1] = n - 1 /\ p[2] = n
        BY <3>2, <3>5
      <4>2. n \in 1..Len(t) /\ n < i /\ n # 1
        BY <2>4, <3>5
      <4>3. ~(t[i].at < t[n].at)
        BY <1>1, <1>2, <4>2
      <4> HIDE DEF g
      <4> QED
        BY <2>2, <3>1, <3>3, <4>1, <4>2, <4>3 DEF Closer
    <3> QED
      BY <3>4, <3>5
  <2> QED
    BY <2>3, <2>4
<1>4. g[0] = <<Len(t), 1>> /\ g = [i \in 0..Len(t) |-> g[i]]
    BY <1>1
<1>5. g[Len(t)] = <<n - 1, IF n > Len(t) THEN 1 ELSE n>>
    BY <1>1
<1> HIDE DEF g
<1>6. ASSUME NEW i \in 0..Len(t)
      PROVE  g[i] = IF i = 0 THEN <<Len(t), 1>> ELSE Closer(t, d, 1, Len(t), i, g[i-1])
  <2>1. CASE i = 0
    BY <1>4, <2>1
  <2>2. CASE i # 0
    <3>1. i \in 1..Len(t)
      BY <1>1, <2>2
    <3> QED
      BY <1>3, <2>2, <3>1
  <2> QED
    BY <2>1, <2>2
<1>7. g = [i \in 0..Len(t) |-> IF i = 0 THEN <<Len(t), 1>> ELSE Closer(t, d, 1, Len(t), i, g[i-1])]
    BY <1>4, <1>6
<1> DEFINE c == CHOOSE f : f = [i \in 0..Len(t) |->
                    IF i = 0 THEN <<Len(t), 1>> ELSE Closer(t, d, 1, Len(t), i, f[i-1])]
<1>15. ClosestDates(t, d, 1, Len(t)) = c[Len(t)]
    BY DEF ClosestDates
<1>8. c = [i \in 0..Len(t) |-> IF i = 0 THEN <<Len(t), 1>> ELSE Closer(t, d, 1, Len(t), i, c[i-1])]
    BY <1>7
<1>9. \A i \in 0..Len(t) : c[i] = IF i = 0 THEN <<Len(t), 1>> ELSE Closer(t, d, 1, Len(t), i, c[i-1])
    BY ONLY <1>8
<1> HIDE DEF c
<1> DEFINE S == {i \in 0..Len(t) : c[i] = g[i]}
<1>16. 0 \in 0..Len(t)
    BY <1>1
<1>17. c[0] = <<Len(t), 1>>
    BY <1>9, <1>16
<1>10. 0 \in S
    BY <1>4, <1>16, <1>17
<1>11. ASSUME NEW i \in 1..Len(t), i - 1 \in S PROVE i \in S
  <2>1. i \in 0..Len(t) /\ i # 0 /\ c[i-1] = g[i-1]
    BY <1>11
  <2> QED
    BY <1>3, <1>9, <2>1
<1> HIDE DEF S
<1>12. 0..Len(t) \subseteq S
    BY <1>1, <1>10, <1>11, Upwards
<1>13. c[Len(t)] = g[Len(t)]
    BY <1>1, <1>12 DEF S
<1> QED
    BY <1>5, <1>13, <1>15

LEMMA DividendsNow == ASSUME IInv, BoundsThere PROVE DividendsRight
<1> SUFFICES ASSUME kind = "dividend", ask.what = "bounds",
                    \A i, j \in DOMAIN table : i < j => table[i].at < table[j].at,
                    NEW d \in Date, d >= table[1].at
             PROVE  Read(d) = Nearest(d)
    BY DEF DividendsRight
<1>1. PICK l \in DOMAIN table, u \in DOMAIN table :
            /\ bounds = <<l, u>>
            /\ \A i \in DOMAIN table : table[l].at <= table[i].at /\ table[i].at <= table[u].at
    BY DEF BoundsThere
<1>2. /\ table \in Seq(Entry) /\ d \in Int
      /\ Len(table) \in Nat /\ DOMAIN table = 1..Len(table)
      /\ \A j \in 1..Len(table) : table[j].at \in Int
    BY Table, DateAssumption
<1>8. Len(table) >= 1
    BY <1>1, <1>2
<1>9. Ordered(table, TRUE)
    BY <1>2 DEF Ordered, Before
<1>10. table # <<>>
    BY <1>8
<1>3. Ordered(table, TRUE) /\ table # <<>> /\ 1 \in 1..Len(table) /\ Len(table) \in 1..Len(table)
  <2>1. 1 \in 1..Len(table) /\ Len(table) \in 1..Len(table)
    BY ONLY <1>2, <1>8
  <2> QED
    BY ONLY <2>1, <1>9, <1>10
<1>4. l = 1 /\ u = Len(table)
    BY <1>1, <1>2, <1>3, SMTT(30)
<1>5. UpTo(table, d) = Nearest(d)
    BY <1>2, <1>3, NearestIs, UpToClosest
<1>6. CASE Exact(table, d) # {}
  <2>1. Read(d) = Exact(table, d)
    BY <1>3, <1>6 DEF Read, GetDividendYield
  <2>2. PICK i \in 1..Len(table) : table[i].at = d
    BY <1>2, <1>6 DEF Exact
  <2>3. Alone(table, i)
    BY <1>2, <1>3 DEF Alone, Ordered, Before
  <2>4. Exact(table, d) = {table[i]} /\ UpTo(table, d) = {table[i]}
    BY <1>2, <1>3, <2>2, <2>3, ExactAt, UpToAt, Weaker
  <2> QED
    BY <1>5, <2>1, <2>4
<1>7. CASE Exact(table, d) = {}
  <2>1. \A j \in 1..Len(table) : table[j].at # d
    BY <1>2, <1>7 DEF Exact
  <2>2. PICK n : n = After(table, d)
    OBVIOUS
  <2>3. Splits(table, d, n)
    BY <1>2, <1>3, <2>2, Weaker, AfterIs
  <2>4. n \in 2..Len(table)+1
    BY <1>2, <1>3, <2>3 DEF Splits
  <2>5. /\ \A j \in 1..Len(table) : j < n => table[j].at < d
        /\ \A j \in 1..Len(table) : j >= n => table[j].at > d
    BY <1>2, <2>1, <2>3 DEF Splits
  <2>6. bounds[1] = 1 /\ bounds[2] = Len(table)
    BY <1>1, <1>4
  <2>8. ClosestDates(table, d, 1, Len(table)) = <<n - 1, IF n > Len(table) THEN 1 ELSE n>>
    BY <1>2, <1>3, <2>4, <2>5, ClosestDatesAre
  <2>7. PICK c : c = ClosestDates(table, d, 1, Len(table))
    OBVIOUS
  <2>14. c[1] = n - 1 /\ c[2] = IF n > Len(table) THEN 1 ELSE n
    BY <2>7, <2>8
  <2>9. GetDividendYield(d) =
            CASE c[1] = Len(table) -> {table[Len(table)]}
              [] c[1] # Len(table) /\ c[2] = 1 -> {table[1]}
              [] OTHER -> Interpolated(d, table[c[1]], table[c[2]])
    BY <1>3, <1>7, <2>6, <2>7 DEF GetDividendYield
  <2>10. Closest(table, d) = {i \in 1..Len(table) : i = n - 1 \/ i = n}
    <3>1. \A i : i \in Closest(table, d) <=> i \in 1..Len(table) /\ (i = n - 1 \/ (i = n /\ ~(n > 1 /\ table[n-1].at = d)))
      BY <1>2, <1>3, <2>3, ClosestUpTo
    <3>2. n - 1 \in 1..Len(table)
      BY <1>2, <2>4
    <3> QED
      BY <2>1, <3>1, <3>2
  <2>11. Nearest(d) = {table[i] : i \in {j \in 1..Len(table) : j = n - 1 \/ j = n}}
    BY <1>2, <2>10, NearestIs
  <2>12. CASE n > Len(table)
    <3>1. n - 1 = Len(table)
      BY <1>2, <2>4, <2>12
    <3>2. GetDividendYield(d) = {table[Len(table)]}
      BY <2>14, <2>9, <3>1
    <3>3. {j \in 1..Len(table) : j = n - 1 \/ j = n} = {Len(table)}
      BY <1>3, <2>12, <3>1
    <3> QED
      BY <2>11, <3>2, <3>3 DEF Read
  <2>13. CASE ~(n > Len(table))
    <3>1. n \in 2..Len(table) /\ n - 1 # Len(table) /\ n # 1 /\ n - 1 \in 1..Len(table)
      BY <1>2, <2>4, <2>13
    <3>2. GetDividendYield(d) = Interpolated(d, table[n-1], table[n])
      BY <2>14, <2>9, <2>13, <3>1
    <3>3. Interpolated(d, table[n-1], table[n]) = {table[n-1], table[n]}
      BY <1>2, <2>1, <2>5, <3>1 DEF Interpolated
    <3>4. {j \in 1..Len(table) : j = n - 1 \/ j = n} = {n-1, n}
      BY <3>1
    <3> QED
      BY <2>11, <3>2, <3>3, <3>4 DEF Read
  <2> QED
    BY <2>12, <2>13
<1> QED
    BY <1>6, <1>7

\* The last value that was set is read, and reads by interpolation use the closest
\* dates on both sides, in tables of any size.
THEOREM ReadsAreRight == Spec => []ReadsRight
<1>1. Init => SetIsThere /\ BoundsThere
    BY DEF Init, SetIsThere, BoundsThere
<1>2. IInv /\ SetIsThere /\ BoundsThere /\ [Next]_vars => (SetIsThere /\ BoundsThere)'
    BY ShowsStep, BoundsStep
<1>3. IInv /\ SetIsThere /\ BoundsThere => ReadsRight
    BY LastSetNow, NearestNow, DividendsNow DEF ReadsRight
<1> QED
    BY Invariance, <1>1, <1>2, <1>3, PTL DEF Spec
-----------------------------------------------------------------------------
\* What is kept of the other dates of a table, position by position.
Keeps(K, t, d) ==
    /\ K[0] = <<>>
    /\ \A i \in 1..Len(t) :
            K[i] = IF t[i].at # d THEN Append(K[i-1], t[i]) ELSE K[i-1]

\* The function that keeps them, up to some position.
KeptBy(f, n, t, d) ==
    f = [i \in 0..n |->
            IF i = 0 THEN <<>>
            ELSE IF t[i].at # d THEN Append(f[i-1], t[i]) ELSE f[i-1]]

LEMMA KeepsUpTo ==
    ASSUME NEW t, Len(t) \in Nat, NEW d
    PROVE  \E f : KeptBy(f, Len(t), t, d)
<1> DEFINE S == {n \in 0..Len(t) : \E f : KeptBy(f, n, t, d)}
<1>1. 0 \in S
  <2> DEFINE f == [i \in 0..0 |-> <<>>]
  <2>1. \A i \in 0..0 : i = 0
    OBVIOUS
  <2>2. f = [i \in 0..0 |->
            IF i = 0 THEN <<>>
            ELSE IF t[i].at # d THEN Append(f[i-1], t[i]) ELSE f[i-1]]
    BY <2>1
  <2> HIDE DEF f
  <2>3. KeptBy(f, 0, t, d)
    BY <2>2 DEF KeptBy
  <2> QED
    BY <2>3
<1>2. ASSUME NEW n \in 1..Len(t), n - 1 \in S PROVE n \in S
  <2>1. PICK f : KeptBy(f, n - 1, t, d)
    BY <1>2
  <2> DEFINE g == [i \in 0..n |->
                    IF i < n THEN f[i]
                    ELSE IF t[n].at # d THEN Append(f[n-1], t[n]) ELSE f[n-1]]
  <2>2. ASSUME NEW i \in 0..n
        PROVE  g[i] = IF i = 0 THEN <<>>
                      ELSE IF t[i].at # d THEN Append(g[i-1], t[i]) ELSE g[i-1]
    <3>1. CASE i = 0
      <4>1. g[0] = f[0] /\ 0 \in 0..n-1
        OBVIOUS
      <4>2. f[0] = <<>>
        BY <2>1, <4>1 DEF KeptBy
      <4> QED
        BY <3>1, <4>1, <4>2
    <3>2. CASE i \in 1..n-1
      <4>1. g[i] = f[i] /\ g[i-1] = f[i-1] /\ i \in 0..n-1 /\ i # 0
        BY <3>2
      <4>2. f[i] = IF t[i].at # d THEN Append(f[i-1], t[i]) ELSE f[i-1]
        BY <2>1, <4>1 DEF KeptBy
      <4> QED
        BY <4>1, <4>2
    <3>3. CASE i = n
      <4>1. n \in 0..n /\ n # 0 /\ n - 1 \in 0..n /\ n - 1 < n /\ ~(n < n)
        OBVIOUS
      <4>2. g[n-1] = f[n-1] /\ g[n] = IF t[n].at # d THEN Append(f[n-1], t[n]) ELSE f[n-1]
        BY <4>1
      <4> HIDE DEF g
      <4> QED
        BY <3>3, <4>1, <4>2
    <3> QED
      BY <3>1, <3>2, <3>3
  <2>3. g = [i \in 0..n |-> g[i]]
    OBVIOUS
  <2> HIDE DEF g
  <2>4. KeptBy(g, n, t, d)
    BY <2>2, <2>3 DEF KeptBy
  <2> QED
    BY <2>4
<1> HIDE DEF S
<1>3. Len(t) \in S
  <2>1. 0..Len(t) \subseteq S
    BY <1>1, <1>2, Upwards
  <2> QED
    BY <2>1
<1> QED
    BY <1>3 DEF S

LEMMA OthersKeeps ==
    ASSUME NEW t \in Seq(Entry), NEW d
    PROVE  \E K : Keeps(K, t, d) /\ Others(t, d) = K[Len(t)]
<1>1. Len(t) \in Nat
    BY Entries
<1> DEFINE K == CHOOSE f : KeptBy(f, Len(t), t, d)
<1>2. KeptBy(K, Len(t), t, d)
    BY <1>1, KeepsUpTo
<1>3. Others(t, d) = K[Len(t)]
    BY DEF Others, KeptBy
<1> HIDE DEF K
<1>4. Keeps(K, t, d)
  <2>1. 0 \in 0..Len(t)
    BY <1>1
  <2>2. K[0] = <<>>
    BY <1>2, <2>1 DEF KeptBy
  <2>3. ASSUME NEW i \in 1..Len(t)
        PROVE  K[i] = IF t[i].at # d THEN Append(K[i-1], t[i]) ELSE K[i-1]
    <3>1. i \in 0..Len(t) /\ i # 0
      BY <1>1
    <3> QED
      BY <1>2, <3>1 DEF KeptBy
  <2> QED
    BY <2>2, <2>3 DEF Keeps
<1> QED
    BY <1>3, <1>4

\* A new entry of a date does not count among the others.
LEMMA OthersInserted ==
    ASSUME NEW t \in Seq(Entry), NEW i \in 1..Len(t)+1, NEW e \in Entry
    PROVE  Others(InsertAt(t, i, e), e.at) = Others(t, e.at)
<1>1. PICK r : r = InsertAt(t, i, e)
    OBVIOUS
<1>2. /\ r \in Seq(Entry) /\ Len(r) = Len(t) + 1 /\ Len(t) \in Nat
      /\ \A j \in 1..Len(t)+1 : r[j] = IF j < i THEN t[j] ELSE IF j = i THEN e ELSE t[j-1]
    BY <1>1, Inserted, Entries, SMTT(30)
<1>3. PICK K : Keeps(K, t, e.at) /\ Others(t, e.at) = K[Len(t)]
    BY OthersKeeps
<1>4. PICK R : Keeps(R, r, e.at) /\ Others(r, e.at) = R[Len(t)+1]
    BY <1>2, OthersKeeps
<1> DEFINE S == {j \in 0..Len(t) : /\ j < i => R[j] = K[j]
                                   /\ j >= i - 1 => R[j+1] = K[j]}
<1>5. R[i] = R[i-1]
  <2>1. i \in 1..Len(r) /\ r[i] = e
    BY <1>2
  <2> QED
    BY <1>4, <2>1 DEF Keeps
<1>6. 0 \in S
    BY <1>2, <1>3, <1>4, <1>5 DEF Keeps
<1>7. ASSUME NEW j \in 1..Len(t), j - 1 \in S PROVE j \in S
  <2>1. K[j] = IF t[j].at # e.at THEN Append(K[j-1], t[j]) ELSE K[j-1]
    BY <1>3 DEF Keeps
  <2>2. ASSUME j < i PROVE R[j] = K[j]
    <3>1. j \in 1..Len(r) /\ r[j] = t[j] /\ R[j-1] = K[j-1]
      BY <1>2, <1>7, <2>2
    <3>2. R[j] = IF r[j].at # e.at THEN Append(R[j-1], r[j]) ELSE R[j-1]
      BY <1>4, <3>1 DEF Keeps
    <3> QED
      BY <2>1, <3>1, <3>2
  <2>3. ASSUME j >= i PROVE R[j+1] = K[j]
    <3>1. j + 1 \in 1..Len(r) /\ r[j+1] = t[j] /\ (j + 1) - 1 = j /\ (j - 1) + 1 = j
      BY <1>2, <2>3
    <3>2. R[j] = K[j-1]
      BY <1>7, <2>3, <3>1
    <3>3. R[j+1] = IF r[j+1].at # e.at THEN Append(R[(j+1)-1], r[j+1]) ELSE R[(j+1)-1]
      BY <1>4, <3>1 DEF Keeps
    <3> QED
      BY <2>1, <3>1, <3>2, <3>3
  <2>4. ASSUME j = i - 1 PROVE R[j+1] = K[j]
    BY <1>5, <2>2, <2>4
  <2> QED
    BY <2>2, <2>3, <2>4
<1> HIDE DEF S
<1>8. Len(t) \in S
  <2>1. 0..Len(t) \subseteq S
    BY <1>2, <1>6, <1>7, Upwards
  <2> QED
    BY <1>2, <2>1
<1>9. R[Len(t)+1] = K[Len(t)]
    BY <1>2, <1>8 DEF S
<1> QED
    BY <1>1, <1>3, <1>4, <1>9

\* Nor does an entry that is given another value.
LEMMA OthersRevalued ==
    ASSUME NEW t \in Seq(Entry), NEW i \in 1..Len(t), NEW V \in SUBSET Value
    PROVE  Others(Revalue(t, i, V), t[i].at) = Others(t, t[i].at)
<1>1. PICK r : r = Revalue(t, i, V)
    OBVIOUS
<1>2. PICK d : d = t[i].at
    OBVIOUS
<1>3. /\ r \in Seq(Entry) /\ Len(r) = Len(t) /\ Len(t) \in Nat
      /\ \A j \in 1..Len(t) : r[j].at = t[j].at
    BY <1>1, Revalued, Entries
<1>4. ASSUME NEW j \in 1..Len(t), t[j].at # d PROVE r[j] = t[j]
    BY <1>1, <1>2, <1>4, Entries DEF Revalue
<1>5. PICK K : Keeps(K, t, d) /\ Others(t, d) = K[Len(t)]
    BY OthersKeeps
<1>6. PICK R : Keeps(R, r, d) /\ Others(r, d) = R[Len(t)]
    BY <1>3, OthersKeeps
<1> DEFINE S == {j \in 0..Len(t) : R[j] = K[j]}
<1>7. 0 \in S
    BY <1>3, <1>5, <1>6 DEF Keeps
<1>8. ASSUME NEW j \in 1..Len(t), j - 1 \in S PROVE j \in S
  <2>1. K[j] = IF t[j].at # d THEN Append(K[j-1], t[j]) ELSE K[j-1]
    BY <1>5 DEF Keeps
  <2>2. R[j] = IF r[j].at # d THEN Append(R[j-1], r[j]) ELSE R[j-1]
    BY <1>3, <1>6 DEF Keeps
  <2>3. r[j].at = t[j].at /\ R[j-1] = K[j-1] /\ j \in 0..Len(t)
    BY <1>3, <1>8
  <2> QED
    BY <1>4, <2>1, <2>2, <2>3
<1> HIDE DEF S
<1>9. Len(t) \in S
  <2>1. 0..Len(t) \subseteq S
    BY <1>3, <1>7, <1>8, Upwards
  <2> QED
    BY <1>3, <2>1
<1>10. R[Len(t)] = K[Len(t)]
    BY <1>9 DEF S
<1> QED
    BY <1>1, <1>2, <1>5, <1>6, <1>10
-----------------------------------------------------------------------------
\* What a call does to a table: one entry of its date is new or has another value.
Touches(t, d, r) ==
    \/ \E i \in 1..Len(t)+1, V \in SUBSET Value : r = InsertAt(t, i, [at |-> d, val |-> V])
    \/ \E i \in 1..Len(t), V \in SUBSET Value : t[i].at = d /\ r = Revalue(t, i, V)

LEMMA TouchKeeps ==
    ASSUME NEW t \in Seq(Entry), NEW d \in Date, NEW r, Touches(t, d, r)
    PROVE  Others(r, d) = Others(t, d)
<1>1. ASSUME NEW i \in 1..Len(t)+1, NEW V \in SUBSET Value,
             r = InsertAt(t, i, [at |-> d, val |-> V])
      PROVE  Others(r, d) = Others(t, d)
  <2>1. PICK e \in Entry : e = [at |-> d, val |-> V]
    BY DEF Entry
  <2>2. e.at = d
    BY <2>1
  <2> QED
    BY <1>1, <2>1, <2>2, OthersInserted
<1>2. ASSUME NEW i \in 1..Len(t), NEW V \in SUBSET Value,
             t[i].at = d, r = Revalue(t, i, V)
      PROVE  Others(r, d) = Others(t, d)
    BY <1>2, OthersRevalued
<1> QED
    BY <1>1, <1>2 DEF Touches

LEMMA PutTouches ==
    ASSUME IInv, NEW d \in Date, NEW v \in Value, PutInOrder(d, v)
    PROVE  Touches(table, ask'.at, table')
<1>1. ask'.at = d /\ {v} \in SUBSET Value
    BY DEF PutInOrder, Done, Setting
<1>2. PICK i \in 1..Len(table)+1 :
        /\ Place(d, i)
        /\ IF i <= Len(table) /\ table[i].at = d
           THEN table' = [table EXCEPT ![i].val = {v}]
           ELSE Insert(i, d, {v})
    BY DEF PutInOrder
<1>3. CASE i <= Len(table) /\ table[i].at = d
  <2>1. table' = Revalue(table, i, {v}) /\ i \in 1..Len(table)
    BY <1>2, <1>3, Table DEF Revalue
  <2> QED
    BY <1>1, <1>3, <2>1 DEF Touches
<1>4. CASE ~(i <= Len(table) /\ table[i].at = d)
  <2>1. table' = InsertAt(table, i, [at |-> d, val |-> {v}])
    BY <1>2, <1>4 DEF Insert
  <2> QED
    BY <1>1, <2>1 DEF Touches
<1> QED
    BY <1>3, <1>4

LEMMA PriceTouches ==
    ASSUME IInv, NEW d \in Date, NEW v \in Value, SetPrice(d, v) \/ AddToDividendYield(d, v)
    PROVE  Touches(table, ask'.at, table')
<1> DEFINE i == Min({j \in DOMAIN table : table[j].at = d})
<1>1. ask'.at = d /\ {v} \in SUBSET Value
    BY DEF SetPrice, AddToDividendYield, Done, Setting
<1>2. CASE table' = InsertAt(table, Len(table) + 1, [at |-> d, val |-> {v}])
  <2>1. Len(table) + 1 \in 1..Len(table)+1
    BY Table
  <2> QED
    BY <1>1, <1>2, <2>1 DEF Touches
<1>3. CASE table' = Revalue(table, i, {v}) /\ Exact(table, d) # {}
  <2>1. i \in 1..Len(table) /\ table[i].at = d
    BY <1>3, Table, ExactFirst
  <2> HIDE DEF i
  <2> QED
    BY <1>1, <1>3, <2>1 DEF Touches
<1>4. \/ table' = InsertAt(table, Len(table) + 1, [at |-> d, val |-> {v}])
      \/ table' = Revalue(table, i, {v}) /\ Exact(table, d) # {}
    BY DEF SetPrice, AddToDividendYield, Insert, Revalue
<1> QED
    BY <1>2, <1>3, <1>4

LEMMA VolTouches ==
    ASSUME IInv, NEW d \in Date, NEW v \in Value, AddVolAtEnd(d, v) \/ AddFirstEvent(d, v)
    PROVE  Touches(table, ask'.at, table')
<1>1. ask'.at = d /\ {v} \in SUBSET Value
    BY DEF AddVolAtEnd, AddFirstEvent, Done, Setting
<1>2. \E i \in 1..Len(table)+1 : table' = InsertAt(table, i, [at |-> d, val |-> {v}])
    BY Table DEF AddVolAtEnd, AddFirstEvent, Insert
<1> QED
    BY <1>1, <1>2 DEF Touches

LEMMA SearchTouches ==
    ASSUME IInv, Search, table' # table
    PROVE  Touches(table, ask'.at, table') /\ ask'.at \in Date
<1>1. ask' = ask /\ pc \in {"vol", "insert", "events"}
    BY DEF Search, VolHalve, VolInsert, EventHalve, EventInsert, EventNotFound
<1>2. ask.at \in Date /\ ask.val \in SUBSET Value
    BY <1>1, VolBounds, EventBounds
<1>3. CASE VolHalve
  <2>1. PICK mid : mid = lo + (hi - lo) \div 2
    OBVIOUS
  <2>2. pc = "vol"
    BY <1>3 DEF VolHalve
  <2>3. table[mid].at = ask.at /\ table' = Revalue(table, mid, ask.val)
    BY <1>3, <2>1 DEF VolHalve, Revalue
  <2>4. mid \in 1..Len(table)
    BY <2>1, <2>2, VolBounds, Table
  <2> QED
    BY <1>1, <1>2, <2>3, <2>4 DEF Touches
<1>4. CASE EventHalve
  <2>1. PICK mid : mid = (lo + hi) \div 2
    OBVIOUS
  <2>2. pc = "events" /\ hi - lo > 1
    BY <1>4 DEF EventHalve
  <2>3. table[mid].at = ask.at /\ table' = Revalue(table, mid, table[mid].val \cup ask.val)
    BY <1>4, <2>1 DEF EventHalve, Revalue
  <2>4. mid \in 1..Len(table)
    BY <2>1, <2>2, EventMiddle
  <2>5. PICK V \in SUBSET Value : V = table[mid].val \cup ask.val
    BY <1>2, <2>4, Table, Fields
  <2> QED
    BY <1>1, <1>2, <2>3, <2>4, <2>5 DEF Touches
<1>5. CASE VolInsert
  <2>1. hi \in 1..Len(table)+1
    BY <1>5, VolBounds, Table DEF VolInsert
  <2> QED
    BY <1>1, <1>2, <1>5, <2>1 DEF VolInsert, Insert, Touches
<1>6. CASE EventInsert
  <2>1. lo \in Nat /\ hi \in Nat /\ lo < hi /\ hi <= Len(table) + 1
    BY <1>6, EventBounds DEF EventInsert
  <2>2. hi \in 1..Len(table)+1 /\ (lo >= 1 => lo \in 1..Len(table)+1)
    BY <2>1, Table
  <2>3. \E i \in 1..Len(table)+1 : table' = InsertAt(table, i, [at |-> ask.at, val |-> ask.val])
    BY <1>6, <2>2 DEF EventInsert, Insert
  <2> QED
    BY <1>1, <1>2, <2>3 DEF Touches
<1>7. ~EventNotFound
    BY DEF EventNotFound
<1> QED
    BY <1>3, <1>4, <1>5, <1>6, <1>7 DEF Search

LEMMA StepKeepsOthers ==
    ASSUME IInv, [Next]_vars
    PROVE  [Others(table', ask'.at) = Others(table, ask'.at)]_table
<1> SUFFICES ASSUME table' # table
             PROVE  Others(table', ask'.at) = Others(table, ask'.at)
    OBVIOUS
<1>1. CASE Search
    BY <1>1, SearchTouches, TouchKeeps, Table
<1>2. ASSUME NEW d \in Date, NEW v \in Value,
             \/ PutInOrder(d, v) \/ SetPrice(d, v) \/ AddToDividendYield(d, v)
             \/ AddVolAtEnd(d, v) \/ AddFirstEvent(d, v)
      PROVE  Others(table', ask'.at) = Others(table, ask'.at)
  <2>1. ask'.at = d
    BY <1>2 DEF PutInOrder, SetPrice, AddToDividendYield, AddVolAtEnd, AddFirstEvent,
                Done, Setting
  <2>2. Touches(table, ask'.at, table')
    BY <1>2, PutTouches, PriceTouches, VolTouches
  <2> QED
    BY <2>1, <2>2, TouchKeeps, Table
<1>3. \A d \in Date, v \in Value : ~AddVol(d, v) /\ ~AddEvent(d, v) /\ ~GetEventMask(d)
    BY DEF AddVol, AddEvent, GetEventMask
<1>4. \A d \in Date : ~GetEventMask(d)
    BY DEF GetEventMask
<1>5. ~(FindDateBounds \/ CloneFitted \/ CloneWhole \/ CloneEquityCurve \/ UNCHANGED vars)
    BY DEF FindDateBounds, CloneFitted, CloneWhole, CloneEquityCurve, vars
<1> QED
    BY <1>1, <1>2, <1>3, <1>4, <1>5, Zenon
       DEF Next, Client, SetForwardRate, SetSpread, SetSurvivalRate

\* Through all insertions, of a step or of many, the entries of the other dates
\* stay, and in their order.
THEOREM OthersStay == Spec => NothingLost
<1>1. IInv /\ [Next]_vars => [Others(table', ask'.at) = Others(table, ask'.at)]_table
    BY StepKeepsOthers
<1> QED
    BY Invariance, <1>1, PTL DEF Spec, NothingLost
-----------------------------------------------------------------------------
\* Where an iteration of the search stands: on both sides of the date.
Halfway(t, d, b) ==
    /\ b.lo \in 1..Len(t) /\ b.hi \in 1..Len(t) /\ b.lo <= b.hi
    /\ t[b.lo].at <= d /\ d <= t[b.hi].at

\* A position of the date, or one between the earlier and the later dates.
Fits(t, d, i) ==
    /\ i \in 1..Len(t)
    /\ t[i].at # d => /\ \A j \in 1..Len(t) : j < i => t[j].at <= d
                      /\ \A j \in 1..Len(t) : j >= i => t[j].at >= d

LEMMA Middle ==
    ASSUME NEW b, b.lo \in Int, b.hi \in Int, b.lo <= b.hi,
           NEW m, m = b.lo + (b.hi - b.lo) \div 2
    PROVE  m \in Int /\ b.lo <= m /\ m <= b.hi /\ (m = b.hi => b.lo = b.hi) /\ (m = b.lo => b.hi <= b.lo + 1)
OBVIOUS

LEMMA HalfwayInts ==
    ASSUME NEW t \in Seq(Entry), NEW d, NEW b, Halfway(t, d, b)
    PROVE  b.lo \in Int /\ b.hi \in Int /\ b.lo <= b.hi /\ b.hi - b.lo \in Int
<1>1. Len(t) \in Nat
    BY Entries
<1> QED
    BY <1>1 DEF Halfway

LEMMA Shrinks ==
    ASSUME NEW a \in Int, NEW b \in Int, NEW N \in Int, NEW n \in Int,
           a < b, b <= N - 1 - (n - 1)
    PROVE  a <= N - 1 - n
OBVIOUS

\* An iteration comes to the date or to its place, or narrows the search.
LEMMA HalvingStep ==
    ASSUME NEW t \in Seq(Entry), Ordered(t, FALSE), NEW d \in Int, NEW b, Halfway(t, d, b),
           NEW r, r = Halving(t, d, b)
    PROVE  /\ r.end = 0 => Halfway(t, d, r) /\ r.hi - r.lo < b.hi - b.lo
           /\ r.end # 0 => Fits(t, d, r.end)
<1>1. Len(t) \in Nat /\ \A j \in 1..Len(t) : t[j].at \in Int
    BY Entries
<1>2. PICK ip : ip = b.lo + (b.hi - b.lo) \div 2
    OBVIOUS
<1>3. ip \in 1..Len(t) /\ b.lo <= ip /\ ip <= b.hi /\ (ip = b.hi => b.lo = b.hi) /\ (ip = b.lo => b.hi <= b.lo + 1)
  <2>1. b.lo \in Int /\ b.hi \in Int /\ b.lo <= b.hi
    BY HalfwayInts
  <2>2. ip \in Int /\ b.lo <= ip /\ ip <= b.hi /\ (ip = b.hi => b.lo = b.hi) /\ (ip = b.lo => b.hi <= b.lo + 1)
    BY <1>2, <2>1, Middle
  <2> QED
    BY <1>1, <2>2 DEF Halfway
<1>4. PICK lo1, hi1 : /\ lo1 = IF t[ip].at < d THEN ip ELSE b.lo
                      /\ hi1 = IF t[ip].at > d THEN ip ELSE b.hi
    OBVIOUS
<1>5. r = [lo |-> lo1, hi |-> hi1,
           end |-> IF t[ip].at = d THEN ip ELSE IF hi1 - lo1 > 1 THEN 0 ELSE hi1]
    BY <1>2, <1>4 DEF Halving
<1>6. CASE t[ip].at = d
    BY <1>3, <1>5, <1>6 DEF Fits
<1>7. CASE t[ip].at # d
  <2>1. lo1 \in 1..Len(t) /\ hi1 \in 1..Len(t) /\ lo1 < hi1
        /\ t[lo1].at <= d /\ d <= t[hi1].at
    <3>1. t[ip].at \in Int
      BY <1>1, <1>3
    <3>2. CASE t[ip].at < d
      <4>1. lo1 = ip /\ hi1 = b.hi
        BY <1>4, <3>1, <3>2
      <4>2. ip # b.hi
        BY <3>1, <3>2 DEF Halfway
      <4> QED
        BY <1>3, <3>1, <3>2, <4>1, <4>2 DEF Halfway
    <3>3. CASE t[ip].at > d
      <4>1. lo1 = b.lo /\ hi1 = ip
        BY <1>4, <3>1, <3>3
      <4>2. ip # b.lo
        BY <3>1, <3>3 DEF Halfway
      <4> QED
        BY <1>3, <3>1, <3>3, <4>1, <4>2 DEF Halfway
    <3> QED
      BY <1>7, <3>1, <3>2, <3>3
  <2>2. CASE hi1 - lo1 > 1
    <3>1. r.end = 0 /\ r.lo = lo1 /\ r.hi = hi1
      BY <1>5, <1>7, <2>2
    <3>2. hi1 - lo1 < b.hi - b.lo
      BY <1>1, <1>3, <1>4, <1>7, <2>2 DEF Halfway
    <3> QED
      BY <2>1, <3>1, <3>2 DEF Halfway
  <2>3. CASE ~(hi1 - lo1 > 1)
    <3>1. r.end = hi1 /\ hi1 = lo1 + 1
      <4>1. r.end = hi1
        BY ONLY <1>5, <1>7, <2>3
      <4>2. lo1 \in Int /\ hi1 \in Int
        BY ONLY <1>1, <2>1
      <4>3. hi1 = lo1 + 1
        BY ONLY <4>2, <2>1, <2>3
      <4> QED
        BY ONLY <4>1, <4>3
    <3>2. ASSUME NEW j \in 1..Len(t), j < hi1 PROVE t[j].at <= d
      <4>1. j = lo1 \/ j < lo1
        BY <2>1, <3>1, <3>2
      <4>2. t[j].at <= t[lo1].at
        BY <1>1, <2>1, <4>1 DEF Ordered, Before
      <4> QED
        BY <1>1, <2>1, <4>2
    <3>3. ASSUME NEW j \in 1..Len(t), j >= hi1 PROVE t[j].at >= d
      <4>1. j = hi1 \/ hi1 < j
        BY <2>1, <3>3
      <4>2. t[hi1].at <= t[j].at
        BY <1>1, <2>1, <4>1, SMTT(30) DEF Ordered, Before
      <4> QED
        BY <1>1, <2>1, <4>2
    <3> QED
      BY <2>1, <3>1, <3>2, <3>3 DEF Fits
  <2> QED
    BY <2>2, <2>3
<1> QED
    BY <1>6, <1>7

\* rq_vol_curve_add's loop comes to the date, or to its place.
LEMMA HalvedFits ==
    ASSUME NEW t \in Seq(Entry), Ordered(t, FALSE), t # <<>>, NEW d \in Int,
           t[1].at <= d, d <= t[Len(t)].at
    PROVE  Fits(t, d, Halved(t, d))
<1>1. Len(t) \in Nat /\ Len(t) >= 1
    BY Entries
<1> DEFINE N == Len(t)
           V == [lo : Int, hi : Int, end : Int]
           a == [lo |-> 1, hi |-> N, end |-> 0]
           go == [b \in V |-> IF b.end = 0 THEN Halving(t, d, b) ELSE b]
           c == CHOOSE f : f = [n \in 0..N |->
                    IF n = 0 THEN a ELSE IF f[n-1].end = 0 THEN Halving(t, d, f[n-1]) ELSE f[n-1]]
<1>2. a \in V
    BY <1>1
<1>3. go \in [V -> V]
  <2>1. ASSUME NEW b \in V PROVE Halving(t, d, b) \in V
    <3>1. PICK ip \in Int : ip = b.lo + (b.hi - b.lo) \div 2
      OBVIOUS
    <3> QED
      BY <3>1 DEF Halving
  <2> QED
    BY <2>1
<1>4. PICK f : Iteration(f, V, a, go, N)
    BY <1>1, <1>2, <1>3, Iterates
<1>5. f = [n \in 0..N |->
                IF n = 0 THEN a ELSE IF f[n-1].end = 0 THEN Halving(t, d, f[n-1]) ELSE f[n-1]]
  <2>1. f \in [0..N -> V] /\ f[0] = a
    BY <1>4 DEF Iteration
  <2>2. ASSUME NEW n \in 0..N
        PROVE  f[n] = IF n = 0 THEN a ELSE IF f[n-1].end = 0 THEN Halving(t, d, f[n-1]) ELSE f[n-1]
    <3>1. CASE n = 0
      BY <2>1, <3>1
    <3>2. CASE n # 0
      <4>1. n \in 1..N /\ n - 1 \in 0..N
        BY <1>1, <3>2
      <4>2. f[n] = go[f[n-1]] /\ f[n-1] \in V
        BY <1>4, <2>1, <4>1 DEF Iteration
      <4> QED
        BY <3>2, <4>2
    <3> QED
      BY <3>1, <3>2
  <2> HIDE DEF a
  <2> QED
    BY <2>1, <2>2
<1>6. c = [n \in 0..N |->
                IF n = 0 THEN a ELSE IF c[n-1].end = 0 THEN Halving(t, d, c[n-1]) ELSE c[n-1]]
    BY <1>5
<1>7. Halved(t, d) = c[N].end
    BY DEF Halved
<1> HIDE DEF c, go, V
<1>8. c[0] = a
  <2>1. 0 \in 0..N
    BY <1>1
  <2> QED
    BY <1>6, <2>1
<1>9. ASSUME NEW n \in 1..N
      PROVE  c[n] = IF c[n-1].end = 0 THEN Halving(t, d, c[n-1]) ELSE c[n-1]
  <2>1. n \in 0..N /\ n # 0
    BY <1>1
  <2> QED
    BY <1>6, <2>1
<1> DEFINE S == {n \in 0..N :
                    /\ c[n].end = 0 => Halfway(t, d, c[n]) /\ c[n].hi - c[n].lo <= N - 1 - n
                    /\ c[n].end # 0 => Fits(t, d, c[n].end)}
<1>10. 0 \in S
  <2>1. Halfway(t, d, a)
    BY <1>1 DEF Halfway
  <2>2. a.end = 0 /\ a.hi - a.lo <= N - 1 - 0
    BY <1>1
  <2> QED
    BY <1>1, <1>8, <2>1, <2>2
<1>11. ASSUME NEW n \in 1..N, n - 1 \in S PROVE n \in S
  <2>1. CASE c[n-1].end = 0
    <3>1. c[n] = Halving(t, d, c[n-1]) /\ Halfway(t, d, c[n-1])
      BY <1>9, <1>11, <2>1
    <3>2. /\ c[n].end = 0 => Halfway(t, d, c[n]) /\ c[n].hi - c[n].lo < c[n-1].hi - c[n-1].lo
          /\ c[n].end # 0 => Fits(t, d, c[n].end)
      BY <3>1, HalvingStep
    <3>3. c[n].end = 0 => c[n].hi - c[n].lo <= N - 1 - n
      <4> SUFFICES ASSUME c[n].end = 0 PROVE c[n].hi - c[n].lo <= N - 1 - n
        OBVIOUS
      <4>1. c[n].hi - c[n].lo \in Int /\ c[n-1].hi - c[n-1].lo \in Int
        BY <3>1, <3>2, HalfwayInts
      <4>2. c[n].hi - c[n].lo < c[n-1].hi - c[n-1].lo
        BY <3>2
      <4>3. c[n-1].hi - c[n-1].lo <= N - 1 - (n - 1)
        BY <1>11, <2>1
      <4>4. N \in Int /\ n \in Int
        BY <1>1
      <4> HIDE DEF N
      <4> QED
        BY <4>1, <4>2, <4>3, <4>4, Shrinks
    <3> QED
      BY <1>1, <3>2, <3>3
  <2>2. CASE c[n-1].end # 0
    BY <1>1, <1>9, <1>11, <2>2
  <2> QED
    BY <2>1, <2>2
<1> HIDE DEF S
<1>12. N \in S
  <2>1. 0..N \subseteq S
    BY <1>1, <1>10, <1>11, Upwards
  <2> QED
    BY <1>1, <2>1
<1>13. c[N].end # 0
  <2>1. ASSUME c[N].end = 0 PROVE FALSE
    <3>1. Halfway(t, d, c[N]) /\ c[N].hi - c[N].lo <= N - 1 - N
      BY <1>12, <2>1 DEF S
    <3> QED
      BY <1>1, <3>1 DEF Halfway
  <2> QED
    BY <2>1
<1> QED
    BY <1>7, <1>12, <1>13 DEF S
-----------------------------------------------------------------------------
\* What an insertion does to a sequence.
LEMMA InsertedIn ==
    ASSUME NEW X, NEW t \in Seq(X), NEW i \in 1..Len(t)+1, NEW e \in X,
           NEW r, r = InsertAt(t, i, e)
    PROVE  /\ r \in Seq(X) /\ Len(r) = Len(t) + 1
           /\ \A j \in 1..Len(t)+1 :
                r[j] = IF j < i THEN t[j] ELSE IF j = i THEN e ELSE t[j-1]
<1> DEFINE a == SubSeq(t, 1, i-1)
           b == SubSeq(t, i, Len(t))
<1>1. a \in Seq(X) /\ Len(a) = i - 1 /\ \A j \in 1..i-1 : a[j] = t[j]
    BY SMT
<1>2. b \in Seq(X) /\ Len(b) = Len(t) - i + 1 /\ \A j \in 1..Len(b) : b[j] = t[i + j - 1]
    BY SMT
<1>3. <<e>> \in Seq(X) /\ Len(<<e>>) = 1 /\ <<e>>[1] = e
    OBVIOUS
<1> DEFINE c == a \o <<e>>
<1>4. c \in Seq(X) /\ Len(c) = i /\ (\A j \in 1..i-1 : c[j] = t[j]) /\ c[i] = e
  <2> HIDE DEF a
  <2> QED
    BY <1>1, <1>3
<1>5. r = c \o b
    BY DEF InsertAt
<1> HIDE DEF a, b, c
<1>6. r \in Seq(X) /\ Len(r) = Len(t) + 1
    BY <1>2, <1>4, <1>5
<1>7. \A j \in 1..Len(t)+1 : r[j] = IF j <= i THEN c[j] ELSE b[j - i]
    BY <1>2, <1>4, <1>5
<1>8. ASSUME NEW j \in 1..Len(t)+1
      PROVE  r[j] = IF j < i THEN t[j] ELSE IF j = i THEN e ELSE t[j-1]
  <2>1. CASE j < i
    BY <2>1, <1>4, <1>7
  <2>2. CASE j = i
    BY <2>2, <1>4, <1>7
  <2>3. CASE j > i
    <3>1. j - i \in 1..Len(b) /\ i + (j - i) - 1 = j - 1
      BY <2>3, <1>2
    <3> QED
      BY <2>3, <3>1, <1>2, <1>7
  <2> QED
    BY <2>1, <2>2, <2>3
<1> QED
    BY <1>6, <1>8

\* At the end and at the beginning.
LEMMA InsertedEnds ==
    ASSUME NEW X, NEW t \in Seq(X), NEW e \in X
    PROVE  /\ Append(t, e) = InsertAt(t, Len(t) + 1, e)
           /\ <<e>> \o t = InsertAt(t, 1, e)
<1>0. Len(t) \in Nat
    OBVIOUS
<1>1. ASSUME NEW r \in Seq(X), NEW q \in Seq(X), Len(r) = Len(q),
             \A j \in 1..Len(q) : r[j] = q[j]
      PROVE  r = q
    BY <1>1
<1>2. Append(t, e) = InsertAt(t, Len(t) + 1, e)
  <2>1. PICK n : n = Len(t) + 1
    OBVIOUS
  <2>2. PICK q : q = InsertAt(t, n, e)
    OBVIOUS
  <2>3. n \in 1..Len(t)+1
    BY <1>0, <2>1
  <2>4. q \in Seq(X) /\ Len(q) = Len(t) + 1
        /\ \A j \in 1..Len(t)+1 : q[j] = IF j < n THEN t[j] ELSE IF j = n THEN e ELSE t[j-1]
    BY <2>2, <2>3, InsertedIn, SMTT(30)
  <2>5. Append(t, e) \in Seq(X) /\ Len(Append(t, e)) = Len(t) + 1
        /\ \A j \in 1..Len(t)+1 : Append(t, e)[j] = IF j < n THEN t[j] ELSE e
    BY <1>0, <2>1
  <2>6. \A j \in 1..Len(q) : Append(t, e)[j] = q[j]
    BY <1>0, <2>1, <2>4, <2>5
  <2>7. Append(t, e) = q
    BY <1>1, <2>4, <2>5, <2>6
  <2> QED
    BY <2>1, <2>2, <2>7
<1>3. <<e>> \o t = InsertAt(t, 1, e)
  <2>2. PICK q : q = InsertAt(t, 1, e)
    OBVIOUS
  <2>3. 1 \in 1..Len(t)+1
    BY <1>0
  <2>4. q \in Seq(X) /\ Len(q) = Len(t) + 1
        /\ \A j \in 1..Len(t)+1 : q[j] = IF j < 1 THEN t[j] ELSE IF j = 1 THEN e ELSE t[j-1]
    BY <2>2, <2>3, InsertedIn
  <2>5. <<e>> \in Seq(X) /\ Len(<<e>>) = 1 /\ <<e>>[1] = e
    OBVIOUS
  <2>6. <<e>> \o t \in Seq(X) /\ Len(<<e>> \o t) = Len(t) + 1
        /\ \A j \in 1..Len(t)+1 : (<<e>> \o t)[j] = IF j = 1 THEN e ELSE t[j-1]
    BY <1>0, <2>5
  <2>7. \A j \in 1..Len(q) : (<<e>> \o t)[j] = q[j]
    BY <1>0, <2>4, <2>6
  <2>8. <<e>> \o t = q
    BY <1>1, <2>4, <2>6, <2>7
  <2> QED
    BY <2>2, <2>8
<1> QED
    BY <1>2, <1>3

\* A curve that has a volatility for a date, maybe beside others.
Shows(t, d, V) == \E j \in 1..Len(t) : t[j].at = d /\ t[j].val = V

\* After rq_vol_curve_add a curve is in order, has the volatility, and has what it
\* had for the other dates.
Added(t, d, V, r) ==
    /\ r \in Seq(Entry) /\ Ordered(r, FALSE) /\ Shows(r, d, V)
    /\ \A c \in Date : c # d => \A W : Shows(t, c, W) => Shows(r, c, W)

LEMMA InsertedAdds ==
    ASSUME NEW t \in Seq(Entry), Ordered(t, FALSE), NEW e \in Entry,
           NEW i \in 1..Len(t)+1,
           \A j \in 1..Len(t) : j < i => t[j].at <= e.at,
           \A j \in 1..Len(t) : j >= i => t[j].at >= e.at,
           NEW r, r = InsertAt(t, i, e)
    PROVE  Added(t, e.at, e.val, r)
<1>2. Len(t) \in Nat /\ e.at \in Int /\ \A j \in 1..Len(t) : t[j].at \in Int
    BY Entries, Fields
<1>3. /\ r \in Seq(Entry) /\ Len(r) = Len(t) + 1
      /\ \A j \in 1..Len(t)+1 : r[j] = IF j < i THEN t[j] ELSE IF j = i THEN e ELSE t[j-1]
    BY Inserted, SMTT(30)
<1>4. Ordered(r, FALSE)
  <2>2. \A j \in 1..Len(t) : j < i => Before(t[j].at, e.at, FALSE)
    BY DEF Before
  <2>3. \A j \in 1..Len(t) : j >= i => Before(e.at, t[j].at, FALSE)
    BY <1>2 DEF Before
  <2>4. FALSE \in BOOLEAN
    OBVIOUS
  <2> QED
    BY <2>2, <2>3, <2>4, InsertedOrder
<1>5. Shows(r, e.at, e.val)
  <2>1. i \in 1..Len(r) /\ r[i] = e
    BY <1>2, <1>3
  <2> QED
    BY <2>1 DEF Shows
<1>6. ASSUME NEW c \in Date, c # e.at, NEW W, Shows(t, c, W) PROVE Shows(r, c, W)
  <2>1. PICK j \in 1..Len(t) : t[j].at = c /\ t[j].val = W
    BY <1>6 DEF Shows
  <2>2. CASE j < i
    <3>1. j \in 1..Len(r) /\ r[j] = t[j]
      BY <1>2, <1>3, <2>2
    <3> QED
      BY <2>1, <3>1 DEF Shows
  <2>3. CASE ~(j < i)
    <3>1. j + 1 \in 1..Len(r) /\ r[j+1] = t[j]
      BY <1>2, <1>3, <2>3
    <3> QED
      BY <2>1, <3>1 DEF Shows
  <2> QED
    BY <2>2, <2>3
<1> QED
    BY <1>3, <1>4, <1>5, <1>6 DEF Added

LEMMA ReplacedAdds ==
    ASSUME NEW t \in Seq(Entry), Ordered(t, FALSE), NEW e \in Entry,
           NEW i \in 1..Len(t), t[i].at = e.at,
           NEW r, r = [t EXCEPT ![i] = e]
    PROVE  Added(t, e.at, e.val, r)
<1>2. Len(t) \in Nat /\ DOMAIN t = 1..Len(t) /\ \A j \in 1..Len(t) : t[j] \in Entry
    BY Entries
<1>3. /\ r \in Seq(Entry) /\ Len(r) = Len(t)
      /\ \A j \in 1..Len(t) : r[j] = IF j = i THEN e ELSE t[j]
    BY <1>2
<1>4. \A j \in 1..Len(t) : r[j].at = t[j].at
    BY <1>3
<1>5. Ordered(r, FALSE)
    BY <1>3, <1>4 DEF Ordered
<1>6. Shows(r, e.at, e.val)
    BY <1>3 DEF Shows
<1>7. ASSUME NEW c \in Date, c # e.at, NEW W, Shows(t, c, W) PROVE Shows(r, c, W)
  <2>1. PICK j \in 1..Len(t) : t[j].at = c /\ t[j].val = W
    BY <1>7 DEF Shows
  <2>2. j # i
    BY <1>7, <2>1
  <2> QED
    BY <1>3, <2>1, <2>2 DEF Shows
<1> QED
    BY <1>3, <1>5, <1>6, <1>7 DEF Added

\* rq_vol_curve_add on a curve that is in order.
LEMMA CurveAddAdds ==
    ASSUME NEW t \in Seq(Entry), Ordered(t, FALSE), NEW d \in Date, NEW v \in Value,
           NEW r, r = CurveAdd(t, d, v)
    PROVE  Added(t, d, {v}, r)
<1>1. PICK e \in Entry : e = [at |-> d, val |-> {v}]
    BY Entered
<1>8. e.at = d /\ e.val = {v}
    BY <1>1
<1>9. r = CASE t = <<>> -> <<e>>
            [] t # <<>> /\ e.at > t[Len(t)].at -> Append(t, e)
            [] t # <<>> /\ e.at < t[1].at -> <<e>> \o t
            [] OTHER -> IF t[Halved(t, d)].at = e.at THEN [t EXCEPT ![Halved(t, d)] = e]
                        ELSE InsertAt(t, Halved(t, d), e)
    BY <1>1, <1>8 DEF CurveAdd
<1>2. Len(t) \in Nat /\ e.at \in Int /\ \A j \in 1..Len(t) : t[j].at \in Int
    BY Entries, Fields
<1>4. CASE t = <<>>
  <2>1. r = <<e>> /\ <<e>> = Append(t, e)
    BY <1>4, <1>9
  <2>2. PICK n \in 1..Len(t)+1 : n = Len(t) + 1
    BY <1>2
  <2>3. r = InsertAt(t, n, e)
    BY <2>1, <2>2, InsertedEnds
  <2>4. \A j \in 1..Len(t) : FALSE
    BY <1>4
  <2>5. Added(t, e.at, e.val, r)
    BY <2>3, <2>4, InsertedAdds
  <2> QED
    BY <1>8, <2>5
<1>5. CASE t # <<>> /\ e.at > t[Len(t)].at
  <2>7. 1 \in 1..Len(t) /\ Len(t) \in 1..Len(t)
    BY <1>2, <1>5
  <2>8. ASSUME 1 < Len(t) PROVE t[1].at <= t[Len(t)].at
    BY <1>2, <2>7, <2>8 DEF Ordered, Before
  <2>10. ~(1 < Len(t)) => 1 = Len(t)
    BY <1>2, <2>7
  <2>9. ~(e.at < t[1].at)
    <3>1. CASE 1 < Len(t)
      BY <1>2, <1>5, <2>7, <2>8, <3>1
    <3>2. CASE 1 = Len(t)
      <4>1. e.at > t[1].at
        BY <1>5, <3>2
      <4> QED
        BY <1>2, <2>7, <4>1
    <3> QED
      BY <2>10, <3>1, <3>2
  <2>1. r = Append(t, e)
    BY <1>5, <1>9, <2>9
  <2>2. PICK n \in 1..Len(t)+1 : n = Len(t) + 1
    BY <1>2
  <2>3. r = InsertAt(t, n, e)
    BY <2>1, <2>2, InsertedEnds
  <2>4. \A j \in 1..Len(t) : j < n => t[j].at <= e.at
    <3>1. Len(t) \in 1..Len(t)
      BY <1>2, <1>5
    <3>2. ASSUME NEW j \in 1..Len(t) PROVE t[j].at <= t[Len(t)].at
      <4>1. j = Len(t) \/ j < Len(t)
        BY <1>2
      <4> QED
        BY <1>2, <3>1, <4>1 DEF Ordered, Before
    <3> QED
      BY <1>2, <1>5, <3>1, <3>2
  <2>5. \A j \in 1..Len(t) : j >= n => t[j].at >= e.at
    BY <1>2, <2>2
  <2>6. Added(t, e.at, e.val, r)
    BY <2>3, <2>4, <2>5, InsertedAdds
  <2> QED
    BY <1>8, <2>6
<1>6. CASE t # <<>> /\ ~(e.at > t[Len(t)].at) /\ e.at < t[1].at
  <2>1. r = <<e>> \o t
    BY <1>6, <1>9
  <2>2. PICK n \in 1..Len(t)+1 : n = 1
    BY <1>2
  <2>3. r = InsertAt(t, n, e)
    BY <2>1, <2>2, InsertedEnds
  <2>4. \A j \in 1..Len(t) : j < n => t[j].at <= e.at
    BY <1>2, <2>2
  <2>5. \A j \in 1..Len(t) : j >= n => t[j].at >= e.at
    <3>1. 1 \in 1..Len(t)
      BY <1>2, <1>6
    <3>2. ASSUME NEW j \in 1..Len(t) PROVE t[1].at <= t[j].at
      <4>1. j = 1 \/ 1 < j
        BY <1>2
      <4> QED
        BY <1>2, <3>1, <4>1 DEF Ordered, Before
    <3> QED
      BY <1>2, <1>6, <3>1, <3>2
  <2>6. Added(t, e.at, e.val, r)
    BY <2>3, <2>4, <2>5, InsertedAdds
  <2> QED
    BY <1>8, <2>6
<1>7. CASE t # <<>> /\ ~(e.at > t[Len(t)].at) /\ ~(e.at < t[1].at)
  <2>1. PICK i : i = Halved(t, d)
    OBVIOUS
  <2>2. r = IF t[i].at = e.at THEN [t EXCEPT ![i] = e] ELSE InsertAt(t, i, e)
    BY <1>7, <1>9, <2>1
  <2>3. Fits(t, e.at, i)
    <3>1. 1 \in 1..Len(t) /\ Len(t) \in 1..Len(t)
      BY <1>2, <1>7
    <3>2. t[1].at <= e.at /\ e.at <= t[Len(t)].at
      BY <1>2, <1>7, <3>1
    <3>3. Fits(t, e.at, Halved(t, e.at))
      BY <1>2, <1>7, <3>2, HalvedFits
    <3> QED
      BY <1>8, <2>1, <3>3
  <2>4. CASE t[i].at = e.at
    <3>1. i \in 1..Len(t) /\ r = [t EXCEPT ![i] = e]
      BY <2>2, <2>3, <2>4 DEF Fits
    <3>2. Added(t, e.at, e.val, r)
      BY <2>4, <3>1, ReplacedAdds
    <3> QED
      BY <1>8, <3>2
  <2>5. CASE t[i].at # e.at
    <3>1. i \in 1..Len(t)+1 /\ r = InsertAt(t, i, e)
      BY <1>2, <2>2, <2>3, <2>5 DEF Fits
    <3>2. Added(t, e.at, e.val, r)
      BY <2>3, <2>5, <3>1, InsertedAdds DEF Fits
    <3> QED
      BY <1>8, <3>2
  <2> QED
    BY <2>4, <2>5
<1> QED
    BY <1>4, <1>5, <1>6, <1>7
-----------------------------------------------------------------------------
LEMMA GreatestExists ==
    ASSUME NEW N \in Nat, NEW S \in SUBSET (1..N), S # {}
    PROVE  \E m \in S : \A k \in S : m >= k
<1> DEFINE T == {N - k : k \in S}
<1>5. \A k \in S : k \in Int /\ N - k \in Nat
    OBVIOUS
<1>1. T \in SUBSET Nat /\ T # {}
    BY <1>5
<1>2. PICK b \in T : \A c \in T : b <= c
    BY <1>1, LeastExists
<1>3. PICK m \in S : b = N - m
    BY <1>2
<1>4. \A k \in S : N - m <= N - k
    BY <1>2, <1>3
<1> QED
    BY <1>4

LEMMA MaxIs ==
    ASSUME NEW S, NEW m \in S, S \subseteq Int, \A k \in S : m >= k
    PROVE  Max(S) = m
<1>1. \A x \in S : (\A k \in S : x >= k) => x = m
    OBVIOUS
<1> QED
    BY <1>1 DEF Max

\* A change of a surface, and the last one of some changes that matters to a date.
Change == [key : Key \cup {None}, at : Date \cup {None}, val : Value \cup {None}]

Matters(c, k, d) == c.key = k /\ c.at \in {d, None}

LastOf(ch, k, d) ==
    LET i == SelectLastInSeq(ch, LAMBDA c : c.key = k /\ c.at \in {d, None})
    IN IF i = 0 \/ ch[i].at = None THEN {} ELSE {ch[i].val}

LEMMA LastIs ==
    ASSUME NEW ch \in Seq(Change), NEW k, NEW d, NEW n \in 0..Len(ch),
           n # 0 => Matters(ch[n], k, d),
           \A j \in 1..Len(ch) : j > n => ~Matters(ch[j], k, d)
    PROVE  LastOf(ch, k, d) = IF n = 0 \/ ch[n].at = None THEN {} ELSE {ch[n].val}
<1> DEFINE I == {j \in 1..Len(ch) : ch[j].key = k /\ ch[j].at \in {d, None}}
<1>1. PICK i : i = SelectLastInSeq(ch, LAMBDA c : c.key = k /\ c.at \in {d, None})
    OBVIOUS
<1>2. i = IF I # {} THEN Max(I) ELSE 0
    BY <1>1 DEF SelectLastInSeq
<1>3. i = n
  <2>1. CASE n = 0
    <3>1. I = {}
      BY <2>1 DEF Matters
    <3> QED
      BY <1>2, <2>1, <3>1
  <2>2. CASE n # 0
    <3>1. n \in I /\ I \subseteq Int
      BY <2>2 DEF Matters
    <3>2. \A j \in I : n >= j
      BY <2>2 DEF Matters
    <3>3. Max(I) = n
      BY <3>1, <3>2, MaxIs
    <3> QED
      BY <1>2, <3>1, <3>3
  <2> QED
    BY <2>1, <2>2
<1>4. LastOf(ch, k, d) = IF i = 0 \/ ch[i].at = None THEN {} ELSE {ch[i].val}
    BY <1>1 DEF LastOf
<1> QED
    BY <1>3, <1>4

\* There is a last change that matters, or none.
LEMMA LastExists ==
    ASSUME NEW ch \in Seq(Change), NEW k, NEW d
    PROVE  \E n \in 0..Len(ch) :
                /\ n # 0 => Matters(ch[n], k, d)
                /\ \A j \in 1..Len(ch) : j > n => ~Matters(ch[j], k, d)
<1> DEFINE I == {j \in 1..Len(ch) : Matters(ch[j], k, d)}
<1>1. Len(ch) \in Nat
    OBVIOUS
<1>2. CASE I = {}
    BY <1>1, <1>2
<1>3. CASE I # {}
  <2>1. PICK m \in I : \A j \in I : m >= j
    BY <1>1, <1>3, GreatestExists
  <2>2. m \in 0..Len(ch) /\ Matters(ch[m], k, d)
    BY <1>1
  <2>3. \A j \in 1..Len(ch) : j > m => ~Matters(ch[j], k, d)
    BY <1>1, <2>1, <2>2
  <2> QED
    BY <2>2, <2>3
<1> QED
    BY <1>2, <1>3

\* One more change is the last one for its key and date; one that adds a row, for
\* all dates.
LEMMA LastAppended ==
    ASSUME NEW ch \in Seq(Change), NEW c \in Change, NEW k, NEW d
    PROVE  LastOf(Append(ch, c), k, d) =
                IF ~Matters(c, k, d) THEN LastOf(ch, k, d)
                ELSE IF c.at = None THEN {} ELSE {c.val}
<1>1. PICK h : h = Append(ch, c)
    OBVIOUS
<1>2. /\ Len(ch) \in Nat /\ h \in Seq(Change) /\ Len(h) = Len(ch) + 1
      /\ h[Len(ch) + 1] = c /\ \A j \in 1..Len(ch) : h[j] = ch[j]
    BY <1>1
<1>3. CASE Matters(c, k, d)
  <2>1. PICK n : n = Len(ch) + 1 /\ n \in 0..Len(h) /\ n # 0 /\ h[n] = c
    BY <1>2
  <2>2. \A j \in 1..Len(h) : j > n => ~Matters(h[j], k, d)
    BY <1>2, <2>1
  <2>3. LastOf(h, k, d) = IF n = 0 \/ h[n].at = None THEN {} ELSE {h[n].val}
    BY <1>2, <1>3, <2>1, <2>2, LastIs
  <2> QED
    BY <1>1, <1>3, <2>1, <2>3
<1>4. CASE ~Matters(c, k, d)
  <2>1. PICK n \in 0..Len(ch) :
            /\ n # 0 => Matters(ch[n], k, d)
            /\ \A j \in 1..Len(ch) : j > n => ~Matters(ch[j], k, d)
    BY LastExists
  <2>2. LastOf(ch, k, d) = IF n = 0 \/ ch[n].at = None THEN {} ELSE {ch[n].val}
    BY <2>1, LastIs
  <2>3. n \in 0..Len(h) /\ (n # 0 => h[n] = ch[n])
    BY <1>2
  <2>4. n # 0 => Matters(h[n], k, d)
    BY <2>1, <2>3
  <2>5. ASSUME NEW j \in 1..Len(h), j > n PROVE ~Matters(h[j], k, d)
    <3>1. CASE j = Len(ch) + 1
      BY <1>2, <1>4, <3>1
    <3>2. CASE j # Len(ch) + 1
      <4>1. j \in 1..Len(ch)
        BY <1>2, <3>2
      <4> QED
        BY <1>2, <2>1, <2>5, <4>1
    <3> QED
      BY <3>1, <3>2
  <2>6. LastOf(h, k, d) = IF n = 0 \/ h[n].at = None THEN {} ELSE {h[n].val}
    BY <1>2, <2>3, <2>4, <2>5, LastIs
  <2> QED
    BY <1>1, <1>4, <2>2, <2>3, <2>6
<1> QED
    BY <1>3, <1>4
-----------------------------------------------------------------------------
\* Rows in the order of their keys, each with a curve of its own that is in order.
Rows == Seq([key : Key, curve : Nat])

Whole(rws, cvs) ==
    /\ rws \in Rows /\ cvs \in Seq(Seq(Entry))
    /\ \A i, j \in 1..Len(rws) : i < j => rws[i].key < rws[j].key
    /\ \A i \in 1..Len(rws) : rws[i].curve \in 1..Len(cvs)
    /\ \A i, j \in 1..Len(rws) : rws[i].curve = rws[j].curve => i = j
    /\ \A c \in 1..Len(cvs) : Ordered(cvs[c], FALSE)

\* What the last change made of a key and a date is in the curve.
Recalls(rws, cvs, ch) ==
    \A k \in Key, d \in Date : \A v : LastOf(ch, k, d) = {v} =>
        \E i \in 1..Len(rws) : rws[i].key = k /\ Shows(cvs[rws[i].curve], d, {v})

LEMMA RowFields ==
    ASSUME NEW rws \in Rows
    PROVE  /\ Len(rws) \in Nat /\ DOMAIN rws = 1..Len(rws)
           /\ \A i \in 1..Len(rws) : /\ rws[i].key \in Key /\ rws[i].key \in Int
                                     /\ rws[i].curve \in Nat
                                     /\ rws[i] = Row(rws[i].key, rws[i].curve)
<1>1. Len(rws) \in Nat /\ DOMAIN rws = 1..Len(rws)
    BY DEF Rows
<1>2. \A i \in 1..Len(rws) : rws[i] \in [key : Key, curve : Nat]
    BY ElementOfSeq DEF Rows
<1>3. \A e \in [key : Key, curve : Nat] : e.key \in Key /\ e.curve \in Nat /\ e = Row(e.key, e.curve)
    BY DEF Row
<1> QED
    BY <1>1, <1>2, <1>3, SurfaceAssumption

\* The first row that is not below the key.
FirstFrom(rws, k) == Min({j \in DOMAIN rws : rws[j].key >= k} \cup {Len(rws) + 1})

Divides(rws, k, n) ==
    /\ n \in 1..Len(rws)+1
    /\ \A j \in 1..Len(rws) : j < n => rws[j].key < k
    /\ \A j \in 1..Len(rws) : j >= n => rws[j].key >= k

Rising(rws) == \A i, j \in 1..Len(rws) : i < j => rws[i].key < rws[j].key

LEMMA FirstFromIs ==
    ASSUME NEW rws \in Rows, Rising(rws), NEW k \in Int
    PROVE  Divides(rws, k, FirstFrom(rws, k))
<1>1. Len(rws) \in Nat /\ DOMAIN rws = 1..Len(rws) /\ \A i \in 1..Len(rws) : rws[i].key \in Int
    BY RowFields
<1> DEFINE S == {j \in DOMAIN rws : rws[j].key >= k} \cup {Len(rws) + 1}
<1>2. S \in SUBSET Nat /\ S # {}
    BY <1>1
<1>3. PICK n : n = FirstFrom(rws, k)
    OBVIOUS
<1>4. n \in S /\ \A y \in S : n <= y
    BY <1>2, <1>3, MinIs DEF FirstFrom
<1>5. n \in 1..Len(rws)+1
    BY <1>1, <1>4
<1>6. ASSUME NEW j \in 1..Len(rws), j < n PROVE rws[j].key < k
    BY <1>1, <1>4, <1>5, <1>6
<1>7. ASSUME NEW j \in 1..Len(rws), j >= n PROVE rws[j].key >= k
  <2>1. n \in 1..Len(rws)
    BY <1>1, <1>5, <1>7
  <2>2. rws[n].key >= k
    BY <1>1, <1>4, <2>1
  <2>3. CASE n = j
    BY <2>2, <2>3
  <2>4. CASE n < j
    <3>1. rws[n].key < rws[j].key
      BY <2>1, <2>4 DEF Rising
    <3> QED
      BY <1>1, <2>1, <2>2, <3>1
  <2>5. n = j \/ n < j
    BY <1>7, <2>1
  <2> QED
    BY <2>3, <2>4, <2>5
<1> QED
    BY <1>3, <1>5, <1>6, <1>7 DEF Divides
\* What rq_vol_surface_set_volatility does: the curve of the key has one more
\* volatility, or there is a new row.
VolEffect(rws, cvs, k, d, v, rws2, cvs2) ==
    LET n == FirstFrom(rws, k)
    IN IF n <= Len(rws) /\ rws[n].key = k
       THEN rws2 = rws /\ cvs2 = [cvs EXCEPT ![rws[n].curve] = CurveAdd(@, d, v)]
       ELSE rws2 = InsertAt(rws, n, Row(k, Len(cvs) + 1)) /\ cvs2 = Append(cvs, CurveAdd(<<>>, d, v))

\* The rows of an older surface, but for the key of a change, whose row may be new and
\* has the curve of the change.
RowsFrom(rws, rws2, k, c) ==
    /\ \A i \in 1..Len(rws2) :
            \/ rws2[i].key = k /\ rws2[i].curve = c
            \/ \E j \in 1..Len(rws) : rws2[i] = rws[j] /\ rws[j].key # k
    /\ \E i \in 1..Len(rws2) : rws2[i].key = k /\ rws2[i].curve = c
    /\ \A j \in 1..Len(rws) : rws[j].key # k => \E i \in 1..Len(rws2) : rws2[i] = rws[j]
    /\ \A i, j \in 1..Len(rws2) : rws2[i].curve = rws2[j].curve => i = j

\* A new row in its place.
LEMMA RowInserted ==
    ASSUME NEW rws \in Rows, Rising(rws), NEW k \in Key, NEW c \in Nat,
           NEW n, Divides(rws, k, n), ~(n <= Len(rws) /\ rws[n].key = k),
           \A i, j \in 1..Len(rws) : rws[i].curve = rws[j].curve => i = j,
           \A i \in 1..Len(rws) : rws[i].curve # c,
           NEW r, r = InsertAt(rws, n, Row(k, c))
    PROVE  r \in Rows /\ Len(r) = Len(rws) + 1 /\ Rising(r) /\ RowsFrom(rws, r, k, c)
<1>1. /\ Len(rws) \in Nat /\ k \in Int
      /\ \A i \in 1..Len(rws) : rws[i].key \in Int
    BY RowFields, SurfaceAssumption
<1>2. PICK e : e = Row(k, c) /\ e \in [key : Key, curve : Nat] /\ e.key = k /\ e.curve = c
    BY DEF Row
<1>3. n \in 1..Len(rws)+1
    BY DEF Divides
<1>4. /\ r \in Rows /\ Len(r) = Len(rws) + 1
      /\ \A j \in 1..Len(rws)+1 :
            r[j] = IF j < n THEN rws[j] ELSE IF j = n THEN e ELSE rws[j-1]
  <2>1. PICK X : X = [key : Key, curve : Nat]
    OBVIOUS
  <2>2. rws \in Seq(X) /\ e \in X /\ r = InsertAt(rws, n, e)
    BY <1>2, <2>1 DEF Rows
  <2>3. /\ r \in Seq(X) /\ Len(r) = Len(rws) + 1
        /\ \A j \in 1..Len(rws)+1 :
              r[j] = IF j < n THEN rws[j] ELSE IF j = n THEN e ELSE rws[j-1]
    BY ONLY <1>3, <2>2, InsertedIn, SMTT(30)
  <2>4. r \in Rows
    BY <2>1, <2>3 DEF Rows
  <2> QED
    BY <2>3, <2>4
<1>5. \A j \in 1..Len(rws) : (j < n => rws[j].key < k) /\ (j >= n => rws[j].key > k)
  <2>1. ASSUME NEW j \in 1..Len(rws), j >= n PROVE rws[j].key > k
    <3>1. n \in 1..Len(rws) /\ rws[n].key \in Int /\ rws[n].key >= k /\ rws[n].key # k
      BY <1>1, <1>3, <2>1 DEF Divides
    <3>2. rws[n].key > k
      BY <1>1, <3>1
    <3>3. CASE n < j
      BY <1>1, <3>1, <3>2, <3>3 DEF Rising
    <3>4. ~(n < j) => n = j
      BY <2>1, <3>1
    <3> QED
      BY <3>2, <3>3, <3>4
  <2> QED
    BY <2>1 DEF Divides
<1>6. Rising(r)
  <2>1. ASSUME NEW i \in 1..Len(rws)+1, NEW j \in 1..Len(rws)+1, i < j
        PROVE  r[i].key < r[j].key
    <3>1. CASE j < n
      BY <1>1, <1>3, <1>4, <2>1, <3>1 DEF Rising
    <3>2. CASE j = n
      <4>1. i \in 1..Len(rws) /\ i < n
        BY <1>1, <1>3, <2>1, <3>2
      <4>2. r[i] = rws[i] /\ r[j] = e
        BY <1>4, <3>2, <4>1
      <4> QED
        BY <1>2, <1>5, <4>1, <4>2
    <3>3. CASE j > n /\ i < n
      <4>1. i \in 1..Len(rws) /\ j - 1 \in 1..Len(rws) /\ i < j - 1 /\ ~(j < n) /\ j # n
        BY <1>1, <1>3, <3>3
      <4>2. r[i] = rws[i] /\ r[j] = rws[j-1]
        BY <1>4, <3>3, <4>1
      <4> QED
        BY <4>1, <4>2 DEF Rising
    <3>4. CASE j > n /\ i = n
      <4>1. j - 1 \in 1..Len(rws) /\ j - 1 >= n /\ ~(j < n) /\ j # n
        BY <1>1, <1>3, <3>4
      <4>2. r[i] = e /\ r[j] = rws[j-1]
        BY <1>4, <3>4, <4>1
      <4>3. rws[j-1].key > k
        BY <1>5, <4>1
      <4> QED
        BY <1>1, <1>2, <4>1, <4>2, <4>3
    <3>5. CASE j > n /\ i > n
      <4>1. i - 1 \in 1..Len(rws) /\ j - 1 \in 1..Len(rws) /\ i - 1 < j - 1 /\ ~(j < n) /\ j # n /\ ~(i < n) /\ i # n
        BY <1>1, <1>3, <2>1, <3>5
      <4>2. r[i] = rws[i-1] /\ r[j] = rws[j-1]
        BY <1>4, <4>1
      <4> QED
        BY <4>1, <4>2 DEF Rising
    <3> QED
      BY <1>3, <2>1, <3>1, <3>2, <3>3, <3>4, <3>5
  <2> QED
    BY <1>4, <2>1 DEF Rising
<1>7. ASSUME NEW i \in 1..Len(rws)+1
      PROVE  \/ i = n /\ r[i] = e
             \/ \E j \in 1..Len(rws) : /\ r[i] = rws[j] /\ rws[j].key # k
                                       /\ j = IF i < n THEN i ELSE i - 1
                                       /\ i # n
  <2>1. CASE i < n
    <3>1. i \in 1..Len(rws) /\ r[i] = rws[i]
      BY <1>1, <1>3, <1>4, <2>1
    <3>2. rws[i].key # k
      BY <1>1, <1>5, <2>1, <3>1
    <3> QED
      BY <2>1, <3>1, <3>2
  <2>2. CASE i = n
    BY <1>4, <2>2
  <2>3. CASE i > n
    <3>1. i - 1 \in 1..Len(rws) /\ r[i] = rws[i-1] /\ i - 1 >= n
      BY <1>1, <1>3, <1>4, <2>3
    <3>2. rws[i-1].key # k
      BY <1>1, <1>5, <3>1
    <3> QED
      BY <1>3, <2>3, <3>1, <3>2
  <2> QED
    BY <1>3, <2>1, <2>2, <2>3
<1>8. ASSUME NEW i \in 1..Len(rws)+1, NEW j \in 1..Len(rws)+1, r[i].curve = r[j].curve
      PROVE  i = j
  <2>1. CASE i = n
    BY <1>2, <1>7, <1>8, <2>1
  <2>2. CASE j = n
    BY <1>2, <1>7, <1>8, <2>2
  <2>3. CASE i # n /\ j # n
    <3>1. PICK a \in 1..Len(rws) : r[i] = rws[a] /\ a = IF i < n THEN i ELSE i - 1
      BY <1>7, <2>3
    <3>2. PICK b \in 1..Len(rws) : r[j] = rws[b] /\ b = IF j < n THEN j ELSE j - 1
      BY <1>7, <2>3
    <3>3. a = b
      BY <1>8, <3>1, <3>2
    <3> QED
      BY <1>3, <2>3, <3>1, <3>2, <3>3
  <2> QED
    BY <2>1, <2>2, <2>3
<1>9. RowsFrom(rws, r, k, c)
  <2>1. Len(r) = Len(rws) + 1
    BY <1>4
  <2>2. \A i \in 1..Len(r) : \/ r[i].key = k /\ r[i].curve = c
                             \/ \E j \in 1..Len(rws) : r[i] = rws[j] /\ rws[j].key # k
    BY <1>2, <1>7, <2>1
  <2>3. \E i \in 1..Len(r) : r[i].key = k /\ r[i].curve = c
    <3>1. r[n] = e
      BY <1>3, <1>4
    <3> QED
      BY <1>2, <1>3, <2>1, <3>1
  <2>4. ASSUME NEW j \in 1..Len(rws) PROVE \E i \in 1..Len(r) : r[i] = rws[j]
    <3>1. CASE j < n
      <4>1. j \in 1..Len(r) /\ r[j] = rws[j]
        BY <1>1, <1>4, <3>1
      <4> QED
        BY <4>1
    <3>2. CASE ~(j < n)
      <4>1. j + 1 \in 1..Len(r) /\ r[j+1] = rws[j]
        BY <1>1, <1>3, <1>4, <3>2
      <4> QED
        BY <4>1
    <3> QED
      BY <3>1, <3>2
  <2>5. \A i, j \in 1..Len(r) : r[i].curve = r[j].curve => i = j
    BY <1>8, <2>1
  <2> QED
    BY <2>2, <2>3, <2>4, <2>5 DEF RowsFrom
<1> QED
    BY <1>4, <1>6, <1>9
\* The curve of the row of a key is another one, or has changed.
LEMMA RowReplaced ==
    ASSUME NEW rws \in Rows, Rising(rws), NEW k, NEW c \in Nat,
           NEW n \in 1..Len(rws), rws[n].key = k,
           \A i, j \in 1..Len(rws) : rws[i].curve = rws[j].curve => i = j,
           \A i \in 1..Len(rws) : i # n => rws[i].curve # c,
           NEW r, r = [rws EXCEPT ![n].curve = c]
    PROVE  r \in Rows /\ Len(r) = Len(rws) /\ Rising(r) /\ RowsFrom(rws, r, k, c)
<1>1. /\ Len(rws) \in Nat /\ DOMAIN rws = 1..Len(rws)
      /\ \A i \in 1..Len(rws) : rws[i].key \in Int
    BY RowFields
<1>2. \A i \in 1..Len(rws) : rws[i] \in [key : Key, curve : Nat]
    BY ElementOfSeq DEF Rows
<1>3. r = [i \in 1..Len(rws) |-> IF i = n THEN [rws[n] EXCEPT !.curve = c] ELSE rws[i]]
    BY <1>1
<1>4. ASSUME NEW e \in [key : Key, curve : Nat]
      PROVE  /\ [e EXCEPT !.curve = c] \in [key : Key, curve : Nat]
             /\ [e EXCEPT !.curve = c].key = e.key /\ [e EXCEPT !.curve = c].curve = c
    OBVIOUS
<1>5. \A i \in 1..Len(rws) : r[i] = IF i = n THEN [rws[n] EXCEPT !.curve = c] ELSE rws[i]
    BY <1>3
<1>6. r[n] \in [key : Key, curve : Nat] /\ r[n].key = k /\ r[n].curve = c
    BY <1>2, <1>4, <1>5
<1>7. \A i \in 1..Len(rws) : i # n => r[i] = rws[i]
    BY <1>5
<1>8. r \in Rows /\ Len(r) = Len(rws)
  <2>1. PICK X : X = [key : Key, curve : Nat]
    OBVIOUS
  <2>2. PICK e \in X : e = [rws[n] EXCEPT !.curve = c]
    BY <1>2, <1>4, <2>1
  <2>3. r = [rws EXCEPT ![n] = e]
    BY <1>1, <1>3, <2>2
  <2>4. [rws EXCEPT ![n] = e] \in Seq(X) /\ Len([rws EXCEPT ![n] = e]) = Len(rws)
    BY <2>1, ExceptSeq DEF Rows
  <2> QED
    BY <2>1, <2>3, <2>4 DEF Rows
<1>9. \A i \in 1..Len(rws) : r[i].key = rws[i].key
    BY <1>6, <1>7
<1>10. Rising(r)
    BY <1>8, <1>9 DEF Rising
<1>11. \A i \in 1..Len(rws) : i # n => rws[i].key # k
  <2>1. ASSUME NEW i \in 1..Len(rws), i # n PROVE rws[i].key # k
    <3>1. i < n \/ n < i
      BY <1>1, <2>1
    <3>2. rws[i].key < rws[n].key \/ rws[n].key < rws[i].key
      BY <3>1 DEF Rising
    <3> QED
      BY <1>1, <3>2
  <2> QED
    BY <2>1
<1>12. RowsFrom(rws, r, k, c)
  <2>1. \A i \in 1..Len(r) : \/ r[i].key = k /\ r[i].curve = c
                             \/ \E j \in 1..Len(rws) : r[i] = rws[j] /\ rws[j].key # k
    BY <1>6, <1>7, <1>8, <1>11
  <2>2. \E i \in 1..Len(r) : r[i].key = k /\ r[i].curve = c
    BY <1>6, <1>8
  <2>3. \A j \in 1..Len(rws) : rws[j].key # k => \E i \in 1..Len(r) : r[i] = rws[j]
    BY <1>7, <1>8
  <2>4. \A i, j \in 1..Len(r) : r[i].curve = r[j].curve => i = j
    <3>1. ASSUME NEW i \in 1..Len(rws), NEW j \in 1..Len(rws), r[i].curve = r[j].curve
          PROVE  i = j
      BY <1>6, <1>7, <3>1
    <3> QED
      BY <1>8, <3>1
  <2> QED
    BY <2>1, <2>2, <2>3, <2>4 DEF RowsFrom
<1> QED
    BY <1>8, <1>10, <1>12

\* A curve has what the changes of a key say.
Makes(ch, k, t) == \A d \in Date : \A v : LastOf(ch, k, d) = {v} => Shows(t, d, {v})

\* A change keeps a surface whole, and what it recalls, if it makes what the curve of
\* its key has to recall.
LEMMA ChangeKeeps ==
    ASSUME NEW rws, NEW cvs, Whole(rws, cvs), NEW ch \in Seq(Change), Recalls(rws, cvs, ch),
           NEW rws2 \in Rows, NEW cvs2 \in Seq(Seq(Entry)), NEW k \in Key, NEW m,
           Rising(rws2), RowsFrom(rws, rws2, k, m), m \in 1..Len(cvs2),
           Len(cvs) <= Len(cvs2), \A c \in 1..Len(cvs2) : Ordered(cvs2[c], FALSE),
           \A j \in 1..Len(rws) : rws[j].key # k => cvs2[rws[j].curve] = cvs[rws[j].curve],
           NEW new \in Change, new.key = k, NEW h, h = Append(ch, new),
           Makes(h, k, cvs2[m])
    PROVE  Whole(rws2, cvs2) /\ Recalls(rws2, cvs2, h)
<1>1. Len(cvs) \in Nat /\ Len(cvs2) \in Nat
    BY DEF Whole
<1>2. ASSUME NEW i \in 1..Len(rws2) PROVE rws2[i].curve \in 1..Len(cvs2)
  <2>1. CASE rws2[i].curve = m
    BY <2>1
  <2>2. ASSUME NEW j \in 1..Len(rws), rws2[i] = rws[j] PROVE rws2[i].curve \in 1..Len(cvs2)
    <3>1. rws[j].curve \in 1..Len(cvs)
      BY DEF Whole
    <3> QED
      BY <1>1, <2>2, <3>1, SMTT(30)
  <2> QED
    BY <2>1, <2>2 DEF RowsFrom
<1>3. Whole(rws2, cvs2)
    BY <1>2 DEF Whole, Rising, RowsFrom
<1>4. ASSUME NEW l \in Key, NEW d \in Date, NEW v, LastOf(h, l, d) = {v}
      PROVE  \E i \in 1..Len(rws2) : rws2[i].key = l /\ Shows(cvs2[rws2[i].curve], d, {v})
  <2>1. CASE l = k
    <3>1. PICK i \in 1..Len(rws2) : rws2[i].key = k /\ rws2[i].curve = m
      BY DEF RowsFrom
    <3>2. Shows(cvs2[m], d, {v})
      BY <1>4, <2>1 DEF Makes
    <3> QED
      BY <2>1, <3>1, <3>2
  <2>2. CASE l # k
    <3>1. ~Matters(new, l, d)
      BY <2>2 DEF Matters
    <3>2. LastOf(ch, l, d) = {v}
      BY <1>4, <3>1, LastAppended
    <3>6. \E j \in 1..Len(rws) : rws[j].key = l /\ Shows(cvs[rws[j].curve], d, {v})
      <4>1. \A w : LastOf(ch, l, d) = {w} =>
                \E j \in 1..Len(rws) : rws[j].key = l /\ Shows(cvs[rws[j].curve], d, {w})
        BY ONLY Recalls(rws, cvs, ch), l \in Key, d \in Date, Zenon DEF Recalls
      <4> QED
        BY ONLY <3>2, <4>1, Zenon
    <3>3. PICK j \in 1..Len(rws) : rws[j].key = l /\ Shows(cvs[rws[j].curve], d, {v})
      BY <3>6
    <3>4. cvs2[rws[j].curve] = cvs[rws[j].curve]
      BY <2>2, <3>3
    <3>5. PICK i \in 1..Len(rws2) : rws2[i] = rws[j]
      BY <2>2, <3>3 DEF RowsFrom
    <3> QED
      BY <3>3, <3>4, <3>5
  <2> QED
    BY <2>1, <2>2
<1> QED
    BY <1>3, <1>4 DEF Recalls

\* A key has one row, which is the first that is not below it.
LEMMA RowIs ==
    ASSUME NEW rws \in Rows, Rising(rws), NEW k \in Key, NEW n, Divides(rws, k, n),
           NEW i \in 1..Len(rws), rws[i].key = k
    PROVE  i = n
<1>1. /\ Len(rws) \in Nat /\ k \in Int
      /\ \A j \in 1..Len(rws) : rws[j].key \in Int
    BY RowFields, SurfaceAssumption
<1>2. n \in 1..Len(rws)+1
    BY DEF Divides
<1>3. ~(i < n)
    BY <1>1 DEF Divides
<1>4. ~(n < i)
  <2> SUFFICES ASSUME n < i PROVE FALSE
      OBVIOUS
  <2>1. n \in 1..Len(rws)
    BY <1>1, <1>2
  <2>2. rws[n].key < rws[i].key
    BY <2>1 DEF Rising
  <2>3. rws[n].key >= k
    BY <2>1 DEF Divides
  <2> QED
    BY <1>1, <2>1, <2>2, <2>3
<1> QED
    BY <1>2, <1>3, <1>4

\* A volatility that is set keeps a surface whole, and is what it recalls.
LEMMA VolKeeps ==
    ASSUME NEW rws, NEW cvs, Whole(rws, cvs), NEW ch \in Seq(Change), Recalls(rws, cvs, ch),
           NEW k \in Key, NEW d \in Date, NEW v \in Value, NEW rws2, NEW cvs2,
           VolEffect(rws, cvs, k, d, v, rws2, cvs2),
           NEW new \in Change, new.key = k, new.at = d, new.val = v
    PROVE  /\ Whole(rws2, cvs2) /\ Recalls(rws2, cvs2, Append(ch, new))
           /\ Append(ch, new) \in Seq(Change) /\ Len(cvs) <= Len(cvs2)
           /\ \A i \in 1..Len(rws2) : \/ rws2[i].curve = Len(cvs) + 1
                                      \/ \E j \in 1..Len(rws) : rws2[i].curve = rws[j].curve
<1>1. /\ rws \in Rows /\ Rising(rws) /\ cvs \in Seq(Seq(Entry)) /\ Len(cvs) \in Nat
      /\ DOMAIN cvs = 1..Len(cvs) /\ k \in Int /\ Len(rws) \in Nat
    BY RowFields, SurfaceAssumption DEF Whole, Rising
<1>2. PICK n : n = FirstFrom(rws, k)
    OBVIOUS
<1>3. Divides(rws, k, n)
    BY <1>1, <1>2, FirstFromIs
<1>4. d # None
    BY NoneAssumption
<1>5. \A e \in Date : e # d => ~Matters(new, k, e)
    BY <1>4 DEF Matters
<1>6. \A e \in Date : e # d => LastOf(Append(ch, new), k, e) = LastOf(ch, k, e)
    BY <1>5, LastAppended
<1>7. LastOf(Append(ch, new), k, d) = {v}
  <2>1. Matters(new, k, d)
    BY DEF Matters
  <2> QED
    BY <1>4, <2>1, LastAppended
<1>8. Append(ch, new) \in Seq(Change)
    OBVIOUS
<1>9. CASE n <= Len(rws) /\ rws[n].key = k
  <2>1. n \in 1..Len(rws)
    BY <1>3, <1>9 DEF Divides
  <2>2. PICK c : c = rws[n].curve
    OBVIOUS
  <2>3. c \in 1..Len(cvs) /\ c \in Nat
    BY <2>1, <2>2 DEF Whole
  <2>4. cvs[c] \in Seq(Entry) /\ Ordered(cvs[c], FALSE)
    <3>1. PICK X : X = Seq(Entry)
      OBVIOUS
    <3>2. cvs \in Seq(X)
      BY <1>1, <3>1
    <3>3. cvs[c] \in X
      BY <2>3, <3>2, ElementOfSeq
    <3>4. Ordered(cvs[c], FALSE)
      BY <2>3 DEF Whole
    <3> QED
      BY <3>1, <3>3, <3>4
  <2>5. PICK q : q = CurveAdd(cvs[c], d, v)
    OBVIOUS
  <2>6. Added(cvs[c], d, {v}, q)
    BY <2>4, <2>5, CurveAddAdds
  <2>7. rws2 = rws /\ cvs2 = [cvs EXCEPT ![c] = q]
    BY <1>2, <1>9, <2>2, <2>5 DEF VolEffect
  <2>8. /\ cvs2 \in Seq(Seq(Entry)) /\ Len(cvs2) = Len(cvs)
        /\ \A j \in 1..Len(cvs) : cvs2[j] = IF j = c THEN q ELSE cvs[j]
    <3>1. PICK X : X = Seq(Entry)
      OBVIOUS
    <3>2. cvs \in Seq(X) /\ q \in X
      BY <1>1, <2>6, <3>1 DEF Added
    <3>3. cvs2 \in Seq(X) /\ Len(cvs2) = Len(cvs)
          /\ \A j \in 1..Len(cvs) : cvs2[j] = IF j = c THEN q ELSE cvs[j]
      BY <2>3, <2>7, <3>2, ExceptSeq
    <3> QED
      BY <3>1, <3>3
  <2>9. RowsFrom(rws, rws, k, c)
    <3>1. \A i, j \in 1..Len(rws) : rws[i].curve = rws[j].curve => i = j
      BY DEF Whole
    <3>2. \A i \in 1..Len(rws) : rws[i].key = k => i = n
      BY <1>1, <1>3, RowIs
    <3>3. \A i \in 1..Len(rws) : \/ rws[i].key = k /\ rws[i].curve = c
                                 \/ \E j \in 1..Len(rws) : rws[i] = rws[j] /\ rws[j].key # k
      BY <2>2, <3>2
    <3>4. \E i \in 1..Len(rws) : rws[i].key = k /\ rws[i].curve = c
      BY <1>9, <2>1, <2>2
    <3> QED
      BY <3>1, <3>3, <3>4 DEF RowsFrom
  <2>10. \A i \in 1..Len(cvs2) : Ordered(cvs2[i], FALSE)
    BY <2>6, <2>8 DEF Added, Whole
  <2>11. \A j \in 1..Len(rws) : rws[j].key # k => cvs2[rws[j].curve] = cvs[rws[j].curve]
    <3>1. ASSUME NEW j \in 1..Len(rws), rws[j].key # k
          PROVE  cvs2[rws[j].curve] = cvs[rws[j].curve]
      <4>1. rws[j].curve # c /\ rws[j].curve \in 1..Len(cvs)
        BY <1>9, <2>1, <2>2, <3>1 DEF Whole
      <4> QED
        BY <2>8, <4>1
    <3> QED
      BY <3>1
  <2>12. ASSUME NEW e \in Date, NEW w, LastOf(Append(ch, new), k, e) = {w}
         PROVE  Shows(cvs2[c], e, {w})
    <3>1. cvs2[c] = q
      BY <2>3, <2>8
    <3>2. CASE e = d
      <4>1. {w} = {v}
        BY <1>7, <2>12, <3>2
      <4> QED
        BY <2>6, <3>1, <3>2, <4>1 DEF Added
    <3>3. CASE e # d
      <4>1. LastOf(ch, k, e) = {w}
        BY <1>6, <2>12, <3>3
      <4>2. \A u : LastOf(ch, k, e) = {u} =>
                \E j \in 1..Len(rws) : rws[j].key = k /\ Shows(cvs[rws[j].curve], e, {u})
        BY ONLY Recalls(rws, cvs, ch), k \in Key, e \in Date, Zenon DEF Recalls
      <4>3. \E j \in 1..Len(rws) : rws[j].key = k /\ Shows(cvs[rws[j].curve], e, {w})
        BY ONLY <4>1, <4>2, Zenon
      <4>4. Shows(cvs[c], e, {w})
        BY <1>1, <1>3, <2>2, <4>3, RowIs
      <4> QED
        BY <2>6, <3>1, <3>3, <4>4 DEF Added
    <3> QED
      BY <3>2, <3>3
  <2>13. Whole(rws2, cvs2) /\ Recalls(rws2, cvs2, Append(ch, new))
    <3>1. c \in 1..Len(cvs2) /\ Len(cvs) <= Len(cvs2)
      BY <1>1, <2>3, <2>8
    <3>5. PICK h : h = Append(ch, new)
      OBVIOUS
    <3>2. Makes(h, k, cvs2[c])
      BY <2>12, <3>5 DEF Makes
    <3>3. rws2 = rws /\ rws2 \in Rows /\ Rising(rws2) /\ RowsFrom(rws, rws2, k, c)
      BY <1>1, <2>7, <2>9
    <3>4. cvs2 \in Seq(Seq(Entry))
      BY <2>8
    <3>6. Whole(rws2, cvs2) /\ Recalls(rws2, cvs2, h)
      BY <2>10, <2>11, <3>1, <3>2, <3>3, <3>4, <3>5, ChangeKeeps
    <3> QED
      BY <3>5, <3>6
  <2>14. Len(cvs) <= Len(cvs2)
    BY <1>1, <2>8
  <2>15. \A i \in 1..Len(rws2) : \/ rws2[i].curve = Len(cvs) + 1
                                 \/ \E j \in 1..Len(rws) : rws2[i].curve = rws[j].curve
    BY <2>7
  <2> QED
    BY ONLY <1>8, <2>13, <2>14, <2>15, Zenon
<1>10. CASE ~(n <= Len(rws) /\ rws[n].key = k)
  <2>1. PICK c : c = Len(cvs) + 1 /\ c \in Nat
    BY <1>1
  <2>2. <<>> \in Seq(Entry) /\ Ordered(<<>>, FALSE)
    BY DEF Ordered
  <2>3. PICK q : q = CurveAdd(<<>>, d, v)
    OBVIOUS
  <2>4. Added(<<>>, d, {v}, q)
    BY <2>2, <2>3, CurveAddAdds
  <2>5. rws2 = InsertAt(rws, n, Row(k, c)) /\ cvs2 = Append(cvs, q)
    BY <1>2, <1>10, <2>1, <2>3 DEF VolEffect
  <2>6. rws2 \in Rows /\ Rising(rws2) /\ RowsFrom(rws, rws2, k, c)
    <3>1. \A i, j \in 1..Len(rws) : rws[i].curve = rws[j].curve => i = j
      BY DEF Whole
    <3>2. \A i \in 1..Len(rws) : rws[i].curve # c
      BY <1>1, <2>1 DEF Whole
    <3> QED
      BY <1>1, <1>3, <1>10, <2>1, <2>5, <3>1, <3>2, RowInserted
  <2>7. /\ cvs2 \in Seq(Seq(Entry)) /\ Len(cvs2) = Len(cvs) + 1 /\ cvs2[c] = q
        /\ \A j \in 1..Len(cvs) : cvs2[j] = cvs[j]
    <3>1. PICK X : X = Seq(Entry)
      OBVIOUS
    <3>2. cvs \in Seq(X) /\ q \in X
      BY <1>1, <2>4, <3>1 DEF Added
    <3>3. /\ cvs2 \in Seq(X) /\ Len(cvs2) = Len(cvs) + 1 /\ cvs2[c] = q
          /\ \A j \in 1..Len(cvs) : cvs2[j] = cvs[j]
      BY <1>1, <2>1, <2>5, <3>2, AppendProperties
    <3> QED
      BY <3>1, <3>3
  <2>8. \A i \in 1..Len(cvs2) : Ordered(cvs2[i], FALSE)
    <3>1. ASSUME NEW i \in 1..Len(cvs2) PROVE Ordered(cvs2[i], FALSE)
      <4>1. CASE i = c
        BY <2>4, <2>7, <4>1 DEF Added
      <4>2. CASE i # c
        <5>1. i \in 1..Len(cvs)
          BY <1>1, <2>1, <2>7, <4>2
        <5> QED
          BY <2>7, <5>1 DEF Whole
      <4> QED
        BY <4>1, <4>2
    <3> QED
      BY <3>1
  <2>9. \A j \in 1..Len(rws) : rws[j].key # k => cvs2[rws[j].curve] = cvs[rws[j].curve]
    BY <2>7 DEF Whole
  <2>10. ASSUME NEW e \in Date, NEW w, LastOf(Append(ch, new), k, e) = {w}
         PROVE  Shows(cvs2[c], e, {w})
    <3>2. CASE e = d
      <4>1. {w} = {v}
        BY <1>7, <2>10, <3>2
      <4> QED
        BY <2>4, <2>7, <3>2, <4>1 DEF Added
    <3>3. CASE e # d
      <4>1. LastOf(ch, k, e) = {w}
        BY <1>6, <2>10, <3>3
      <4>2. \A u : LastOf(ch, k, e) = {u} =>
                \E j \in 1..Len(rws) : rws[j].key = k /\ Shows(cvs[rws[j].curve], e, {u})
        BY ONLY Recalls(rws, cvs, ch), k \in Key, e \in Date, Zenon DEF Recalls
      <4>3. \E j \in 1..Len(rws) : rws[j].key = k
        BY ONLY <4>1, <4>2, Zenon
      <4>4. PICK j \in 1..Len(rws) : rws[j].key = k
        BY <4>3
      <4>5. j = n
        BY <1>1, <1>3, <4>4, RowIs
      <4> QED
        BY <1>1, <1>10, <4>4, <4>5
    <3> QED
      BY <3>2, <3>3
  <2>11. Whole(rws2, cvs2) /\ Recalls(rws2, cvs2, Append(ch, new))
    <3>1. c \in 1..Len(cvs2) /\ Len(cvs) <= Len(cvs2)
      BY <1>1, <2>1, <2>7
    <3>5. PICK h : h = Append(ch, new)
      OBVIOUS
    <3>2. Makes(h, k, cvs2[c])
      BY <2>10, <3>5 DEF Makes
    <3>4. cvs2 \in Seq(Seq(Entry))
      BY <2>7
    <3>6. Whole(rws2, cvs2) /\ Recalls(rws2, cvs2, h)
      BY <2>6, <2>8, <2>9, <3>1, <3>2, <3>4, <3>5, ChangeKeeps
    <3> QED
      BY <3>5, <3>6
  <2>12. \A i \in 1..Len(rws2) : \/ rws2[i].curve = Len(cvs) + 1
                                 \/ \E j \in 1..Len(rws) : rws2[i].curve = rws[j].curve
    BY <2>1, <2>6 DEF RowsFrom
  <2>13. Len(cvs) <= Len(cvs2)
    BY <1>1, <2>7
  <2> QED
    BY ONLY <1>8, <2>11, <2>12, <2>13, Zenon
<1> QED
    BY <1>9, <1>10
-----------------------------------------------------------------------------
\* A surface is whole and recalls what was set, as long as no curve was added twice.
SurfaceWhole ==
    /\ Whole(rows, curves) /\ changes \in Seq(Change) /\ Recalls(rows, curves, changes)
    /\ dead \subseteq 1..Len(curves) /\ \A i \in 1..Len(rows) : rows[i].curve \notin dead
    /\ changes = <<>> => dead = {}

SurfaceInv == ~again => SurfaceWhole

LEMMA RowOfIs ==
    ASSUME NEW k
    PROVE  /\ RowOf(k) = FirstFrom(rows, k)
           /\ HasRow(k) <=> /\ FirstFrom(rows, k) \in DOMAIN rows
                            /\ rows[FirstFrom(rows, k)].key = k
BY DEF RowOf, HasRow, FirstFrom

\* What a surface that is given by its rows and curves, with or without more, becomes.
LEMMA WithVolIs ==
    ASSUME NEW R, NEW C, NEW s \in [rows : R, curves : C], NEW k, NEW d, NEW v,
           NEW w, w = WithVol(s, k, d, v)
    PROVE  VolEffect(s.rows, s.curves, k, d, v, w.rows, w.curves)
<1>1. PICK n : n = FirstFrom(s.rows, k)
    OBVIOUS
<1>2. w = IF n <= Len(s.rows) /\ s.rows[n].key = k
          THEN [s EXCEPT !.curves[s.rows[n].curve] = CurveAdd(@, d, v)]
          ELSE [s EXCEPT !.rows = InsertAt(@, n, Row(k, Len(s.curves) + 1)),
                         !.curves = Append(@, CurveAdd(<<>>, d, v))]
    BY <1>1 DEF WithVol, FirstFrom
<1>3. CASE n <= Len(s.rows) /\ s.rows[n].key = k
    BY <1>1, <1>2, <1>3 DEF VolEffect
<1>4. CASE ~(n <= Len(s.rows) /\ s.rows[n].key = k)
    BY <1>1, <1>2, <1>4 DEF VolEffect
<1> QED
    BY <1>3, <1>4

LEMMA SetVolatilityInv ==
    ASSUME SurfaceInv, NEW k \in Key, NEW d \in Date, NEW v \in Value, SetVolatility(k, d, v)
    PROVE  SurfaceInv'
<1> SUFFICES ASSUME ~again, again' = again PROVE SurfaceWhole'
    BY DEF SurfaceInv, SetVolatility
<1>1. SurfaceWhole
    BY DEF SurfaceInv
<1>2. PICK s : s = [rows |-> rows, curves |-> curves]
    OBVIOUS
<1>3. PICK w : w = WithVol(s, k, d, v)
    OBVIOUS
<1>4. rows' = w.rows /\ curves' = w.curves /\ dead' = dead
    BY <1>2, <1>3 DEF SetVolatility
<1>5. PICK new : new = [key |-> k, at |-> d, val |-> v]
    OBVIOUS
<1>6. new \in Change /\ new.key = k /\ new.at = d /\ new.val = v /\ changes' = Append(changes, new)
    BY <1>5 DEF SetVolatility, Change
<1>7. VolEffect(rows, curves, k, d, v, rows', curves')
  <2>1. s \in [rows : {rows}, curves : {curves}] /\ s.rows = rows /\ s.curves = curves
    BY <1>2
  <2>2. VolEffect(s.rows, s.curves, k, d, v, w.rows, w.curves)
    BY <1>3, <2>1, WithVolIs
  <2> QED
    BY <1>4, <2>1, <2>2
<1>8. /\ Whole(rows', curves') /\ Recalls(rows', curves', changes')
      /\ changes' \in Seq(Change) /\ Len(curves) <= Len(curves')
      /\ \A i \in 1..Len(rows') : \/ rows'[i].curve = Len(curves) + 1
                                  \/ \E j \in 1..Len(rows) : rows'[i].curve = rows[j].curve
    BY <1>1, <1>6, <1>7, VolKeeps DEF SurfaceWhole
<1>9. Len(curves) \in Nat /\ Len(curves') \in Nat
    BY <1>1, <1>8 DEF SurfaceWhole, Whole
<1>10. dead' \subseteq 1..Len(curves')
    BY <1>1, <1>4, <1>8, <1>9 DEF SurfaceWhole
<1>11. \A i \in 1..Len(rows') : rows'[i].curve \notin dead'
  <2>1. Len(curves) + 1 \notin dead
    BY <1>1, <1>9 DEF SurfaceWhole
  <2> QED
    BY <1>1, <1>4, <1>8, <2>1 DEF SurfaceWhole
<1>12. changes' # <<>>
    BY <1>1, <1>6 DEF SurfaceWhole
<1> QED
    BY <1>8, <1>10, <1>11, <1>12 DEF SurfaceWhole

LEMMA AddNewInv ==
    ASSUME SurfaceInv, NEW k \in Key, NEW t \in Given, AddNew(k, t)
    PROVE  SurfaceInv'
<1> SUFFICES ASSUME ~again, again' = again PROVE SurfaceWhole'
    BY DEF SurfaceInv, AddNew
<1>1. /\ SurfaceWhole /\ rows \in Rows /\ Rising(rows) /\ curves \in Seq(Seq(Entry))
      /\ Len(curves) \in Nat /\ k \in Int /\ Len(rows) \in Nat /\ DOMAIN rows = 1..Len(rows)
  <2>1. SurfaceWhole
    BY DEF SurfaceInv
  <2>2. Whole(rows, curves)
    BY <2>1 DEF SurfaceWhole
  <2>3. rows \in Rows /\ Rising(rows) /\ curves \in Seq(Seq(Entry))
    BY <2>2 DEF Whole, Rising
  <2>4. Len(rows) \in Nat /\ DOMAIN rows = 1..Len(rows)
    BY <2>3, RowFields
  <2>5. Len(curves) \in Nat
    BY <2>3
  <2> QED
    BY <2>1, <2>3, <2>4, <2>5, SurfaceAssumption
<1>2. PICK c : c = Len(curves) + 1 /\ c \in Nat
    BY <1>1
<1>3. PICK n : n = FirstFrom(rows, k)
    OBVIOUS
<1>4. Divides(rows, k, n) /\ n \in 1..Len(rows)+1
    BY <1>1, <1>3, FirstFromIs DEF Divides
<1>5. RowOf(k) = n /\ (HasRow(k) <=> n <= Len(rows) /\ rows[n].key = k)
    BY <1>1, <1>3, <1>4, RowOfIs
<1>6. /\ rows' = IF n <= Len(rows) /\ rows[n].key = k THEN [rows EXCEPT ![n].curve = c]
                 ELSE InsertAt(rows, n, Row(k, c))
      /\ dead' = IF n <= Len(rows) /\ rows[n].key = k THEN dead \cup {rows[n].curve} ELSE dead
      /\ curves' = Append(curves, t)
    BY <1>2, <1>5 DEF AddNew, AddRow, PutRow
<1>7. PICK new : new = [key |-> k, at |-> None, val |-> None]
    OBVIOUS
<1>8. new \in Change /\ new.key = k /\ new.at = None /\ changes' = Append(changes, new)
    BY <1>7 DEF AddNew, AddRow, Change
<1>9. /\ \A i, j \in 1..Len(rows) : rows[i].curve = rows[j].curve => i = j
      /\ \A i \in 1..Len(rows) : rows[i].curve \in 1..Len(curves) /\ rows[i].curve # c
    BY <1>1, <1>2 DEF SurfaceWhole, Whole
<1>10. rows' \in Rows /\ Rising(rows') /\ RowsFrom(rows, rows', k, c)
  <2>1. CASE n <= Len(rows) /\ rows[n].key = k
    <3>1. n \in 1..Len(rows) /\ rows' = [rows EXCEPT ![n].curve = c]
      BY <1>1, <1>4, <1>6, <2>1
    <3> QED
      BY <1>1, <1>2, <1>9, <2>1, <3>1, RowReplaced
  <2>2. CASE ~(n <= Len(rows) /\ rows[n].key = k)
    <3>1. rows' = InsertAt(rows, n, Row(k, c))
      BY <1>6, <2>2
    <3> QED
      BY <1>1, <1>2, <1>4, <1>9, <2>2, <3>1, RowInserted
  <2> QED
    BY <2>1, <2>2
<1>11. t \in Seq(Entry) /\ Ordered(t, FALSE)
  <2>1. t \in Seq(Entry) /\ \A i, j \in DOMAIN t : i < j => t[i].at <= t[j].at
    BY GivenAssumption
  <2>2. DOMAIN t = 1..Len(t)
    BY <2>1
  <2> QED
    BY <2>1, <2>2 DEF Ordered, Before
<1>12. /\ curves' \in Seq(Seq(Entry)) /\ Len(curves') = Len(curves) + 1 /\ curves'[c] = t
       /\ \A j \in 1..Len(curves) : curves'[j] = curves[j]
  <2>1. PICK X : X = Seq(Entry)
    OBVIOUS
  <2>2. curves \in Seq(X) /\ t \in X
    BY <1>1, <1>11, <2>1
  <2>3. /\ curves' \in Seq(X) /\ Len(curves') = Len(curves) + 1 /\ curves'[c] = t
        /\ \A j \in 1..Len(curves) : curves'[j] = curves[j]
    BY <1>1, <1>2, <1>6, <2>2, AppendProperties
  <2> QED
    BY <2>1, <2>3
<1>13. \A i \in 1..Len(curves') : Ordered(curves'[i], FALSE)
  <2>1. ASSUME NEW i \in 1..Len(curves') PROVE Ordered(curves'[i], FALSE)
    <3>1. CASE i = c
      BY <1>11, <1>12, <3>1
    <3>2. CASE i # c
      <4>1. i \in 1..Len(curves)
        BY <1>1, <1>2, <1>12, <3>2
      <4> QED
        BY <1>1, <1>12, <4>1 DEF SurfaceWhole, Whole
    <3> QED
      BY <3>1, <3>2
  <2> QED
    BY <2>1
<1>14. Makes(changes', k, curves'[c])
  <2>1. ASSUME NEW e \in Date, NEW w PROVE LastOf(changes', k, e) # {w}
    <3>1. Matters(new, k, e)
      BY <1>8 DEF Matters
    <3>2. LastOf(changes', k, e) = {}
      BY <1>1, <1>8, <3>1, LastAppended DEF SurfaceWhole
    <3> QED
      BY <3>2
  <2> QED
    BY <2>1 DEF Makes
<1>15. Whole(rows', curves') /\ Recalls(rows', curves', changes')
  <2>1. \A j \in 1..Len(rows) : rows[j].key # k => curves'[rows[j].curve] = curves[rows[j].curve]
    BY <1>9, <1>12
  <2>2. c \in 1..Len(curves') /\ Len(curves) <= Len(curves')
    BY <1>1, <1>2, <1>12
  <2>3. PICK h : h = changes'
    OBVIOUS
  <2>4. PICK r, q : r = rows' /\ q = curves'
    OBVIOUS
  <2>5. /\ r \in Rows /\ q \in Seq(Seq(Entry)) /\ Rising(r) /\ RowsFrom(rows, r, k, c) /\ c \in 1..Len(q)
        /\ Len(curves) <= Len(q) /\ \A i \in 1..Len(q) : Ordered(q[i], FALSE)
    BY <1>10, <1>12, <1>13, <2>2, <2>4
  <2>6. \A j \in 1..Len(rows) : rows[j].key # k => q[rows[j].curve] = curves[rows[j].curve]
    BY <2>1, <2>4
  <2>7. h = Append(changes, new) /\ Makes(h, k, q[c]) /\ new \in Change /\ new.key = k
    BY <1>8, <1>14, <2>3, <2>4
  <2>8. Whole(rows, curves) /\ Recalls(rows, curves, changes) /\ changes \in Seq(Change)
    BY <1>1 DEF SurfaceWhole
  <2>9. Whole(r, q) /\ Recalls(r, q, h)
    BY <2>5, <2>6, <2>7, <2>8, ChangeKeeps
  <2> QED
    BY <2>3, <2>4, <2>9
<1>16. dead' \subseteq 1..Len(curves')
  <2>1. dead \subseteq 1..Len(curves) /\ 1..Len(curves) \subseteq 1..Len(curves')
    BY <1>1, <1>12 DEF SurfaceWhole
  <2>2. n <= Len(rows) => rows[n].curve \in 1..Len(curves)
    BY <1>1, <1>4, <1>9
  <2> QED
    BY <1>6, <2>1, <2>2
<1>17. \A i \in 1..Len(rows') : rows'[i].curve \notin dead'
  <2>1. ASSUME NEW i \in 1..Len(rows'), rows'[i].curve = c PROVE c \notin dead'
    <3>1. c \notin 1..Len(curves)
      BY <1>1, <1>2
    <3>2. n <= Len(rows) => rows[n].curve # c
      BY <1>1, <1>4, <1>9
    <3>3. c \notin dead
      BY <1>1, <3>1 DEF SurfaceWhole
    <3> QED
      BY <1>6, <3>2, <3>3
  <2>2. ASSUME NEW j \in 1..Len(rows), rows[j].key # k PROVE rows[j].curve \notin dead'
    <3>1. rows[j].curve \notin dead
      BY <1>1 DEF SurfaceWhole
    <3>2. CASE n <= Len(rows) /\ rows[n].key = k
      <4>1. n \in 1..Len(rows) /\ n # j
        BY <1>1, <1>4, <2>2, <3>2
      <4>2. rows[j].curve # rows[n].curve
        BY <1>9, <4>1
      <4> QED
        BY <1>6, <3>1, <3>2, <4>2
    <3>3. CASE ~(n <= Len(rows) /\ rows[n].key = k)
      BY <1>6, <3>1, <3>3
    <3> QED
      BY <3>2, <3>3
  <2> QED
    BY <1>10, <2>1, <2>2 DEF RowsFrom
<1>18. changes' # <<>> /\ changes' \in Seq(Change)
  <2>1. PICK X : X = Change
    OBVIOUS
  <2>2. changes \in Seq(X) /\ new \in X
    BY <1>1, <1>8, <2>1 DEF SurfaceWhole
  <2>3. changes' \in Seq(X) /\ changes' # <<>>
    BY <1>8, <2>2
  <2> QED
    BY <2>1, <2>3
<1> QED
    BY <1>15, <1>16, <1>17, <1>18 DEF SurfaceWhole
-----------------------------------------------------------------------------
LEMMA AddSameInv == ASSUME SurfaceInv, NEW k, NEW i, AddSame(k, i) PROVE SurfaceInv'
BY DEF SurfaceInv, AddSame

LEMMA CloneSurfaceInv ==
    ASSUME SurfaceInv, CloneSurface
    PROVE  SurfaceInv'
<1> SUFFICES ASSUME ~again, again' = again PROVE SurfaceWhole'
    BY DEF SurfaceInv, CloneSurface
<1>1. SurfaceWhole /\ Whole(rows, curves)
    BY DEF SurfaceInv, SurfaceWhole
<1>2. /\ rows \in Rows /\ Rising(rows) /\ curves \in Seq(Seq(Entry))
    BY <1>1 DEF Whole, Rising
<1>3. /\ Len(rows) \in Nat /\ DOMAIN rows = 1..Len(rows) /\ Len(curves) \in Nat
      /\ \A i \in 1..Len(rows) : rows[i].key \in Key
    BY <1>2, RowFields
<1>4. PICK N \in Nat, n \in Nat : N = Len(rows) /\ n = Len(curves)
    BY <1>3
<1>5. \A i \in 1..N : rows[i].curve \in 1..n
    BY <1>1, <1>4 DEF Whole
<1>6. PICK copies : copies = [i \in 1..N |-> curves[rows[i].curve]]
    OBVIOUS
<1>7. /\ rows' = [i \in 1..N |-> Row(rows[i].key, n + i)]
      /\ curves' = curves \o copies
      /\ dead' = dead \cup {rows[i].curve : i \in 1..N}
    BY <1>3, <1>4, <1>6 DEF CloneSurface, Curve
<1>8. /\ rows' \in Rows /\ Len(rows') = N
      /\ \A i \in 1..N : rows'[i].key = rows[i].key /\ rows'[i].curve = n + i
  <2>1. PICK X : X = [key : Key, curve : Nat]
    OBVIOUS
  <2>2. \A i \in 1..N : Row(rows[i].key, n + i) \in X
    BY <1>3, <1>4, <2>1 DEF Row
  <2>3. rows' \in [1..N -> X]
    BY <1>7, <2>2
  <2>4. rows' \in Seq(X) /\ Len(rows') = N
    BY <2>3
  <2>5. \A i \in 1..N : rows'[i].key = rows[i].key /\ rows'[i].curve = n + i
    BY <1>7 DEF Row
  <2> QED
    BY <2>1, <2>4, <2>5 DEF Rows
<1>9. /\ curves' \in Seq(Seq(Entry)) /\ Len(curves') = n + N
      /\ \A j \in 1..n : curves'[j] = curves[j]
      /\ \A i \in 1..N : curves'[n + i] = curves[rows[i].curve]
  <2>1. PICK X : X = Seq(Entry)
    OBVIOUS
  <2>2. curves \in Seq(X)
    BY <1>2, <2>1
  <2>3. copies \in Seq(X) /\ Len(copies) = N /\ \A i \in 1..N : copies[i] = curves[rows[i].curve]
    <3>1. \A i \in 1..N : curves[rows[i].curve] \in X
      BY <1>4, <1>5, <2>2, ElementOfSeq
    <3>2. copies \in [1..N -> X]
      BY <1>6, <3>1
    <3> QED
      BY <1>6, <3>2
  <2>4. /\ curves' \in Seq(X) /\ Len(curves') = n + N
        /\ \A j \in 1..n+N : curves'[j] = IF j <= n THEN curves[j] ELSE copies[j - n]
    <3>1. curves \o copies \in Seq(X)
      BY ONLY <2>2, <2>3
    <3>2. Len(curves) = n
      BY <1>4
    <3>3. Len(curves \o copies) = Len(curves) + Len(copies)
      BY <2>2, <2>3
    <3>4. \A j \in 1..Len(curves)+Len(copies) :
            (curves \o copies)[j] = IF j <= Len(curves) THEN curves[j] ELSE copies[j - Len(curves)]
      BY <2>2, <2>3
    <3> QED
      BY <1>7, <2>3, <3>1, <3>2, <3>3, <3>4
  <2>6. \A j \in 1..n : curves'[j] = curves[j]
    BY <1>4, <2>4
  <2>5. ASSUME NEW i \in 1..N PROVE curves'[n + i] = curves[rows[i].curve]
    <3>1. n + i \in 1..n+N /\ n + i > n /\ (n + i) - n = i
      BY <1>4
    <3>2. curves'[n + i] = copies[(n + i) - n]
      BY <1>4, <2>4, <3>1
    <3> QED
      BY <2>3, <3>1, <3>2
  <2> QED
    BY <2>1, <2>4, <2>5, <2>6
<1>10. \A c \in 1..Len(curves') : Ordered(curves'[c], FALSE)
  <2>1. ASSUME NEW c \in 1..n+N PROVE Ordered(curves'[c], FALSE)
    <3>1. CASE c \in 1..n
      BY <1>1, <1>4, <1>9, <3>1 DEF Whole
    <3>2. CASE c \notin 1..n
      <4>1. c - n \in 1..N /\ n + (c - n) = c
        BY <1>4, <3>2
      <4>2. PICK i \in 1..N : i = c - n
        BY <4>1
      <4>3. n + i = c /\ curves'[n + i] = curves[rows[i].curve]
        BY <1>9, <4>1, <4>2
      <4>4. curves'[c] = curves[rows[i].curve] /\ rows[i].curve \in 1..n
        BY <1>5, <4>3
      <4> QED
        BY <1>1, <1>4, <4>4 DEF Whole
    <3> QED
      BY <3>1, <3>2
  <2> QED
    BY <1>9, <2>1
<1>11. Whole(rows', curves')
  <2>1. \A i, j \in 1..N : i < j => rows'[i].key < rows'[j].key
    BY <1>2, <1>4, <1>8 DEF Rising
  <2>2. \A i \in 1..N : rows'[i].curve \in 1..n+N
    BY <1>4, <1>8
  <2>3. \A i, j \in 1..N : rows'[i].curve = rows'[j].curve => i = j
    BY <1>4, <1>8
  <2> QED
    BY <1>8, <1>9, <1>10, <2>1, <2>2, <2>3 DEF Whole
<1>12. PICK new : new = [key |-> None, at |-> None, val |-> None]
    OBVIOUS
<1>13. new \in Change /\ new.key = None /\ changes' = Append(changes, new)
    BY <1>12 DEF CloneSurface, Change
<1>14. Recalls(rows', curves', changes')
  <2>1. ASSUME NEW k \in Key, NEW d \in Date, NEW v, LastOf(changes', k, d) = {v}
        PROVE  \E i \in 1..Len(rows') : rows'[i].key = k /\ Shows(curves'[rows'[i].curve], d, {v})
    <3>1. ~Matters(new, k, d)
      BY <1>13, SurfaceAssumption DEF Matters
    <3>2. LastOf(changes, k, d) = {v}
      BY <1>1, <1>13, <2>1, <3>1, LastAppended DEF SurfaceWhole
    <3>3. Recalls(rows, curves, changes)
      BY <1>1 DEF SurfaceWhole
    <3>4. \A w : LastOf(changes, k, d) = {w} =>
                \E i \in 1..Len(rows) : rows[i].key = k /\ Shows(curves[rows[i].curve], d, {w})
      BY ONLY <3>3, k \in Key, d \in Date, Zenon DEF Recalls
    <3>5. \E i \in 1..Len(rows) : rows[i].key = k /\ Shows(curves[rows[i].curve], d, {v})
      BY ONLY <3>2, <3>4, Zenon
    <3>6. PICK i \in 1..N : rows[i].key = k /\ Shows(curves[rows[i].curve], d, {v})
      BY <1>4, <3>5
    <3>7. rows'[i].key = k /\ curves'[rows'[i].curve] = curves[rows[i].curve]
      BY <1>8, <1>9, <3>6
    <3> QED
      BY <1>8, <3>6, <3>7
  <2> QED
    BY <2>1 DEF Recalls
<1>15. dead' \subseteq 1..n /\ dead' \subseteq 1..Len(curves')
  <2>1. dead \subseteq 1..n
    BY <1>1, <1>4 DEF SurfaceWhole
  <2>2. \A j \in 1..n : j \in 1..n+N
    BY <1>4
  <2>3. dead' \subseteq 1..n
    BY <1>5, <1>7, <2>1
  <2> QED
    BY <1>9, <2>2, <2>3
<1>16. \A i \in 1..Len(rows') : rows'[i].curve \notin dead'
    BY <1>4, <1>8, <1>15
<1>17. changes' # <<>> /\ changes' \in Seq(Change)
  <2>1. PICK X : X = Change
    OBVIOUS
  <2>2. changes \in Seq(X) /\ new \in X
    BY <1>1, <1>13, <2>1 DEF SurfaceWhole
  <2>3. changes' \in Seq(X) /\ changes' # <<>>
    BY <1>13, <2>2
  <2> QED
    BY <2>1, <2>3
<1> QED
    BY <1>11, <1>14, <1>15, <1>16, <1>17 DEF SurfaceWhole

LEMMA EmptySurface == Whole(<<>>, <<>>) /\ Recalls(<<>>, <<>>, <<>>) /\ <<>> \in Seq(Change)
<1>1. Whole(<<>>, <<>>)
    BY DEF Whole, Rows
<1>2. ASSUME NEW k, NEW d PROVE LastOf(<<>>, k, d) = {}
  <2>1. PICK X : X = Change
    OBVIOUS
  <2>2. <<>> \in Seq(X) /\ Len(<<>>) = 0
    OBVIOUS
  <2>3. PICK ch \in Seq(Change) : ch = <<>> /\ Len(ch) = 0
    BY <2>1, <2>2
  <2>4. \A j \in 1..Len(ch) : FALSE
    BY <2>3
  <2>5. PICK n \in 0..Len(ch) : n = 0
    BY <2>3
  <2>6. n # 0 => Matters(ch[n], k, d)
    BY <2>5
  <2>7. LastOf(ch, k, d) = IF n = 0 \/ ch[n].at = None THEN {} ELSE {ch[n].val}
    BY ONLY ch \in Seq(Change), n \in 0..Len(ch), <2>4, <2>6, LastIs
  <2> QED
    BY <2>3, <2>5, <2>7
<1> QED
    BY <1>1, <1>2 DEF Recalls

LEMMA FreeSurfaceInv == ASSUME FreeSurface PROVE SurfaceInv'
<1>1. rows' = <<>> /\ curves' = <<>> /\ dead' = {} /\ changes' = <<>>
    BY DEF FreeSurface
<1>2. Whole(rows', curves') /\ Recalls(rows', curves', changes') /\ changes' \in Seq(Change)
    BY <1>1, EmptySurface
<1> QED
    BY <1>1, <1>2 DEF SurfaceInv, SurfaceWhole

LEMMA SurfaceInitInv == ASSUME SurfaceInit PROVE SurfaceInv
<1>1. rows = <<>> /\ curves = <<>> /\ dead = {} /\ changes = <<>>
    BY DEF SurfaceInit
<1>2. Whole(rows, curves) /\ Recalls(rows, curves, changes) /\ changes \in Seq(Change)
    BY <1>1, EmptySurface
<1> QED
    BY <1>1, <1>2 DEF SurfaceInv, SurfaceWhole
-----------------------------------------------------------------------------
\* What is bootstrapped, quote by quote.
Surface(s) ==
    /\ \E R, C, B, H : s \in [rows : R, curves : C, strike : B, changes : H]
    /\ Whole(s.rows, s.curves) /\ s.changes \in Seq(Change)
    /\ Recalls(s.rows, s.curves, s.changes)

\* A quote keeps it whole, and one after the other do.
LEMMA WithQuoteKeeps ==
    ASSUME NEW s, Surface(s), NEW quote \in Quote
    PROVE  Surface(WithQuote(s, quote))
<1>1. PICK R, C, B, H : s \in [rows : R, curves : C, strike : B, changes : H]
    BY DEF Surface
<1>2. CASE ~Put(quote)
    BY <1>2 DEF WithQuote
<1>3. CASE Put(quote)
  <2>1. PICK k, d, v : k = (IF quote.asset = "vol" THEN quote.key ELSE Half) /\ d = quote.at /\ v = quote.val
    OBVIOUS
  <2>2. k \in Key /\ d \in Date /\ v \in Value
    BY <2>1, SurfaceAssumption DEF Quote
  <2>3. PICK w : w = WithVol(s, k, d, v)
    OBVIOUS
  <2>4. PICK new : new = [key |-> k, at |-> d, val |-> v]
    OBVIOUS
  <2>5. new \in Change /\ new.key = k /\ new.at = d /\ new.val = v
    BY <2>2, <2>4 DEF Change
  <2>6. PICK r : r = WithQuote(s, quote)
    OBVIOUS
  <2>7. PICK b : b = IF quote.asset = "vol" THEN quote.strike ELSE w.strike
    OBVIOUS
  <2>8. /\ w.rows \in {w.rows} /\ w.changes = s.changes
        /\ w \in [rows : {w.rows}, curves : {w.curves}, strike : {w.strike}, changes : {w.changes}]
        /\ VolEffect(s.rows, s.curves, k, d, v, w.rows, w.curves)
    <3>1. PICK n : n = FirstFrom(s.rows, k)
      OBVIOUS
    <3>2. w = IF n <= Len(s.rows) /\ s.rows[n].key = k
              THEN [s EXCEPT !.curves[s.rows[n].curve] = CurveAdd(@, d, v)]
              ELSE [s EXCEPT !.rows = InsertAt(@, n, Row(k, Len(s.curves) + 1)),
                             !.curves = Append(@, CurveAdd(<<>>, d, v))]
      BY <2>3, <3>1 DEF WithVol, FirstFrom
    <3>3. CASE n <= Len(s.rows) /\ s.rows[n].key = k
      BY <1>1, <3>1, <3>2, <3>3 DEF VolEffect
    <3>4. CASE ~(n <= Len(s.rows) /\ s.rows[n].key = k)
      BY <1>1, <3>1, <3>2, <3>4 DEF VolEffect
    <3> QED
      BY <3>3, <3>4
  <2>9. r = [w EXCEPT !.strike = b, !.changes = Append(w.changes, new)]
    <3>1. WithQuote(s, quote) =
            [w EXCEPT !.strike = IF quote.asset = "vol" THEN quote.strike ELSE @,
                      !.changes = Append(@, [key |-> k, at |-> quote.at, val |-> quote.val])]
      BY <1>3, <2>1, <2>3 DEF WithQuote
    <3> QED
      BY <2>1, <2>4, <2>6, <2>7, <2>8, <3>1
  <2>10. /\ r \in [rows : {w.rows}, curves : {w.curves}, strike : {b}, changes : {Append(w.changes, new)}]
         /\ r.rows = w.rows /\ r.curves = w.curves /\ r.changes = Append(s.changes, new)
    BY <2>8, <2>9
  <2>11. /\ Whole(w.rows, w.curves) /\ Recalls(w.rows, w.curves, Append(s.changes, new))
         /\ Append(s.changes, new) \in Seq(Change)
    BY <2>2, <2>5, <2>8, VolKeeps DEF Surface
  <2>12. \E RR, CC, BB, HH : r \in [rows : RR, curves : CC, strike : BB, changes : HH]
    BY <2>10
  <2> QED
    BY <2>6, <2>10, <2>11, <2>12 DEF Surface
<1> QED
    BY <1>2, <1>3

\* The function that builds it, up to some quote.
BuiltBy(f, n, quotes) ==
    f = [i \in 0..n |->
            IF i = 0 THEN [rows |-> <<>>, curves |-> <<>>, strike |-> FALSE, changes |-> <<>>]
            ELSE WithQuote(f[i-1], quotes[i])]

LEMMA BuiltUpTo ==
    ASSUME NEW quotes, Len(quotes) \in Nat
    PROVE  \E f : BuiltBy(f, Len(quotes), quotes)
<1> DEFINE a == [rows |-> <<>>, curves |-> <<>>, strike |-> FALSE, changes |-> <<>>]
           S == {n \in 0..Len(quotes) : \E f : BuiltBy(f, n, quotes)}
<1>1. 0 \in S
  <2> DEFINE f == [i \in 0..0 |-> a]
  <2>1. \A i \in 0..0 : i = 0
    OBVIOUS
  <2>2. f = [i \in 0..0 |-> IF i = 0 THEN a ELSE WithQuote(f[i-1], quotes[i])]
    BY <2>1
  <2> HIDE DEF f
  <2>3. BuiltBy(f, 0, quotes)
    BY <2>2 DEF BuiltBy
  <2> QED
    BY <2>3
<1>2. ASSUME NEW n \in 1..Len(quotes), n - 1 \in S PROVE n \in S
  <2>1. PICK f : BuiltBy(f, n - 1, quotes)
    BY <1>2
  <2> DEFINE g == [i \in 0..n |-> IF i < n THEN f[i] ELSE WithQuote(f[n-1], quotes[n])]
  <2>2. ASSUME NEW i \in 0..n
        PROVE  g[i] = IF i = 0 THEN a ELSE WithQuote(g[i-1], quotes[i])
    <3>1. CASE i = 0
      <4>1. g[0] = f[0] /\ 0 \in 0..n-1
        OBVIOUS
      <4>2. f[0] = a
        BY <2>1, <4>1 DEF BuiltBy
      <4> QED
        BY <3>1, <4>1, <4>2
    <3>2. CASE i \in 1..n-1
      <4>1. g[i] = f[i] /\ g[i-1] = f[i-1] /\ i \in 0..n-1 /\ i # 0
        BY <3>2
      <4>2. f[i] = WithQuote(f[i-1], quotes[i])
        BY <2>1, <4>1 DEF BuiltBy
      <4> QED
        BY <4>1, <4>2
    <3>3. CASE i = n
      <4>1. n \in 0..n /\ n # 0 /\ n - 1 \in 0..n /\ n - 1 < n /\ ~(n < n)
        OBVIOUS
      <4>2. g[n-1] = f[n-1] /\ g[n] = WithQuote(f[n-1], quotes[n])
        BY <4>1
      <4> HIDE DEF g
      <4> QED
        BY <3>3, <4>1, <4>2
    <3> QED
      BY <3>1, <3>2, <3>3
  <2>3. g = [i \in 0..n |-> g[i]]
    OBVIOUS
  <2> HIDE DEF g
  <2>4. BuiltBy(g, n, quotes)
    BY <2>2, <2>3 DEF BuiltBy
  <2> QED
    BY <2>4
<1> HIDE DEF S
<1>3. Len(quotes) \in S
  <2>1. 0..Len(quotes) \subseteq S
    BY <1>1, <1>2, Upwards
  <2> QED
    BY <2>1
<1> QED
    BY <1>3 DEF S

LEMMA BootstrappedIs ==
    ASSUME NEW quotes \in Quotes
    PROVE  Surface(Bootstrapped(quotes))
<1>1. Len(quotes) \in Nat /\ \A i \in 1..Len(quotes) : quotes[i] \in Quote
  <2>1. PICK X : X = Quote
    OBVIOUS
  <2>2. quotes \in Seq(X)
    BY <2>1, QuotesAssumption
  <2>3. Len(quotes) \in Nat /\ \A i \in 1..Len(quotes) : quotes[i] \in X
    BY <2>2, ElementOfSeq
  <2> QED
    BY <2>1, <2>3
<1> DEFINE a == [rows |-> <<>>, curves |-> <<>>, strike |-> FALSE, changes |-> <<>>]
           N == Len(quotes)
           K == CHOOSE f : BuiltBy(f, Len(quotes), quotes)
<1>2. BuiltBy(K, Len(quotes), quotes)
    BY <1>1, BuiltUpTo
<1>3. Bootstrapped(quotes) = K[Len(quotes)]
    BY DEF Bootstrapped, BuiltBy
<1> HIDE DEF K
<1>4. Surface(a)
  <2>1. a \in [rows : {a.rows}, curves : {a.curves}, strike : {a.strike}, changes : {a.changes}]
    OBVIOUS
  <2>2. a.rows = <<>> /\ a.curves = <<>> /\ a.changes = <<>>
    OBVIOUS
  <2>3. \E R, C, B, H : a \in [rows : R, curves : C, strike : B, changes : H]
    BY <2>1
  <2> HIDE DEF a
  <2> QED
    BY <2>2, <2>3, EmptySurface DEF Surface
<1> DEFINE S == {n \in 0..Len(quotes) : Surface(K[n])}
<1>5. 0 \in S
  <2>1. 0 \in 0..Len(quotes)
    BY <1>1
  <2>2. K[0] = a
    BY <1>2, <2>1 DEF BuiltBy
  <2> HIDE DEF a
  <2> QED
    BY <1>4, <2>1, <2>2
<1>6. ASSUME NEW n \in 1..Len(quotes), n - 1 \in S PROVE n \in S
  <2>1. n \in 0..Len(quotes) /\ n # 0
    BY <1>1
  <2>2. K[n] = WithQuote(K[n-1], quotes[n])
    BY <1>2, <2>1 DEF BuiltBy
  <2>3. Surface(K[n])
    BY <1>1, <1>6, <2>2, WithQuoteKeeps
  <2> QED
    BY <2>1, <2>3
<1> HIDE DEF S
<1>7. Len(quotes) \in S
  <2>1. 0..Len(quotes) \subseteq S
    BY <1>1, <1>5, <1>6, Upwards
  <2> QED
    BY <1>1, <2>1
<1> QED
    BY <1>3, <1>7 DEF S

LEMMA BootstrapInv == ASSUME SurfaceInv, NEW quotes \in Quotes, Bootstrap(quotes) PROVE SurfaceInv'
<1> SUFFICES ASSUME ~again, again' = again PROVE SurfaceWhole'
    BY DEF SurfaceInv, Bootstrap
<1>1. PICK s : s = Bootstrapped(quotes)
    OBVIOUS
<1>2. Surface(s)
    BY <1>1, BootstrappedIs
<1>3. rows' = s.rows /\ curves' = s.curves /\ changes' = s.changes /\ dead' = dead /\ changes = <<>>
    BY <1>1 DEF Bootstrap
<1>4. dead = {}
    BY <1>3 DEF SurfaceInv, SurfaceWhole
<1> QED
    BY <1>2, <1>3, <1>4 DEF SurfaceWhole, Surface

LEMMA SurfaceStepInv == ASSUME SurfaceInv, [SurfaceNext]_surfaceVars PROVE SurfaceInv'
<1>1. CASE UNCHANGED surfaceVars
    BY <1>1 DEF surfaceVars, SurfaceInv, SurfaceWhole
<1>2. ASSUME NEW k \in Key, NEW d \in Maturity, NEW v \in Value, SetVolatility(k, d, v) PROVE SurfaceInv'
  <2>1. d \in Date
    BY SurfaceAssumption
  <2> QED
    BY <1>2, <2>1, SetVolatilityInv
<1>3. ASSUME NEW k \in Key, NEW t \in Given, AddNew(k, t) PROVE SurfaceInv'
    BY <1>3, AddNewInv
<1>4. ASSUME NEW k \in Key, NEW i \in DOMAIN rows, AddSame(k, i) PROVE SurfaceInv'
    BY <1>4, AddSameInv
<1>5. CASE CloneSurface
    BY <1>5, CloneSurfaceInv
<1>6. ASSUME NEW quotes \in Quotes, Bootstrap(quotes) PROVE SurfaceInv'
    BY <1>6, BootstrapInv
<1>7. CASE FreeSurface
    BY <1>7, FreeSurfaceInv
<1> QED
    BY <1>1, <1>2, <1>3, <1>4, <1>5, <1>6, <1>7 DEF SurfaceNext

\* A surface stays whole.
THEOREM SurfaceInvariance == SurfaceSpec => []SurfaceInv
<1>1. SurfaceInit => SurfaceInv
    BY SurfaceInitInv
<1>2. SurfaceInv /\ [SurfaceNext]_surfaceVars => SurfaceInv'
    BY SurfaceStepInv
<1> QED
    BY <1>1, <1>2, PTL DEF SurfaceSpec
-----------------------------------------------------------------------------
\* The nearest row below a key, or at it, and the nearest one above.
LEMMA NearestAbove ==
    ASSUME NEW rws \in Rows, Rising(rws), NEW k \in Int, NEW n, Divides(rws, k, n),
           NEW i \in 1..Len(rws)
    PROVE  (rws[i].key >= k /\ \A j \in 1..Len(rws) : rws[j].key >= k => rws[j].key >= rws[i].key)
                <=> i = n
<1>1. /\ Len(rws) \in Nat
      /\ \A j \in 1..Len(rws) : rws[j].key \in Int
    BY RowFields
<1>2. n \in 1..Len(rws)+1
    BY DEF Divides
<1>3. ASSUME i = n
      PROVE  rws[i].key >= k /\ \A j \in 1..Len(rws) : rws[j].key >= k => rws[j].key >= rws[i].key
  <2>1. rws[i].key >= k
    BY <1>1, <1>2, <1>3 DEF Divides
  <2>2. ASSUME NEW j \in 1..Len(rws), rws[j].key >= k PROVE rws[j].key >= rws[i].key
    <3>1. ~(j < n)
      BY <1>1, <2>2 DEF Divides
    <3>2. j = i \/ i < j
      BY <1>2, <1>3, <3>1
    <3> QED
      BY <1>1, <3>2 DEF Rising
  <2> QED
    BY <2>1, <2>2
<1>4. ASSUME rws[i].key >= k, \A j \in 1..Len(rws) : rws[j].key >= k => rws[j].key >= rws[i].key
      PROVE  i = n
  <2>1. ~(i < n)
    BY <1>1, <1>4 DEF Divides
  <2>2. n \in 1..Len(rws)
    BY <1>1, <1>2, <2>1
  <2>3. rws[n].key >= rws[i].key
    BY <1>4, <2>2 DEF Divides
  <2>4. ~(n < i)
    BY <1>1, <2>2, <2>3 DEF Rising
  <2> QED
    BY <2>1, <2>2, <2>4
<1> QED
    BY <1>3, <1>4

LEMMA NearestBelow ==
    ASSUME NEW rws \in Rows, Rising(rws), NEW k \in Int, NEW n, Divides(rws, k, n),
           NEW i \in 1..Len(rws), NEW m,
           m = IF n <= Len(rws) /\ rws[n].key = k THEN n ELSE n - 1
    PROVE  (rws[i].key <= k /\ \A j \in 1..Len(rws) : rws[j].key <= k => rws[j].key <= rws[i].key)
                <=> i = m
<1>1. /\ Len(rws) \in Nat
      /\ \A j \in 1..Len(rws) : rws[j].key \in Int
    BY RowFields
<1>2. n \in 1..Len(rws)+1 /\ m \in 0..Len(rws)
    BY <1>1 DEF Divides
<1>3. ASSUME NEW j \in 1..Len(rws) PROVE rws[j].key <= k <=> j <= m
  <2>1. CASE j < n
    <3>1. rws[j].key < k /\ j <= m
      BY <1>2, <2>1 DEF Divides
    <3> QED
      BY <1>1, <3>1
  <2>2. CASE j = n
    <3>1. rws[n].key >= k /\ n \in 1..Len(rws)
      BY <2>2 DEF Divides
    <3>2. rws[n].key = k <=> n <= m
      BY <3>1
    <3> QED
      BY <1>1, <2>2, <3>1, <3>2
  <2>3. CASE j > n
    <3>1. n \in 1..Len(rws) /\ rws[n].key >= k
      BY <1>1, <1>2, <2>3 DEF Divides
    <3>2. rws[n].key < rws[j].key
      BY <2>3, <3>1 DEF Rising
    <3>3. ~(j <= m)
      BY <1>2, <2>3
    <3> QED
      BY <1>1, <3>1, <3>2, <3>3
  <2> QED
    BY <1>2, <2>1, <2>2, <2>3
<1>4. ASSUME i = m
      PROVE  rws[i].key <= k /\ \A j \in 1..Len(rws) : rws[j].key <= k => rws[j].key <= rws[i].key
  <2>1. rws[i].key <= k
    BY <1>2, <1>3, <1>4
  <2>2. ASSUME NEW j \in 1..Len(rws), rws[j].key <= k PROVE rws[j].key <= rws[i].key
    <3>1. j = i \/ j < i
      BY <1>2, <1>3, <1>4, <2>2
    <3> QED
      BY <1>1, <3>1 DEF Rising
  <2> QED
    BY <2>1, <2>2
<1>5. ASSUME rws[i].key <= k, \A j \in 1..Len(rws) : rws[j].key <= k => rws[j].key <= rws[i].key
      PROVE  i = m
  <2>1. i <= m /\ m \in 1..Len(rws)
    BY <1>2, <1>3, <1>5
  <2>2. rws[m].key <= rws[i].key
    BY <1>3, <1>5, <2>1
  <2>3. ~(i < m)
    BY <1>1, <2>1, <2>2 DEF Rising
  <2> QED
    BY <2>1, <2>3
<1> QED
    BY <1>4, <1>5

\* The nearest rows, by the place of the key.
LEMMA NearestRowsAre ==
    ASSUME rows \in Rows, Rising(rows), NEW k \in Int, NEW n, Divides(rows, k, n)
    PROVE  /\ n <= Len(rows) /\ rows[n].key = k => NearestRows(k) = {n}
           /\ n <= Len(rows) /\ rows[n].key # k /\ n = 1 => NearestRows(k) = {1}
           /\ n <= Len(rows) /\ rows[n].key # k /\ n # 1 => NearestRows(k) = {n-1, n}
           /\ n > Len(rows) /\ rows = <<>> => NearestRows(k) = {}
           /\ n > Len(rows) /\ rows # <<>> => NearestRows(k) = {Len(rows)}
<1>1. Len(rows) \in Nat /\ DOMAIN rows = 1..Len(rows)
    BY RowFields
<1>2. n \in 1..Len(rows)+1
    BY DEF Divides
<1>3. PICK m : m = IF n <= Len(rows) /\ rows[n].key = k THEN n ELSE n - 1
    OBVIOUS
<1>4. \A i \in 1..Len(rows) :
        /\ (rows[i].key >= k /\ \A j \in 1..Len(rows) : rows[j].key >= k => rows[j].key >= rows[i].key)
                <=> i = n
        /\ (rows[i].key <= k /\ \A j \in 1..Len(rows) : rows[j].key <= k => rows[j].key <= rows[i].key)
                <=> i = m
    BY <1>3, NearestAbove, NearestBelow
<1>5. NearestRows(k) = {i \in 1..Len(rows) : i = m \/ i = n}
    BY <1>1, <1>4 DEF NearestRows
<1>6. rows = <<>> <=> Len(rows) = 0
    BY DEF Rows
<1> QED
    BY <1>1, <1>2, <1>3, <1>5, <1>6

\* A curve that is not empty answers with entries of its own.
LEMMA GotSome ==
    ASSUME NEW t \in Seq(Entry), Ordered(t, FALSE), t # <<>>, NEW d \in Int
    PROVE  UpTo(t, d) # {} /\ UpTo(t, d) \subseteq Entry
<1>1. Len(t) \in Nat /\ Len(t) # 0
    BY Entries
<1>2. \A i \in 1..Len(t) : t[i] \in Entry
    BY ElementOfSeq
<1>3. PICK n : n = After(t, d)
    OBVIOUS
<1>4. n \in 1..Len(t)+1
    BY <1>3, AfterIs DEF Splits
<1>5. CASE n = 1
  <2>1. UpTo(t, d) = {t[1]} /\ 1 \in 1..Len(t)
    BY <1>1, <1>3, <1>5 DEF UpTo
  <2> QED
    BY <1>2, <2>1
<1>6. CASE n # 1 /\ n > Len(t)
  <2>1. UpTo(t, d) = {t[Len(t)]} /\ Len(t) \in 1..Len(t)
    BY <1>1, <1>3, <1>6 DEF UpTo
  <2> QED
    BY <1>2, <2>1
<1>7. CASE n # 1 /\ ~(n > Len(t))
  <2>1. UpTo(t, d) = Interpolated(d, t[n-1], t[n])
    BY <1>3, <1>7 DEF UpTo
  <2>2. t[n-1] \in Entry /\ t[n] \in Entry
    BY <1>1, <1>2, <1>4, <1>7
  <2> QED
    BY <2>1, <2>2 DEF Interpolated
<1> QED
    BY <1>5, <1>6, <1>7

LEMMA GarbageIsNone == Garbage \notin Entry
<1>1. \A e \in Entry : e.at \in Date
    BY DEF Entry
<1>2. Garbage.at = None
    BY DEF Garbage
<1> QED
    BY <1>1, <1>2, NoneAssumption

Full == \A i \in DOMAIN rows : Curve(i) # <<>>

LEMMA WholeRows ==
    ASSUME SurfaceWhole
    PROVE  /\ rows \in Rows /\ Rising(rows) /\ Len(rows) \in Nat /\ DOMAIN rows = 1..Len(rows)
           /\ \A i \in 1..Len(rows) : /\ Curve(i) \in Seq(Entry) /\ Ordered(Curve(i), FALSE)
                                      /\ rows[i].key \in Key /\ rows[i].key \in Int
<1>1. Whole(rows, curves)
    BY DEF SurfaceWhole
<1>2. rows \in Rows /\ Rising(rows)
    BY <1>1 DEF Whole, Rising
<1>3. ASSUME NEW i \in 1..Len(rows) PROVE Curve(i) \in Seq(Entry) /\ Ordered(Curve(i), FALSE)
  <2>1. PICK X : X = Seq(Entry)
    OBVIOUS
  <2>2. curves \in Seq(X)
    BY <1>1, <2>1 DEF Whole
  <2>3. rows[i].curve \in 1..Len(curves)
    BY <1>1 DEF Whole
  <2>4. curves[rows[i].curve] \in X
    BY <2>2, <2>3, ElementOfSeq
  <2>5. Ordered(curves[rows[i].curve], FALSE)
    BY <1>1, <2>3 DEF Whole
  <2> QED
    BY <2>1, <2>4, <2>5 DEF Curve
<1> QED
    BY <1>2, <1>3, RowFields

LEMMA FullGot ==
    ASSUME SurfaceWhole, Full, NEW d \in Date, NEW i \in 1..Len(rows)
    PROVE  Got(i, d) # {} /\ Got(i, d) \subseteq Entry /\ Held(i, d) = Got(i, d)
<1>1. Curve(i) \in Seq(Entry) /\ Ordered(Curve(i), FALSE) /\ Curve(i) # <<>>
    BY WholeRows DEF Full
<1>2. d \in Int
    BY DateAssumption
<1>3. Got(i, d) # {} /\ Got(i, d) \subseteq Entry
    BY <1>1, <1>2, GotSome DEF Got
<1> QED
    BY <1>3 DEF Held

\* A volatility is read off the nearest rows, none of which is a variable that was not
\* set.
LEMMA ReadsRows ==
    ASSUME SurfaceWhole, Full, NEW k \in Key, NEW d \in Date
    PROVE  SurfaceVolatility(k, d) = UNION {Got(i, d) : i \in NearestRows(k)}
<1>1. /\ rows \in Rows /\ Rising(rows) /\ Len(rows) \in Nat /\ DOMAIN rows = 1..Len(rows)
      /\ k \in Int /\ (rows = <<>> <=> Len(rows) = 0)
    BY WholeRows, SurfaceAssumption DEF Rows
<1>2. PICK n : n = FirstFrom(rows, k)
    OBVIOUS
<1>3. Divides(rows, k, n) /\ n \in 1..Len(rows)+1
    BY <1>1, <1>2, FirstFromIs DEF Divides
<1>4. RowOf(k) = n /\ (HasRow(k) <=> n <= Len(rows) /\ rows[n].key = k)
    BY <1>1, <1>2, <1>3, RowOfIs
<1>5. \A i \in 1..Len(rows) : Got(i, d) # {} /\ Held(i, d) = Got(i, d)
    BY FullGot
<1>6. PICK last : last = IF rows = <<>> THEN {} ELSE Got(Len(rows), d)
    OBVIOUS
<1>7. PICK got : got = IF n > Len(rows) THEN {}
               ELSE IF ~HasRow(k) THEN IF n = 1 THEN Got(1, d) ELSE Between(n-1, k, d)
               ELSE IF rates /\ n < Len(rows) THEN Between(n, k, d)
               ELSE Got(n, d)
    OBVIOUS
<1>8. SurfaceVolatility(k, d) = IF got = {} THEN last ELSE got
    BY <1>4, <1>6, <1>7 DEF SurfaceVolatility
<1>9. CASE n > Len(rows)
  <2>1. SurfaceVolatility(k, d) = last
    BY <1>7, <1>8, <1>9
  <2>2. CASE rows = <<>>
    <3>1. NearestRows(k) = {}
      BY <1>1, <1>3, <1>9, <2>2, NearestRowsAre
    <3> QED
      BY <1>6, <2>1, <2>2, <3>1
  <2>3. CASE rows # <<>>
    <3>1. NearestRows(k) = {Len(rows)}
      BY <1>1, <1>3, <1>9, <2>3, NearestRowsAre
    <3> QED
      BY <1>6, <2>1, <2>3, <3>1
  <2> QED
    BY <2>2, <2>3
<1>10. CASE n <= Len(rows) /\ rows[n].key = k
  <2>1. n \in 1..Len(rows) /\ HasRow(k) /\ ~(n > Len(rows))
    BY <1>1, <1>3, <1>4, <1>10
  <2>2. got = Got(n, d)
    <3>1. CASE rates /\ n < Len(rows)
      <4>1. n + 1 \in 1..Len(rows)
        BY <1>1, <2>1, <3>1
      <4>2. Got(n+1, d) # {} /\ Held(n, d) = Got(n, d)
        BY <1>5, <2>1, <4>1
      <4>3. got = Between(n, k, d)
        BY <1>7, <2>1, <3>1
      <4> QED
        BY <1>10, <4>2, <4>3 DEF Between
    <3>2. CASE ~(rates /\ n < Len(rows))
      BY <1>7, <2>1, <3>2
    <3> QED
      BY <3>1, <3>2
  <2>3. SurfaceVolatility(k, d) = Got(n, d)
    BY <1>5, <1>8, <2>1, <2>2
  <2>4. NearestRows(k) = {n}
    BY <1>1, <1>3, <1>10, NearestRowsAre
  <2> QED
    BY <2>3, <2>4
<1>11. CASE n <= Len(rows) /\ rows[n].key # k /\ n = 1
  <2>1. 1 \in 1..Len(rows) /\ ~HasRow(k) /\ ~(n > Len(rows))
    BY <1>1, <1>3, <1>4, <1>11
  <2>2. got = Got(1, d)
    BY <1>7, <1>11, <2>1
  <2>3. SurfaceVolatility(k, d) = Got(1, d)
    BY <1>5, <1>8, <2>1, <2>2
  <2>4. NearestRows(k) = {1}
    BY <1>1, <1>3, <1>11, NearestRowsAre
  <2> QED
    BY <2>3, <2>4
<1>12. CASE n <= Len(rows) /\ rows[n].key # k /\ n # 1
  <2>1. n \in 1..Len(rows) /\ n - 1 \in 1..Len(rows) /\ ~HasRow(k) /\ ~(n > Len(rows)) /\ (n - 1) + 1 = n
    BY <1>1, <1>3, <1>4, <1>12
  <2>2. got = Between(n-1, k, d)
    BY <1>7, <1>12, <2>1
  <2>3. k # rows[n-1].key
    <3>1. rows[n-1].key < k /\ rows[n-1].key \in Int
      <4>1. \A j \in 1..Len(rows) : j < n => rows[j].key < k
        BY <1>3 DEF Divides
      <4>2. n - 1 < n
        BY <2>1
      <4>3. rows[n-1].key < k
        BY <2>1, <4>1, <4>2
      <4>4. rows[n-1].key \in Int
        BY <2>1, WholeRows
      <4> QED
        BY <4>3, <4>4
    <3> QED
      BY <1>1, <3>1
  <2>4. Between(n-1, k, d) = Held(n-1, d) \cup Held(n, d)
    BY <2>1, <2>3 DEF Between
  <2>5. got = Got(n-1, d) \cup Got(n, d) /\ Got(n, d) # {}
    BY <1>5, <2>1, <2>2, <2>4
  <2>6. SurfaceVolatility(k, d) = Got(n-1, d) \cup Got(n, d)
    BY <1>8, <2>5
  <2>7. NearestRows(k) = {n-1, n}
    BY <1>1, <1>3, <1>12, NearestRowsAre
  <2> QED
    BY <2>6, <2>7
<1> QED
    BY <1>1, <1>3, <1>9, <1>10, <1>11, <1>12

LEMMA NoGarbage ==
    ASSUME SurfaceWhole, Full, NEW k \in Key, NEW d \in Date
    PROVE  Garbage \notin SurfaceVolatility(k, d)
<1>1. \A i \in NearestRows(k) : Got(i, d) \subseteq Entry
  <2>1. NearestRows(k) \subseteq 1..Len(rows)
    BY WholeRows DEF NearestRows
  <2> QED
    BY <2>1, FullGot
<1> QED
    BY <1>1, ReadsRows, GarbageIsNone

LEMMA OnceAlone ==
    ASSUME NEW t \in Seq(Entry), NEW d, Cardinality({j \in DOMAIN t : t[j].at = d}) = 1,
           NEW m \in 1..Len(t), t[m].at = d
    PROVE  Alone(t, m)
<1>1. Len(t) \in Nat /\ DOMAIN t = 1..Len(t)
    BY Entries
<1>2. PICK S : S = {j \in 1..Len(t) : t[j].at = d}
    OBVIOUS
<1>3. IsFiniteSet(S)
  <2>1. IsFiniteSet(1..Len(t))
    BY <1>1, FS_Interval
  <2> QED
    BY <1>2, <2>1, FS_Subset
<1>4. Cardinality(S) = 1
    BY <1>1, <1>2
<1>5. PICK x : S = {x}
    BY <1>3, <1>4, FS_Singleton
<1> QED
    BY <1>2, <1>5 DEF Alone

LEMMA LastSome ==
    ASSUME NEW ch \in Seq(Change), NEW k, NEW d, LastOf(ch, k, d) # {}
    PROVE  \E v : LastOf(ch, k, d) = {v}
<1>1. PICK n \in 0..Len(ch) :
            /\ n # 0 => Matters(ch[n], k, d)
            /\ \A j \in 1..Len(ch) : j > n => ~Matters(ch[j], k, d)
    BY LastExists
<1>2. LastOf(ch, k, d) = IF n = 0 \/ ch[n].at = None THEN {} ELSE {ch[n].val}
    BY <1>1, LastIs
<1> QED
    BY <1>2

\* What was set last for a key and a date is what is read there.
LEMMA ReadsLast ==
    ASSUME SurfaceWhole, NEW i \in 1..Len(rows), NEW d \in Date, Full \/ ~rates,
           NEW last, last = LastOf(changes, rows[i].key, d), last # {},
           Cardinality({j \in DOMAIN Curve(i) : Curve(i)[j].at = d}) = 1
    PROVE  {last} = {e.val : e \in SurfaceVolatility(rows[i].key, d)}
<1>1. PICK k : k = rows[i].key
    OBVIOUS
<1>2. /\ rows \in Rows /\ Rising(rows) /\ Len(rows) \in Nat /\ DOMAIN rows = 1..Len(rows)
      /\ k \in Key /\ k \in Int /\ changes \in Seq(Change) /\ Recalls(rows, curves, changes)
    BY <1>1, WholeRows DEF SurfaceWhole
<1>3. Divides(rows, k, FirstFrom(rows, k))
    BY <1>2, FirstFromIs
<1>4. FirstFrom(rows, k) = i
    BY <1>1, <1>2, <1>3, RowIs
<1>5. RowOf(k) = i /\ HasRow(k)
    BY <1>1, <1>2, <1>4, RowOfIs
<1>6. PICK v : last = {v} /\ LastOf(changes, k, d) = {v}
    BY <1>1, <1>2, LastSome
<1>7. PICK t : t = Curve(i) /\ t \in Seq(Entry) /\ Ordered(t, FALSE)
    BY WholeRows
<1>8. Shows(t, d, {v})
  <2>1. \A w : LastOf(changes, k, d) = {w} =>
            \E j \in 1..Len(rows) : rows[j].key = k /\ Shows(curves[rows[j].curve], d, {w})
    <3>1. Recalls(rows, curves, changes) /\ k \in Key
      BY <1>2
    <3> QED
      BY ONLY <3>1, d \in Date, Zenon DEF Recalls
  <2>2. LastOf(changes, k, d) = {v}
    BY <1>6
  <2>3. \E j \in 1..Len(rows) : rows[j].key = k /\ Shows(curves[rows[j].curve], d, {v})
    BY ONLY <2>1, <2>2, Zenon
  <2>4. PICK j \in 1..Len(rows) : rows[j].key = k /\ Shows(curves[rows[j].curve], d, {v})
    BY <2>3
  <2>5. j = i
    BY <1>2, <1>3, <1>4, <2>4, RowIs
  <2> QED
    BY <1>7, <2>4, <2>5 DEF Curve
<1>9. PICK m \in 1..Len(t) : t[m].at = d /\ t[m].val = {v}
    BY <1>8 DEF Shows
<1>10. Alone(t, m)
    BY <1>7, <1>9, OnceAlone
<1>11. Got(i, d) = {t[m]}
    BY <1>7, <1>9, <1>10, UpToAt DEF Got
<1>12. SurfaceVolatility(k, d) = {t[m]}
  <2>1. PICK last2 : last2 = IF rows = <<>> THEN {} ELSE Got(Len(rows), d)
    OBVIOUS
  <2>2. PICK got : got = IF rates /\ i < Len(rows) THEN Between(i, k, d) ELSE Got(i, d)
    OBVIOUS
  <2>3. ~(i > Len(rows))
    BY <1>2
  <2>4. SurfaceVolatility(k, d) = IF got = {} THEN last2 ELSE got
    BY <1>5, <2>1, <2>2, <2>3 DEF SurfaceVolatility
  <2>5. got = {t[m]}
    <3>1. CASE rates /\ i < Len(rows)
      <4>1. i + 1 \in 1..Len(rows)
        BY <1>2, <3>1
      <4>2. Got(i+1, d) # {} /\ Held(i, d) = Got(i, d)
        BY <3>1, <4>1, FullGot
      <4> QED
        BY <1>1, <1>11, <2>2, <3>1, <4>2 DEF Between
    <3>2. CASE ~(rates /\ i < Len(rows))
      BY <1>11, <2>2, <3>2
    <3> QED
      BY <3>1, <3>2
  <2> QED
    BY <2>4, <2>5
<1>13. \A x : {e.val : e \in {x}} = {x.val}
    OBVIOUS
<1>14. {e.val : e \in SurfaceVolatility(k, d)} = {t[m].val}
    BY <1>12, <1>13
<1> QED
    BY <1>1, <1>6, <1>9, <1>14

LEMMA SurfaceReadsNow == ASSUME SurfaceInv PROVE SurfaceReads
<1> SUFFICES ASSUME ~again
             PROVE  /\ \A i \in 2..Len(rows) : rows[i-1].key < rows[i].key
                    /\ \A k \in Key, d \in Maturity :
                          /\ Full => SurfaceVolatility(k, d) = UNION {Got(i, d) : i \in NearestRows(k)}
                          /\ Garbage \in SurfaceVolatility(k, d) => ~Full
                    /\ \A i \in DOMAIN rows, d \in Maturity :
                          LET last == LastSet(rows[i].key, d)
                              once == Cardinality({j \in DOMAIN Curve(i) : Curve(i)[j].at = d}) = 1
                          IN last # {} /\ once /\ (Full \/ ~rates) =>
                                {last} = {e.val : e \in SurfaceVolatility(rows[i].key, d)}
    BY DEF SurfaceReads, Full
<1>1. SurfaceWhole /\ rows \in Rows /\ Rising(rows) /\ Len(rows) \in Nat /\ DOMAIN rows = 1..Len(rows)
    BY WholeRows DEF SurfaceInv
<1>2. \A d \in Maturity : d \in Date
    BY SurfaceAssumption
<1>3. \A i \in 2..Len(rows) : rows[i-1].key < rows[i].key
    BY <1>1 DEF Rising
<1>4. ASSUME NEW k \in Key, NEW d \in Maturity
      PROVE  /\ Full => SurfaceVolatility(k, d) = UNION {Got(i, d) : i \in NearestRows(k)}
             /\ Garbage \in SurfaceVolatility(k, d) => ~Full
  <2>1. d \in Date
    BY <1>2
  <2>2. Full => SurfaceVolatility(k, d) = UNION {Got(i, d) : i \in NearestRows(k)}
    BY <1>1, <2>1, ReadsRows
  <2>3. Full => Garbage \notin SurfaceVolatility(k, d)
    BY <1>1, <2>1, NoGarbage
  <2> QED
    BY <2>2, <2>3
<1>5. ASSUME NEW i \in DOMAIN rows, NEW d \in Maturity, LastSet(rows[i].key, d) # {},
             Cardinality({j \in DOMAIN Curve(i) : Curve(i)[j].at = d}) = 1, Full \/ ~rates
      PROVE  {LastSet(rows[i].key, d)} = {e.val : e \in SurfaceVolatility(rows[i].key, d)}
  <2>1. LastSet(rows[i].key, d) = LastOf(changes, rows[i].key, d)
    BY DEF LastSet, LastOf
  <2>2. PICK last : last = LastSet(rows[i].key, d)
    OBVIOUS
  <2>3. i \in 1..Len(rows) /\ d \in Date
    BY <1>1, <1>2
  <2>4. {last} = {e.val : e \in SurfaceVolatility(rows[i].key, d)}
    BY <1>1, <1>5, <2>1, <2>2, <2>3, ReadsLast
  <2> QED
    BY <2>2, <2>4
<1> QED
    BY <1>3, <1>4, <1>5

LEMMA RowsOwnedNow == ASSUME SurfaceInv PROVE RowsOwned
<1> SUFFICES ASSUME ~again
             PROVE  /\ \A i \in DOMAIN rows : rows[i].curve \notin dead
                    /\ \A i, j \in DOMAIN rows : rows[i].curve = rows[j].curve => i = j
    BY DEF RowsOwned
<1>1. SurfaceWhole /\ Whole(rows, curves) /\ DOMAIN rows = 1..Len(rows)
    BY WholeRows DEF SurfaceInv, SurfaceWhole
<1> QED
    BY <1>1 DEF SurfaceWhole, Whole

\* Tables and surfaces answer by the nearest dates and rows, and with what was set
\* last, and a surface uses no curve that was freed, whatever their sizes and however
\* long they are changed.
THEOREM NearestAnswered == Spec /\ SurfaceSpec => []AnswersNearest
<1>1. SurfaceInv => SurfaceReads /\ RowsOwned
    BY SurfaceReadsNow, RowsOwnedNow
<1>2. ReadsRight /\ SurfaceReads /\ RowsOwned => AnswersNearest
    BY DEF AnswersNearest
<1> QED
    BY ReadsAreRight, SurfaceInvariance, <1>1, <1>2, PTL
=============================================================================
