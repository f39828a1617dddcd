-------------------------- MODULE YieldCurveProofs --------------------------
(***************************************************************************)
(* Proofs about YieldCurve, for any curves, days, rates and array sizes: a *)
(* table has what it was last told of each day, in the order of days;      *)
(* asking a curve changes no answer; and what a curve answers is the rate  *)
(* drawn through what it was told, unless something was altered under a    *)
(* cache.  And about CurveStrip: what an instrument was stripped with is   *)
(* what the curve goes on to answer.                                       *)
(***************************************************************************)
EXTENDS YieldCurve, CurveStrip, Induction, SequenceTheorems, FiniteSetTheorems, TLAPS

Row == [day : EntryDays, value : Rates]
Told == [EntryDays -> Rates \cup {None}]

LEMMA Rows ==
    ASSUME NEW t \in Seq(Row)
    PROVE  /\ Len(t) \in Nat /\ DOMAIN t = 1..Len(t)
           /\ \A i \in 1..Len(t) : /\ t[i] \in Row /\ t[i].day \in EntryDays
                                   /\ t[i].day \in Int /\ t[i].value \in Rates
<1>1. Len(t) \in Nat /\ DOMAIN t = 1..Len(t) /\ \A i \in 1..Len(t) : t[i] \in Row
    OBVIOUS
<1>2. EntryDays \subseteq Int
    BY YieldConstants
<1> QED
    BY <1>1, <1>2 DEF Row

\* Entries with a day.
Dated(R) == \A r \in R : r.day \in Int

LEMMA DatedRow == Dated(Row)
<1>1. EntryDays \subseteq Int
    BY YieldConstants
<1> QED
    BY <1>1 DEF Dated, Row

\* What an insertion, a removal and a replacement leave at each place.
IsInserted(r, t, i, e, R) ==
    /\ r \in Seq(R) /\ Len(r) = Len(t) + 1
    /\ \A j \in 1..Len(t)+1 : r[j] = IF j < i THEN t[j] ELSE IF j = i THEN e ELSE t[j-1]

IsReplaced(r, t, i, e, R) ==
    /\ r \in Seq(R) /\ Len(r) = Len(t)
    /\ \A j \in 1..Len(t) : r[j] = IF j = i THEN e ELSE t[j]

LEMMA Inserted ==
    ASSUME NEW R, NEW t \in Seq(R), NEW i \in 1..Len(t)+1, NEW e \in R
    PROVE  IsInserted(InsertAt(t, i, e), t, i, e, R)
<1> DEFINE r == InsertAt(t, i, e)
           a == SubSeq(t, 1, i-1)
           b == SubSeq(t, i, Len(t))
<1>1. a \in Seq(R) /\ Len(a) = i - 1 /\ \A j \in 1..i-1 : a[j] = t[j]
    BY SMT
<1>2. b \in Seq(R) /\ Len(b) = Len(t) - i + 1 /\ \A j \in 1..Len(b) : b[j] = t[i + j - 1]
    BY SMT
<1>3. <<e>> \in Seq(R) /\ Len(<<e>>) = 1 /\ <<e>>[1] = e
    OBVIOUS
<1> DEFINE c == a \o <<e>>
<1>4. c \in Seq(R) /\ Len(c) = i /\ (\A j \in 1..i-1 : c[j] = t[j]) /\ c[i] = e
  <2>1. a \in Seq(R) /\ Len(a) = i - 1
    BY <1>1
  <2> HIDE DEF a
  <2>2. a \o <<e>> = Append(a, e)
    BY <2>1
  <2>3. Append(a, e) \in Seq(R) /\ Len(Append(a, e)) = i
    BY <2>1
  <2>4. Append(a, e)[i] = e /\ \A j \in 1..i-1 : Append(a, e)[j] = a[j]
    BY <2>1
  <2> QED
    BY <1>1, <2>2, <2>3, <2>4
<1>5. r = c \o b
    BY DEF InsertAt
<1> HIDE DEF r, a, b, c
<1>6. r \in Seq(R) /\ Len(r) = Len(t) + 1
    BY <1>2, <1>4, <1>5
<1>7. \A j \in 1..Len(t)+1 : r[j] = IF j <= i THEN c[j] ELSE b[j - i]
    BY <1>2, <1>4, <1>5
<1>8. ASSUME NEW j \in 1..Len(t)+1
      PROVE  r[j] = IF j < i THEN t[j] ELSE IF j = i THEN e ELSE t[j-1]
  <2>1. CASE j <= i
    BY <2>1, <1>4, <1>7
  <2>2. CASE j > i
    <3>1. j - i \in 1..Len(b) /\ i + (j - i) - 1 = j - 1
      BY <2>2, <1>2
    <3> QED
      BY <2>2, <3>1, <1>2, <1>7
  <2> QED
    BY <2>1, <2>2
<1> QED
    BY <1>6, <1>8 DEF r, IsInserted

LEMMA Removed ==
    ASSUME NEW t \in Seq(Row), NEW i \in 1..Len(t), NEW j \in i..Len(t)
    PROVE  /\ RemoveRange(t, i, j) \in Seq(Row) /\ Len(RemoveRange(t, i, j)) = Len(t) - (j - i + 1)
           /\ \A k \in 1..Len(RemoveRange(t, i, j)) : RemoveRange(t, i, j)[k] = IF k < i THEN t[k] ELSE t[k + (j - i + 1)]
<1> DEFINE r == RemoveRange(t, i, j)
           a == SubSeq(t, 1, i-1)
           b == SubSeq(t, j+1, Len(t))
<1>0. a \in Seq(Row) /\ b \in Seq(Row)
    BY SMT
<1>1. Len(a) = i - 1 /\ \A k \in 1..i-1 : a[k] = t[k]
    BY SMT
<1>2. Len(b) = Len(t) - j /\ \A k \in 1..Len(b) : b[k] = t[j + k]
    BY SMT
<1>3. r = a \o b
    BY DEF RemoveRange
<1> HIDE DEF r, a, b
<1>4. r \in Seq(Row) /\ Len(r) = Len(a) + Len(b)
    BY <1>0, <1>3
<1>n. Len(t) \in Nat /\ i \in Int /\ j \in Int /\ Len(r) = Len(t) - (j - i + 1)
    BY <1>1, <1>2, <1>4
<1>5. \A k \in 1..Len(r) : r[k] = IF k <= i - 1 THEN a[k] ELSE b[k - (i - 1)]
    BY <1>0, <1>1, <1>3, <1>4
<1>6. ASSUME NEW k \in 1..Len(r)
      PROVE  r[k] = IF k < i THEN t[k] ELSE t[k + (j - i + 1)]
  <2>1. CASE k < i
    BY <2>1, <1>1, <1>5
  <2>2. CASE k >= i
    <3>1. k - (i - 1) \in 1..Len(b) /\ j + (k - (i - 1)) = k + (j - i + 1)
      BY <2>2, <1>2, <1>n
    <3>2. r[k] = b[k - (i - 1)]
      BY <2>2, <1>5, <1>n
    <3>3. b[k - (i - 1)] = t[j + (k - (i - 1))]
      BY <3>1, <1>2
    <3> QED
      BY <2>2, <3>1, <3>2, <3>3, <1>n
  <2> QED
    BY <2>1, <2>2, <1>n
<1> QED
    BY <1>4, <1>6, <1>n DEF r

LEMMA Replaced ==
    ASSUME NEW R, NEW t \in Seq(R), NEW i \in 1..Len(t), NEW e \in R
    PROVE  IsReplaced(ReplaceAt(t, i, e), t, i, e, R)
<1> DEFINE r == ReplaceAt(t, i, e)
<1>n. Len(t) \in Nat /\ DOMAIN t = 1..Len(t) /\ \A j \in 1..Len(t) : t[j] \in R
    OBVIOUS
<1>1. r = [j \in 1..Len(t) |-> IF j = i THEN e ELSE t[j]]
    BY <1>n DEF ReplaceAt
<1> HIDE DEF r
<1>2. r \in [1..Len(t) -> R]
    BY <1>1, <1>n
<1>3. r \in Seq(R) /\ Len(r) = Len(t)
    BY <1>2, <1>n, SeqDef, LenProperties
<1>4. \A j \in 1..Len(t) : r[j] = IF j = i THEN e ELSE t[j]
    BY <1>1
<1> QED
    BY <1>3, <1>4 DEF r, IsReplaced
-----------------------------------------------------------------------------
\* An entry between those of the days before and those of the days after it keeps
\* the order.
LEMMA InsertedOrder ==
    ASSUME NEW R, Dated(R), NEW t \in Seq(R), InOrder(t), NEW e \in R, NEW i \in 1..Len(t)+1,
           \A j \in 1..Len(t) : (j < i => t[j].day < e.day) /\ (j >= i => e.day < t[j].day)
    PROVE  InOrder(InsertAt(t, i, e))
<1> DEFINE r == InsertAt(t, i, e)
<1>3. /\ Len(t) \in Nat /\ i \in Int
      /\ \A j \in 1..Len(t) : t[j].day \in Int
    BY DEF Dated
<1>i. IsInserted(r, t, i, e, R)
    BY Inserted
<1>4. /\ r \in Seq(R) /\ Len(r) = Len(t) + 1
      /\ \A j \in 1..Len(t)+1 :
           r[j] = IF j < i THEN t[j] ELSE IF j = i THEN e ELSE t[j-1]
    BY <1>i DEF IsInserted
<1> HIDE DEF r
<1>5. InOrder(r)
  <2> SUFFICES ASSUME NEW j \in 1..Len(t)+1, NEW k \in 1..Len(t)+1, j < k
               PROVE  r[j].day < r[k].day
    BY <1>4 DEF InOrder
  <2>1. CASE k < i
    <3>1. j \in 1..Len(t) /\ k \in 1..Len(t) /\ r[j] = t[j] /\ r[k] = t[k]
      BY <2>1, <1>3, <1>4
    <3> QED
      BY <3>1 DEF InOrder
  <2>2. CASE k = i
    <3>1. j \in 1..Len(t) /\ j < i /\ r[j] = t[j] /\ r[k] = e
      BY <2>2, <1>3, <1>4
    <3> QED
      BY <3>1
  <2>3. CASE k > i /\ j < i
    <3>1. /\ j \in 1..Len(t) /\ k - 1 \in 1..Len(t) /\ j < k - 1
          /\ r[j] = t[j] /\ r[k] = t[k-1]
      BY <2>3, <1>3, <1>4
    <3> QED
      BY <3>1 DEF InOrder
  <2>4. CASE k > i /\ j = i
    <3>1. k - 1 \in 1..Len(t) /\ ~ (k - 1 < i) /\ r[j] = e /\ r[k] = t[k-1]
      BY <2>4, <1>3, <1>4
    <3> QED
      BY <3>1
  <2>5. CASE k > i /\ j > i
    <3>1. /\ j - 1 \in 1..Len(t) /\ k - 1 \in 1..Len(t) /\ j - 1 < k - 1
          /\ r[j] = t[j-1] /\ r[k] = t[k-1]
      BY <2>5, <1>3, <1>4
    <3> QED
      BY <3>1 DEF InOrder
  <2> QED
    BY <2>1, <2>2, <2>3, <2>4, <2>5, <1>3
<1> QED
    BY <1>5 DEF r

\* Setting a day that is not after the last one goes to the first entry that is not
\* before it.
LEMMA PutPlace ==
    ASSUME NEW R, Dated(R), NEW t \in Seq(R), NEW d \in Int, NEW v,
           t # << >>, ~ (t[Len(t)].day < d)
    PROVE  \E m \in 1..Len(t) :
             /\ t[m].day >= d /\ \A l \in 1..m - 1 : t[l].day < d
             /\ Put(t, d, v) = IF t[m].day > d THEN InsertAt(t, m, Entry(d, v))
                               ELSE ReplaceAt(t, m, Entry(d, v))
<1> DEFINE first(k) == t[k].day >= d /\ \A l \in 1..k - 1 : t[l].day < d
<1>n. Len(t) \in Nat \ {0} /\ DOMAIN t = 1..Len(t) /\ \A j \in 1..Len(t) : t[j].day \in Int
    BY DEF Dated
<1>1. \E k \in DOMAIN t : first(k)
    <2> DEFINE S == {k \in 1..Len(t) : t[k].day >= d}
    <2>1. Len(t) \in S
        BY <1>n
    <2>2. S \in SUBSET Nat
        OBVIOUS
    <2> HIDE DEF S
    <2>3. PICK k \in S : \A l \in S : k <= l
        BY <2>1, <2>2, LeastExists
    <2>4. \A l \in 1..k-1 : t[l].day < d
        BY <2>3, <1>n DEF S
    <2> QED
        BY <2>3, <2>4, <1>n DEF S
<1> DEFINE i == CHOOSE k \in DOMAIN t : first(k)
<1>2. i \in DOMAIN t /\ first(i)
    <2> HIDE DEF first
    <2> QED
        BY <1>1
<1>3. i \in 1..Len(t) /\ t[i].day >= d /\ \A l \in 1..i - 1 : t[l].day < d
    BY <1>2, <1>n
<1>4. Put(t, d, v) = IF t[i].day > d THEN InsertAt(t, i, Entry(d, v)) ELSE ReplaceAt(t, i, Entry(d, v))
    BY DEF Put
<1> HIDE DEF i, first
<1> QED
    BY <1>3, <1>4

\* An entry between those of the days before and those of the days after it.
LEMMA InsertedKeeps ==
    ASSUME NEW t \in Seq(Row), InOrder(t), NEW f \in Told, Says(t, f),
           NEW d \in EntryDays, NEW v \in Rates, NEW e \in Row, e.day = d, e.value = v,
           NEW g, g = [f EXCEPT ![d] = v],
           NEW i \in 1..Len(t)+1,
           \A j \in 1..Len(t) : (j < i => t[j].day < d) /\ (j >= i => d < t[j].day)
    PROVE  InsertAt(t, i, e) \in Seq(Row) /\ Len(InsertAt(t, i, e)) <= Len(t) + 1 /\ InOrder(InsertAt(t, i, e)) /\ Says(InsertAt(t, i, e), g)
<1> DEFINE r == InsertAt(t, i, e)
<1>1. g[d] = v /\ \A x \in EntryDays : x # d => g[x] = f[x]
    BY DEF Told
<1>2. d \in Int /\ EntryDays \subseteq Int
    BY YieldConstants
<1>3. /\ Len(t) \in Nat /\ i \in Int
      /\ \A j \in 1..Len(t) : t[j].day \in EntryDays /\ t[j].day \in Int
    BY Rows
<1>i. IsInserted(r, t, i, e, Row)
    BY Inserted
<1>4. /\ r \in Seq(Row) /\ Len(r) = Len(t) + 1
      /\ \A j \in 1..Len(t)+1 :
           r[j] = IF j < i THEN t[j] ELSE IF j = i THEN e ELSE t[j-1]
    BY <1>i DEF IsInserted
<1> HIDE DEF r
<1>5. InOrder(r)
    BY <1>3, DatedRow, InsertedOrder DEF r
<1>6. ASSUME NEW j \in 1..Len(t)+1 PROVE g[r[j].day] = r[j].value
  <2>1. CASE j = i
    BY <2>1, <1>1, <1>4
  <2>2. CASE j # i
    <3>1. PICK k \in 1..Len(t) : r[j] = t[k]
      <4>1. CASE j < i
        BY <4>1, <1>3, <1>4
      <4>2. CASE j > i
        <5>1. j - 1 \in 1..Len(t) /\ r[j] = t[j-1]
          BY <4>2, <1>3, <1>4
        <5> QED
          BY <5>1
      <4> QED
        BY <2>2, <4>1, <4>2, <1>3
    <3>2. t[k].day # d
      BY <1>2, <1>3
    <3> QED
      BY <3>1, <3>2, <1>1, <1>3 DEF Says
  <2> QED
    BY <2>1, <2>2
<1>7. ASSUME NEW x \in EntryDays, g[x] # None PROVE \E j \in 1..Len(t)+1 : r[j].day = x
  <2>1. CASE x = d
    <3>1. r[i].day = x
      BY <2>1, <1>3, <1>4
    <3> QED
      BY <3>1
  <2>2. CASE x # d
    <3>1. PICK j \in 1..Len(t) : t[j].day = x
      BY <2>2, <1>1, <1>7 DEF Says
    <3>2. CASE j < i
      <4>1. j \in 1..Len(t)+1 /\ r[j] = t[j]
        BY <3>2, <1>3, <1>4
      <4> QED
        BY <3>1, <4>1
    <3>3. CASE j >= i
      <4>1. j + 1 \in 1..Len(t)+1 /\ r[j+1] = t[j]
        BY <3>3, <1>3, <1>4
      <4> QED
        BY <3>1, <4>1
    <3> QED
      BY <3>2, <3>3, <1>3
  <2> QED
    BY <2>1, <2>2
<1>8. Says(r, g)
    BY <1>4, <1>6, <1>7 DEF Says
<1> QED
    BY <1>3, <1>4, <1>5, <1>8 DEF r

\* An entry in the place of the old one of its day.
LEMMA ReplacedKeeps ==
    ASSUME NEW t \in Seq(Row), InOrder(t), NEW f \in Told, Says(t, f),
           NEW d \in EntryDays, NEW v \in Rates, NEW e \in Row, e.day = d, e.value = v,
           NEW g, g = [f EXCEPT ![d] = v],
           NEW i \in 1..Len(t), t[i].day = d
    PROVE  ReplaceAt(t, i, e) \in Seq(Row) /\ Len(ReplaceAt(t, i, e)) <= Len(t) + 1 /\ InOrder(ReplaceAt(t, i, e)) /\ Says(ReplaceAt(t, i, e), g)
<1> DEFINE r == ReplaceAt(t, i, e)
<1>1. g[d] = v /\ \A x \in EntryDays : x # d => g[x] = f[x]
    BY DEF Told
<1>2. d \in Int /\ EntryDays \subseteq Int
    BY YieldConstants
<1>3. /\ Len(t) \in Nat /\ i \in Int
      /\ \A j \in 1..Len(t) : t[j].day \in EntryDays /\ t[j].day \in Int
    BY Rows
<1>i. IsReplaced(r, t, i, e, Row)
    BY Replaced
<1>4. /\ r \in Seq(Row) /\ Len(r) = Len(t)
      /\ \A j \in 1..Len(t) : r[j] = IF j = i THEN e ELSE t[j]
    BY <1>i DEF IsReplaced
<1> HIDE DEF r
<1>5. \A j \in 1..Len(t) : r[j].day = t[j].day
    BY <1>4
<1>6. InOrder(r)
    BY <1>4, <1>5 DEF InOrder
<1>7. \A j \in 1..Len(t) : j # i => t[j].day # d
    BY <1>2, <1>3 DEF InOrder
<1>8. ASSUME NEW j \in 1..Len(t) PROVE g[r[j].day] = r[j].value
  <2>1. CASE j = i
    BY <2>1, <1>1, <1>4
  <2>2. CASE j # i
    BY <2>2, <1>1, <1>3, <1>4, <1>7 DEF Says
  <2> QED
    BY <2>1, <2>2
<1>9. ASSUME NEW x \in EntryDays, g[x] # None PROVE \E j \in 1..Len(t) : r[j].day = x
  <2>1. CASE x = d
    BY <2>1, <1>5
  <2>2. CASE x # d
    BY <2>2, <1>1, <1>5, <1>9 DEF Says
  <2> QED
    BY <2>1, <2>2
<1>10. Says(r, g)
    BY <1>4, <1>8, <1>9 DEF Says
<1> QED
    BY <1>3, <1>4, <1>6, <1>10 DEF r

\* Setting a day puts its entry between those of the days before and after it, or
\* in the place of its old one.
LEMMA PutKeeps ==
    ASSUME NEW t \in Seq(Row), InOrder(t), NEW f \in Told, Says(t, f),
           NEW d \in EntryDays, NEW v \in Rates,
           NEW r, r = Put(t, d, v), NEW g, g = [f EXCEPT ![d] = v]
    PROVE  r \in Seq(Row) /\ Len(r) <= Len(t) + 1 /\ InOrder(r) /\ Says(r, g)
<1> DEFINE e == Entry(d, v)
<1>1. e \in Row /\ e.day = d /\ e.value = v
    BY DEF Entry, Row
<1>2. g[d] = v /\ \A x \in EntryDays : x # d => g[x] = f[x]
    BY DEF Told
<1>3. d \in Int /\ EntryDays \subseteq Int
    BY YieldConstants
<1>t. /\ Len(t) \in Nat /\ DOMAIN t = 1..Len(t)
      /\ \A j \in 1..Len(t) : t[j].day \in EntryDays /\ t[j].day \in Int
    BY Rows
<1> HIDE DEF e
<1>4. CASE t = << >> \/ t[Len(t)].day < d
  <2>1. r = Append(t, e)
    BY <1>4 DEF Put, e
  <2>2. /\ r \in Seq(Row) /\ Len(r) = Len(t) + 1
        /\ \A j \in 1..Len(t) : r[j] = t[j]
        /\ r[Len(t)+1] = e
    BY <2>1, <1>1
  <2>3. \A j \in 1..Len(t) : t[j].day < d
    BY <1>3, <1>4, Rows DEF InOrder
  <2>4. InOrder(r)
    <3> SUFFICES ASSUME NEW j \in 1..Len(t)+1, NEW k \in 1..Len(t)+1, j < k
                 PROVE  r[j].day < r[k].day
      BY <2>2 DEF InOrder
    <3>1. CASE k <= Len(t)
      BY <3>1, <2>2, <1>t DEF InOrder
    <3>2. CASE k = Len(t) + 1
      BY <3>2, <2>2, <2>3, <1>1, <1>t
    <3> QED
      BY <3>1, <3>2, <1>t
  <2>5. \A j \in 1..Len(r) : g[r[j].day] = r[j].value
    BY <2>2, <2>3, <1>1, <1>2, Rows DEF Says
  <2>6. ASSUME NEW x \in EntryDays, g[x] # None PROVE \E j \in 1..Len(r) : r[j].day = x
    <3>1. CASE x = d
      BY <3>1, <2>2, <1>1, Rows
    <3>2. CASE x # d
      BY <3>2, <2>2, <2>6, <1>2, Rows DEF Says
    <3> QED
      BY <3>1, <3>2
  <2> QED
    BY <2>2, <2>4, <2>5, <2>6, Rows DEF Says
<1>5. CASE t # << >> /\ ~ (t[Len(t)].day < d)
  <2>1. PICK m \in 1..Len(t) :
          /\ t[m].day >= d /\ \A l \in 1..m - 1 : t[l].day < d
          /\ r = IF t[m].day > d THEN InsertAt(t, m, e) ELSE ReplaceAt(t, m, e)
    BY <1>3, <1>5, DatedRow, PutPlace, SMTT(30) DEF e
  <2>5. \A l \in 1..Len(t) : l > m => t[l].day > d
    BY <2>1, <1>3, Rows DEF InOrder
  <2>6. CASE t[m].day > d
    <3>1. r = InsertAt(t, m, e) /\ m \in 1..Len(t)+1
      BY <2>1, <2>6, <1>t
    <3>2. \A l \in 1..Len(t) : (l < m => t[l].day < d) /\ (l >= m => d < t[l].day)
      BY <2>1, <2>5, <2>6, <1>3, <1>t
    <3>3. LET q == InsertAt(t, m, e)
          IN  q \in Seq(Row) /\ Len(q) <= Len(t) + 1 /\ InOrder(q) /\ Says(q, g)
      BY <3>1, <3>2, <1>1, InsertedKeeps, Zenon
    <3> QED
      BY <3>1, <3>3
  <2>7. CASE ~ (t[m].day > d)
    <3>1. t[m].day = d /\ r = ReplaceAt(t, m, e)
      BY <2>1, <2>7, <1>3, <1>t
    <3> QED
      BY <3>1, <1>1, ReplacedKeeps, ZenonT(60)
  <2> QED
    BY <2>6, <2>7
<1> QED
    BY <1>4, <1>5

\* Removing a range leaves the entries of the other days.
LEMMA RemoveKeeps ==
    ASSUME NEW t \in Seq(Row), InOrder(t), NEW f \in Told, Says(t, f),
           NEW i \in 1..Len(t), NEW j \in i..Len(t),
           NEW g, g = [d \in EntryDays |->
                         IF \E k \in i..j : t[k].day = d THEN None ELSE f[d]]
    PROVE  LET r == RemoveRange(t, i, j)
           IN  r \in Seq(Row) /\ Len(r) <= Len(t) /\ InOrder(r) /\ Says(r, g)
<1> DEFINE r == RemoveRange(t, i, j)
<1>1. /\ r \in Seq(Row) /\ Len(r) = Len(t) - (j - i + 1)
      /\ \A k \in 1..Len(r) : r[k] = IF k < i THEN t[k] ELSE t[k + (j - i + 1)]
    BY Removed
<1> HIDE DEF r
<1>2. /\ Len(t) \in Nat /\ i \in Int /\ j \in Int /\ 1 <= i /\ i <= j /\ j <= Len(t)
      /\ \A k \in 1..Len(t) : t[k].day \in EntryDays /\ t[k].day \in Int
    BY Rows
<1> DEFINE at(k) == IF k < i THEN k ELSE k + (j - i + 1)
<1>3. ASSUME NEW k \in 1..Len(r)
      PROVE  at(k) \in 1..Len(t) /\ at(k) \notin i..j /\ r[k] = t[at(k)]
  <2>1. CASE k < i
    BY <2>1, <1>1, <1>2
  <2>2. CASE k >= i
    BY <2>2, <1>1, <1>2
  <2> QED
    BY <2>1, <2>2, <1>2
<1>4. \A k, l \in 1..Len(r) : k < l => at(k) < at(l)
    BY <1>1, <1>2
<1>5. ASSUME NEW k \in 1..Len(t), k \notin i..j PROVE \E l \in 1..Len(r) : at(l) = k
  <2>1. CASE k < i
    <3>1. k \in 1..Len(r) /\ at(k) = k
      BY <2>1, <1>1, <1>2
    <3> QED
      BY <3>1
  <2>2. CASE k > j
    <3>1. k - (j - i + 1) \in 1..Len(r) /\ at(k - (j - i + 1)) = k
      BY <2>2, <1>1, <1>2
    <3> QED
      BY <3>1
  <2>3. k < i \/ k > j
    BY <1>2, <1>5
  <2> QED
    BY <2>1, <2>2, <2>3
<1> HIDE DEF at
<1>6. InOrder(r)
  <2> SUFFICES ASSUME NEW k \in 1..Len(r), NEW l \in 1..Len(r), k < l
               PROVE  r[k].day < r[l].day
    BY DEF InOrder
  <2> QED
    BY <1>3, <1>4 DEF InOrder
<1>7. ASSUME NEW k \in 1..Len(r) PROVE g[r[k].day] = r[k].value
  <2>1. PICK m \in 1..Len(t) : m = at(k) /\ m \notin i..j /\ r[k] = t[m]
    BY <1>3
  <2>2. \A l \in i..j : l \in 1..Len(t) /\ l # m
    BY <2>1, <1>2
  <2>3. \A l \in i..j : t[l].day # t[m].day
    BY <2>1, <2>2, <1>2 DEF InOrder
  <2>4. g[t[m].day] = f[t[m].day]
    BY <2>3, <1>2
  <2> QED
    BY <2>1, <2>4 DEF Says
<1>8. ASSUME NEW x \in EntryDays, g[x] # None PROVE \E l \in 1..Len(r) : r[l].day = x
  <2>1. f[x] # None /\ \A k \in i..j : t[k].day # x
    BY <1>8
  <2>2. PICK k \in 1..Len(t) : t[k].day = x
    BY <2>1 DEF Says
  <2>3. k \notin i..j
    BY <2>1, <2>2
  <2>4. PICK l \in 1..Len(r) : at(l) = k
    BY <2>3, <1>5
  <2> QED
    BY <2>2, <2>4, <1>3
<1>9. Says(r, g)
    BY <1>7, <1>8 DEF Says
<1>10. Len(r) <= Len(t)
    BY <1>1, <1>2
<1> QED
    BY <1>1, <1>6, <1>9, <1>10 DEF r
-----------------------------------------------------------------------------
\* The inductive invariant: what the table of every curve is, with the types and
\* the memory that the changes rely on; nothing is told of a curve that is not there.
Fields == {"alive", "tab", "max", "composite", "base", "spread", "add", "mult",
           "start", "end", "cacheSize", "cache"}
Kept(y, what) ==
    /\ y.alive = TRUE /\ DOMAIN y = Fields
    /\ y.tab \in Seq(Row) /\ y.max \in Nat \ {0} /\ Len(y.tab) <= y.max
    /\ InOrder(y.tab) /\ Says(y.tab, what)
Silent == [d \in EntryDays |-> None]
IInv ==
    /\ DOMAIN curve = Curves /\ told \in [Curves -> Told]
    /\ \A c \in Curves : \/ curve[c] = Null /\ told[c] = Silent
                        \/ Kept(curve[c], told[c])

LEMMA SilentIs == Silent \in Told /\ \A d \in EntryDays : Silent[d] = None
BY DEF Silent, Told

LEMMA Living == ASSUME IInv, NEW c \in Alive
                PROVE  c \in Curves /\ Kept(curve[c], told[c]) /\ told[c] \in Told
BY DEF IInv, Alive, Null

\* A new curve has no entries.
LEMMA NewKept == ASSUME NEW s, NEW e PROVE Kept(NewCurve(s, e), Silent)
<1> DEFINE y == NewCurve(s, e)
<1>1. /\ y.alive = TRUE /\ DOMAIN y = Fields /\ y.tab = << >> /\ y.max = MaxFactors
    BY DEF NewCurve, Fields
<1>2. << >> \in Seq(Row) /\ Len(<< >>) = 0 /\ MaxFactors \in Nat \ {0}
    BY YieldConstants
<1> HIDE DEF y
<1>3. InOrder(y.tab) /\ Says(y.tab, Silent)
    BY <1>1, <1>2, SilentIs DEF InOrder, Says
<1> QED
    BY <1>1, <1>2, <1>3 DEF Kept, y

\* What leaves a curve's table and array alone.
LEMMA SameKept ==
    ASSUME NEW y, NEW what, Kept(y, what),
           NEW z, DOMAIN z = DOMAIN y, z.alive = TRUE, z.tab = y.tab, z.max = y.max
    PROVE  Kept(z, what)
BY DEF Kept

\* One curve is changed and has what is told of it.
LEMMA ChangeInv ==
    ASSUME IInv, NEW c \in Curves, NEW y, curve' = [curve EXCEPT ![c] = y],
           NEW what \in Told, told' = [told EXCEPT ![c] = what],
           (y = Null /\ what = Silent) \/ Kept(y, what)
    PROVE  IInv'
<1>1. DOMAIN curve' = Curves /\ told' \in [Curves -> Told]
    BY DEF IInv
<1>2. curve'[c] = y /\ told'[c] = what
    BY DEF IInv
<1>3. \A x \in Curves : x # c => curve'[x] = curve[x] /\ told'[x] = told[x]
    BY DEF IInv
<1>4. ASSUME NEW x \in Curves
      PROVE  (curve'[x] = Null /\ told'[x] = Silent) \/ Kept(curve'[x], told'[x])
    BY <1>2, <1>3 DEF IInv
<1> QED
    BY <1>1, <1>4 DEF IInv

\* The same when nothing new is told of it.
LEMMA QuietInv ==
    ASSUME IInv, NEW c \in Curves, NEW y, curve' = [curve EXCEPT ![c] = y],
           told' = told, Kept(y, told[c])
    PROVE  IInv'
<1>1. told[c] \in Told /\ told' = [told EXCEPT ![c] = told[c]]
    BY DEF IInv
<1> QED
    BY <1>1, ChangeInv
-----------------------------------------------------------------------------
LEMMA InitInv == Init => IInv
<1> SUFFICES ASSUME Init PROVE IInv
    OBVIOUS
<1>1. DOMAIN curve = Curves /\ \A c \in Curves : curve[c] = Null
    BY DEF Init
<1>2. told = [c \in Curves |-> Silent]
    BY DEF Init, Silent
<1> QED
    BY <1>1, <1>2, SilentIs DEF IInv

LEMMA NewInv ==
    ASSUME IInv, NEW c \in Curves, NEW s, NEW e, New(c, s, e)
    PROVE  IInv'
<1>1. curve' = [curve EXCEPT ![c] = NewCurve(s, e)] /\ told' = told
    BY DEF New, Change
<1>2. told[c] = Silent
  <2>1. ~ Kept(curve[c], told[c])
    BY DEF New, Kept
  <2> QED
    BY <2>1 DEF IInv
<1> QED
    BY <1>1, <1>2, NewKept, QuietInv

LEMMA SetDiscountFactorInv ==
    ASSUME IInv, NEW c \in Curves, NEW d \in EntryDays, NEW v \in Rates,
           SetDiscountFactor(c, d, v)
    PROVE  IInv'
<1> DEFINE t == curve[c].tab
           r == Put(t, d, v)
           g == [told[c] EXCEPT ![d] = v]
           y == [curve[c] EXCEPT !.tab = Put(@, d, v), !.max = Room(t, @)]
<1>1. c \in Alive /\ curve' = [curve EXCEPT ![c] = y] /\ told' = [told EXCEPT ![c][d] = v]
    BY DEF SetDiscountFactor, Change
<1>2. Kept(curve[c], told[c]) /\ told[c] \in Told
    BY <1>1, Living
<1>3. told' = [told EXCEPT ![c] = g]
    BY <1>1
<1>4. r \in Seq(Row) /\ Len(r) <= Len(t) + 1 /\ InOrder(r) /\ Says(r, g)
    BY <1>2, PutKeeps DEF Kept
<1>5. DOMAIN y = Fields /\ y.alive = TRUE /\ y.tab = r /\ y.max = Room(t, curve[c].max)
    BY <1>2 DEF Kept, Fields
<1>6. g \in Told
    BY <1>2 DEF Told
<1> HIDE DEF r, g, y
<1>7. y.max \in Nat \ {0} /\ Len(y.tab) <= y.max
  <2>1. Len(t) \in Nat /\ Len(r) \in Nat /\ curve[c].max \in Nat \ {0} /\ Len(t) <= curve[c].max
    BY <1>2, <1>4, Rows DEF Kept
  <2> QED
    BY <2>1, <1>4, <1>5 DEF Room
<1>8. Kept(y, g)
    BY <1>4, <1>5, <1>7 DEF Kept
<1> QED
    BY <1>1, <1>3, <1>6, <1>8, ChangeInv

LEMMA RemoveElementRangeInv ==
    ASSUME IInv, NEW c \in Curves, NEW i \in Nat \ {0}, NEW j \in Nat,
           RemoveElementRange(c, i, j)
    PROVE  IInv'
<1> DEFINE t == curve[c].tab
           r == RemoveRange(t, i, j)
           g == [d \in EntryDays |-> IF \E k \in i..j : t[k].day = d THEN None ELSE told[c][d]]
           y == [curve[c] EXCEPT !.tab = RemoveRange(@, i, j)]
<1>1. c \in Alive /\ curve' = [curve EXCEPT ![c] = y] /\ i <= j /\ j <= Len(t)
    BY DEF RemoveElementRange, Change
<1>2. Kept(curve[c], told[c]) /\ told[c] \in Told
    BY <1>1, Living
<1>3. told' = [told EXCEPT ![c] = g]
    BY DEF RemoveElementRange, IInv
<1>4. i \in 1..Len(t) /\ j \in i..Len(t)
    BY <1>1, <1>2, Rows DEF Kept
<1>5. r \in Seq(Row) /\ Len(r) <= Len(t) /\ InOrder(r) /\ Says(r, g)
    BY <1>2, <1>4, RemoveKeeps DEF Kept
<1>6. DOMAIN y = Fields /\ y.alive = TRUE /\ y.tab = r /\ y.max = curve[c].max
    BY <1>2 DEF Kept, Fields
<1>7. g \in Told
    BY <1>2 DEF Told
<1> HIDE DEF r, g, y
<1>8. Kept(y, g)
  <2>1. Len(t) \in Nat /\ Len(r) \in Nat /\ curve[c].max \in Nat \ {0} /\ Len(t) <= curve[c].max
    BY <1>2, <1>5, Rows DEF Kept
  <2> QED
    BY <2>1, <1>5, <1>6 DEF Kept
<1> QED
    BY <1>1, <1>3, <1>7, <1>8, ChangeInv

\* Pointers, factors and the size of the cache are set beside the table.
LEMMA SetterInv ==
    ASSUME IInv, NEW c \in Curves,
           \/ \E b, s \in Curves \cup {None} : SetComposite(c, b, s)
           \/ \E a \in Shifts, m \in Scales : SetFactors(c, a, m)
           \/ CacheEnable(c)
    PROVE  IInv'
<1>1. c \in Alive /\ told' = told
    BY DEF SetComposite, SetFactors, CacheEnable
<1>2. Kept(curve[c], told[c])
    BY <1>1, Living
<1>3. PICK y : /\ curve' = [curve EXCEPT ![c] = y] /\ DOMAIN y = DOMAIN curve[c]
               /\ y.alive = curve[c].alive /\ y.tab = curve[c].tab /\ y.max = curve[c].max
  <2>1. CASE \E b, s \in Curves \cup {None} : SetComposite(c, b, s)
    BY <2>1, <1>2 DEF SetComposite, Change, Kept, Fields
  <2>2. CASE \E a \in Shifts, m \in Scales : SetFactors(c, a, m)
    BY <2>2, <1>2 DEF SetFactors, Change, Kept, Fields
  <2>3. CASE CacheEnable(c)
    <3> DEFINE z == [curve[c] EXCEPT !.cacheSize = CacheSize]
    <3>1. curve' = [curve EXCEPT ![c] = z]
      BY <2>3 DEF CacheEnable, Change
    <3>2. /\ DOMAIN z = DOMAIN curve[c] /\ z.alive = curve[c].alive
          /\ z.tab = curve[c].tab /\ z.max = curve[c].max
      BY <1>2 DEF Kept, Fields
    <3> HIDE DEF z
    <3> QED
      BY <3>1, <3>2
  <2> QED
    BY <2>1, <2>2, <2>3
<1>4. Kept(y, told[c])
    BY <1>2, <1>3 DEF Kept
<1> QED
    BY <1>1, <1>3, <1>4, QuietInv

\* Answering fills caches only.
LEMMA GetDiscountFactorInv ==
    ASSUME IInv, NEW c \in Curves, NEW d, GetDiscountFactor(c, d)
    PROVE  IInv'
<1>1. curve' = AfterGet(curve, c, d) /\ told' = told
    BY DEF GetDiscountFactor
<1>2. ASSUME NEW x \in Curves
      PROVE  (curve'[x] = Null /\ told'[x] = Silent) \/ Kept(curve'[x], told'[x])
  <2>1. curve'[x] = curve[x] \/
          (curve[x].alive /\ curve'[x] = [curve[x] EXCEPT !.cache[d] = Rate(curve, x, d)])
    BY <1>1, Zenon DEF AfterGet
  <2>2. CASE curve'[x] = curve[x]
    BY <2>2, <1>1 DEF IInv
  <2>3. CASE curve[x].alive /\ curve'[x] = [curve[x] EXCEPT !.cache[d] = Rate(curve, x, d)]
    <3>1. Kept(curve[x], told[x])
      BY <2>3, Living DEF Alive
    <3>2. PICK z : z = curve'[x]
      OBVIOUS
    <3>3. DOMAIN z = Fields /\ z.alive = TRUE /\ z.tab = curve[x].tab /\ z.max = curve[x].max
      BY <2>3, <3>1, <3>2 DEF Kept, Fields
    <3> QED
      BY <3>1, <3>2, <3>3, <1>1 DEF Kept
  <2> QED
    BY <2>1, <2>2, <2>3
<1>3. DOMAIN curve' = Curves
    BY <1>1 DEF AfterGet
<1> QED
    BY <1>1, <1>2, <1>3 DEF IInv

LEMMA CloneInv ==
    ASSUME IInv, NEW c \in Curves, NEW k \in Curves, Clone(c, k)
    PROVE  IInv'
<1> DEFINE y == CloneOf(curve[c])
<1>1. c \in Alive /\ curve' = [curve EXCEPT ![k] = y] /\ told' = [told EXCEPT ![k] = told[c]]
    BY DEF Clone, Change
<1>2. Kept(curve[c], told[c]) /\ told[c] \in Told
    BY <1>1, Living
<1>3. DOMAIN y = Fields /\ y.alive = TRUE /\ y.tab = curve[c].tab /\ y.max = curve[c].max
    BY DEF CloneOf, NewCurve, Fields
<1> HIDE DEF y
<1>4. Kept(y, told[c])
    BY <1>2, <1>3 DEF Kept
<1> QED
    BY <1>1, <1>2, <1>4, ChangeInv

LEMMA FreeInv ==
    ASSUME IInv, NEW c \in Curves, Free(c)
    PROVE  IInv'
<1>1. curve' = [curve EXCEPT ![c] = Null] /\ told' = [told EXCEPT ![c] = Silent]
    BY DEF Free, Change, Silent
<1> QED
    BY <1>1, SilentIs, ChangeInv

LEMMA NextInv == ASSUME IInv, [Next]_vars PROVE IInv'
<1>1. CASE UNCHANGED vars
  <2>1. curve' = curve /\ told' = told
    BY <1>1 DEF vars
  <2> QED
    BY <2>1 DEF IInv
<1>2. ASSUME NEW c \in Curves,
             \/ \E s \in Starts, e \in Ends : New(c, s, e)
             \/ \E d \in EntryDays, v \in Rates : SetDiscountFactor(c, d, v)
             \/ \E i, j \in 1..Cardinality(EntryDays) : RemoveElementRange(c, i, j)
             \/ \E b, s \in Curves \cup {None} : SetComposite(c, b, s)
             \/ \E a \in Shifts, m \in Scales : SetFactors(c, a, m)
             \/ CacheEnable(c)
             \/ \E d \in Days : GetDiscountFactor(c, d)
             \/ \E k \in Curves : Clone(c, k)
             \/ Free(c)
      PROVE  IInv'
  <2>1. CASE \E s \in Starts, e \in Ends : New(c, s, e)
    BY <2>1, NewInv
  <2>2. CASE \E d \in EntryDays, v \in Rates : SetDiscountFactor(c, d, v)
    BY <2>2, SetDiscountFactorInv
  <2>3. CASE \E i, j \in 1..Cardinality(EntryDays) : RemoveElementRange(c, i, j)
    <3>1. PICK i, j \in 1..Cardinality(EntryDays) : RemoveElementRange(c, i, j)
      BY <2>3
    <3>2. i \in Nat \ {0} /\ j \in Nat
      OBVIOUS
    <3> QED
      BY <3>1, <3>2, RemoveElementRangeInv
  <2>4. CASE \/ \E b, s \in Curves \cup {None} : SetComposite(c, b, s)
             \/ \E a \in Shifts, m \in Scales : SetFactors(c, a, m)
             \/ CacheEnable(c)
    BY <2>4, SetterInv
  <2>5. CASE \E d \in Days : GetDiscountFactor(c, d)
    BY <2>5, GetDiscountFactorInv
  <2>6. CASE \E k \in Curves : Clone(c, k)
    BY <2>6, CloneInv
  <2>7. CASE Free(c)
    BY <2>7, FreeInv
  <2> QED
    BY <1>2, <2>1, <2>2, <2>3, <2>4, <2>5, <2>6, <2>7
<1> QED
    BY <1>1, <1>2 DEF Next

\* The inductive invariant holds however curves are filled, cut, copied, composed,
\* shifted, asked and freed.
THEOREM Invariance == Spec => []IInv
<1> QED
    BY InitInv, NextInv, PTL DEF Spec

\* The table of every yield curve has, in the order of the days and inside its
\* array, exactly what rq_yield_curve_set_discount_factor was last told of each day.
THEOREM KeepsTables == Spec => []TablesKept
<1>1. ASSUME IInv PROVE TablesKept
    BY <1>1, Living DEF TablesKept, Kept
<1> QED
    BY <1>1, Invariance, PTL
-----------------------------------------------------------------------------
(***************************************************************************)
(* Asking a curve changes no answer.                                       *)
(***************************************************************************)

\* What one curve answers, given what the curves below it answer.
Answer(cs, d, R, c) ==
    LET y == cs[c]
    IN  IF ~ y.alive \/ d = 0 THEN 0
        ELSE IF Cached(y, d) THEN y.cache[d]
        ELSE IF y.composite
             THEN ApplyFactors(y, Composed(y, [b \in {y.base, y.spread} \ {None} |-> R[b]]))
        ELSE LET rate == TableRate(y, d)
             IN  IF rate # NaN /\ rate > 0 THEN ApplyFactors(y, rate) ELSE rate
Answers(cs, d, R) == R = [c \in Curves |-> Answer(cs, d, R, c)]

\* A curve stands on curves that were made before it.
Below(cs, c) == {b \in {cs[c].base, cs[c].spread} : b # None}
Grounded(cs) ==
    \A c \in Curves : cs[c].alive /\ cs[c].composite => Below(cs, c) \subseteq Curves \cap 0..c - 1

\* It answers the same if they do.
LEMMA AnswerLocal ==
    ASSUME NEW cs, NEW d, NEW c \in Curves, NEW f, NEW g,
           cs[c].alive /\ cs[c].composite => \A b \in Below(cs, c) : f[b] = g[b]
    PROVE  Answer(cs, d, f, c) = Answer(cs, d, g, c)
<1> DEFINE y == cs[c]
           lo == {y.base, y.spread} \ {None}
<1>1. CASE y.alive /\ y.composite
    <2>1. \A b \in lo : f[b] = g[b]
        BY <1>1 DEF Below
    <2>2. [b \in lo |-> f[b]] = [b \in lo |-> g[b]]
        BY <2>1
    <2>3. QED
        BY <2>2 DEF Answer
<1>2. CASE ~ (y.alive /\ y.composite)
    BY <1>2 DEF Answer
<1>3. QED
    BY <1>1, <1>2

\* Answers that are right up to some curve: they can be given, and only they.
Upto(cs, d, n, f) == \A c \in Curves : c < n => f[c] = Answer(cs, d, f, c)

LEMMA OneAnswer ==
    ASSUME NEW cs, Grounded(cs), NEW d, NEW n \in Nat, NEW m \in Nat, NEW f, NEW g,
           Upto(cs, d, n, f), Upto(cs, d, m, g)
    PROVE  \A c \in Curves : c < n /\ c < m => f[c] = g[c]
<1> DEFINE T == {c \in Curves : c < n /\ c < m /\ f[c] # g[c]}
<1> SUFFICES ASSUME T # {} PROVE FALSE
    OBVIOUS
<1>1. T \in SUBSET Nat /\ Curves \subseteq Nat
    BY YieldConstants
<1>2. PICK c \in T : \A x \in T : c <= x
    BY <1>1, LeastExists
<1>3. ASSUME cs[c].alive, cs[c].composite, NEW b \in Below(cs, c) PROVE f[b] = g[b]
    <2>1. b \in Curves /\ b < c /\ b \in Nat /\ c \in Nat
        BY <1>1, <1>3 DEF Grounded
    <2>2. b < n /\ b < m
        BY <1>2, <2>1
    <2>3. QED
        BY <1>2, <2>1, <2>2
<1>4. Answer(cs, d, f, c) = Answer(cs, d, g, c)
    BY <1>3, AnswerLocal
<1>5. QED
    BY <1>2, <1>4 DEF Upto

LEMMA AnswersExist ==
    ASSUME NEW cs, Grounded(cs), NEW d
    PROVE  \E R : Answers(cs, d, R)
<1>0. Curves \subseteq Nat
    BY YieldConstants
<1> DEFINE S == {n \in Nat : \E f : Upto(cs, d, n, f)}
<1>1. 0 \in S
    BY <1>0 DEF Upto
<1>2. ASSUME NEW n \in Nat, n \in S PROVE n + 1 \in S
    <2>1. PICK f : Upto(cs, d, n, f)
        BY <1>2
    <2> DEFINE g == [c \in Curves |-> Answer(cs, d, f, c)]
    <2>2. ASSUME NEW c \in Curves, c < n + 1 PROVE g[c] = Answer(cs, d, g, c)
        <3>1. ASSUME cs[c].alive, cs[c].composite, NEW b \in Below(cs, c) PROVE f[b] = g[b]
            <4>1. b \in Curves /\ b < n
                BY <1>0, <2>2, <3>1 DEF Grounded
            <4>2. QED
                BY <2>1, <4>1 DEF Upto
        <3> HIDE DEF g
        <3>2. Answer(cs, d, f, c) = Answer(cs, d, g, c)
            BY <3>1, AnswerLocal
        <3>3. QED
            BY <3>2 DEF g
    <2> HIDE DEF g
    <2>3. Upto(cs, d, n + 1, g)
        BY <2>2 DEF Upto
    <2>4. QED
        BY <2>3
<1> HIDE DEF S
<1>3. Nat \subseteq S
    BY <1>1, <1>2, Naturals
<1> DEFINE F(n) == CHOOSE f : Upto(cs, d, n, f)
           R == [c \in Curves |-> F(c + 1)[c]]
<1>4. ASSUME NEW n \in Nat PROVE Upto(cs, d, n, F(n))
    BY <1>3 DEF S
<1> HIDE DEF F
<1>5. ASSUME NEW c \in Curves PROVE R[c] = Answer(cs, d, R, c)
    <2>1. c \in Nat /\ c < c + 1 /\ Upto(cs, d, c + 1, F(c + 1))
        BY <1>0, <1>4
    <2>2. F(c + 1)[c] = Answer(cs, d, F(c + 1), c)
        BY <2>1 DEF Upto
    <2>3. ASSUME cs[c].alive, cs[c].composite, NEW b \in Below(cs, c)
          PROVE  F(c + 1)[b] = R[b]
        <3>1. b \in Curves /\ b \in Nat /\ b < c
            BY <1>0, <2>3 DEF Grounded
        <3>2. b < c + 1 /\ b < b + 1 /\ Upto(cs, d, b + 1, F(b + 1))
            BY <1>4, <2>1, <3>1
        <3>3. F(c + 1)[b] = F(b + 1)[b]
            BY <2>1, <3>1, <3>2, OneAnswer
        <3>4. QED
            BY <3>1, <3>3
    <2> HIDE DEF R
    <2>4. Answer(cs, d, F(c + 1), c) = Answer(cs, d, R, c)
        BY <2>3, AnswerLocal
    <2>5. QED
        BY <2>2, <2>4 DEF R
<1>6. Answers(cs, d, R)
    <2>1. R = [c \in Curves |-> R[c]]
        OBVIOUS
    <2> HIDE DEF R
    <2>2. QED
        BY <1>5, <2>1 DEF Answers
<1>7. QED
    BY <1>6

\* The rates of the curves are the one such set of answers.
LEMMA Rated ==
    ASSUME NEW cs, Grounded(cs), NEW d
    PROVE  /\ Answers(cs, d, RatesAt(cs, d))
           /\ \A R : Answers(cs, d, R) => R = RatesAt(cs, d)
<1>1. RatesAt(cs, d) = CHOOSE R : Answers(cs, d, R)
    BY DEF RatesAt, TableFactors, Answers, Answer
<1>2. Answers(cs, d, RatesAt(cs, d))
    BY <1>1, AnswersExist
<1>3. ASSUME NEW R, NEW Q, Answers(cs, d, R), Answers(cs, d, Q) PROVE R = Q
    <2>1. ASSUME NEW c \in Curves PROVE R[c] = Q[c]
        <3>1. c + 1 \in Nat /\ c < c + 1
            BY YieldConstants
        <3>2. Upto(cs, d, c + 1, R) /\ Upto(cs, d, c + 1, Q)
            BY <1>3 DEF Upto, Answers
        <3>3. QED
            BY <3>1, <3>2, OneAnswer
    <2>2. R = [c \in Curves |-> R[c]] /\ Q = [c \in Curves |-> Q[c]]
        BY <1>3 DEF Answers
    <2>3. QED
        BY <2>1, <2>2
<1>4. QED
    BY <1>2, <1>3

\* The inductive invariant: a composite curve stands on curves made before it, and
\* the cache of a curve has a slot for each of its days.
Sound(y, c) ==
    y.alive =>
        /\ y.cacheSize \in {0, CacheSize} /\ DOMAIN y.cache = 0..CacheSize - 1
        /\ y.composite => {b \in {y.base, y.spread} : b # None} \subseteq Curves \cap 0..c - 1
QInv == IInv /\ steps \in Nat /\ \A c \in Curves : Sound(curve[c], c)

LEMMA OneSound ==
    ASSUME QInv, NEW c \in Curves, NEW y, Change(c, y), Sound(y, c)
    PROVE  steps' \in Nat /\ \A x \in Curves : Sound(curve'[x], x)
<1>1. \A x \in Curves : curve'[x] = IF x = c THEN y ELSE curve[x]
    BY DEF Change, QInv, IInv
<1>2. QED
    BY <1>1 DEF Change, QInv

\* A curve whose cache and pointers are left alone.
LEMMA SameSound ==
    ASSUME NEW c, NEW y, Sound(y, c), NEW z, z.alive = y.alive,
           z.cacheSize = y.cacheSize, z.cache = y.cache,
           z.composite = y.composite, z.base = y.base, z.spread = y.spread
    PROVE  Sound(z, c)
BY DEF Sound

LEMMA NewSound == ASSUME NEW c, NEW s, NEW e PROVE Sound(NewCurve(s, e), c)
BY DEF NewCurve, Sound

\* What asking does to a curve: it keeps its own answer, if anything.
LEMMA Asking ==
    ASSUME QInv, NEW d \in Days, NEW c, GetDiscountFactor(c, d), NEW x \in Curves
    PROVE  \/ curve'[x] = curve[x]
           \/ LET y == curve[x]
                  z == curve'[x]
              IN  /\ y.alive /\ z.alive /\ d # 0 /\ d < y.cacheSize /\ ~ Factored(y)
                  /\ \A f \in Fields \ {"cache"} : z[f] = y[f]
                  /\ z.cache = [y.cache EXCEPT ![d] = RatesAt(curve, d)[x]]
<1> DEFINE y == curve[x]
           v == RatesAt(curve, d)[x]
<1>1. \/ curve'[x] = y
      \/ /\ y.alive /\ d # 0 /\ d < y.cacheSize /\ ~ Factored(y)
         /\ curve'[x] = [y EXCEPT !.cache[d] = v]
    BY Zenon DEF GetDiscountFactor, AfterGet, Rate
<1>2. CASE y.alive /\ curve'[x] = [y EXCEPT !.cache[d] = v]
    <2>1. Kept(y, told[x])
        BY <1>2, Living DEF QInv, Alive
    <2>2. DOMAIN y = Fields /\ y.alive = TRUE
        BY <2>1 DEF Kept
    <2> HIDE DEF y, v
    <2>3. PICK z : z = curve'[x]
        OBVIOUS
    <2>4. /\ \A f \in Fields \ {"cache"} : z[f] = y[f]
          /\ z.cache = [y.cache EXCEPT ![d] = v]
        BY <1>2, <2>2, <2>3 DEF Fields
    <2>5. z.alive
        BY <2>2, <2>4 DEF Fields
    <2>6. QED
        BY <1>1, <1>2, <2>3, <2>4, <2>5 DEF y, v
<1>3. QED
    BY <1>1, <1>2

LEMMA QNext == ASSUME QInv, [Next]_vars PROVE QInv'
<1>1. IInv'
    BY NextInv DEF QInv
<1> DEFINE Q == steps' \in Nat /\ \A x \in Curves : Sound(curve'[x], x)
<1>2. ASSUME NEW c \in Curves, NEW s, NEW e, New(c, s, e) PROVE Q
    BY <1>2, NewSound, OneSound DEF New
<1>3. ASSUME NEW c \in Curves, NEW y, Change(c, y), c \in Alive, y.alive = curve[c].alive,
             y.cacheSize = curve[c].cacheSize, y.cache = curve[c].cache,
             y.composite = curve[c].composite, y.base = curve[c].base, y.spread = curve[c].spread
      PROVE  Q
    BY <1>3, SameSound, OneSound DEF QInv
<1>4. ASSUME NEW c \in Curves, c \in Alive PROVE DOMAIN curve[c] = Fields
    BY <1>4, Living DEF QInv, Kept
<1>5. ASSUME NEW c \in Curves, NEW d, NEW r, SetDiscountFactor(c, d, r) PROVE Q
    <2> DEFINE y == [curve[c] EXCEPT !.tab = Put(@, d, r), !.max = Room(curve[c].tab, @)]
    <2>1. Change(c, y) /\ c \in Alive
        BY <1>5 DEF SetDiscountFactor
    <2>2. /\ y.alive = curve[c].alive /\ y.cacheSize = curve[c].cacheSize
          /\ y.cache = curve[c].cache /\ y.composite = curve[c].composite
          /\ y.base = curve[c].base /\ y.spread = curve[c].spread
        BY <1>4, <2>1 DEF Fields
    <2> HIDE DEF y
    <2>3. QED
        BY <1>3, <2>1, <2>2
<1>6. ASSUME NEW c \in Curves, NEW i, NEW j, RemoveElementRange(c, i, j) PROVE Q
    <2> DEFINE y == [curve[c] EXCEPT !.tab = RemoveRange(@, i, j)]
    <2>1. Change(c, y) /\ c \in Alive
        BY <1>6 DEF RemoveElementRange
    <2>2. /\ y.alive = curve[c].alive /\ y.cacheSize = curve[c].cacheSize
          /\ y.cache = curve[c].cache /\ y.composite = curve[c].composite
          /\ y.base = curve[c].base /\ y.spread = curve[c].spread
        BY <1>4, <2>1 DEF Fields
    <2> HIDE DEF y
    <2>3. QED
        BY <1>3, <2>1, <2>2
<1>7. ASSUME NEW c \in Curves, NEW a, NEW m, SetFactors(c, a, m) PROVE Q
    <2> DEFINE y == [curve[c] EXCEPT !.add = a, !.mult = m]
    <2>1. Change(c, y) /\ c \in Alive
        BY <1>7 DEF SetFactors
    <2>2. /\ y.alive = curve[c].alive /\ y.cacheSize = curve[c].cacheSize
          /\ y.cache = curve[c].cache /\ y.composite = curve[c].composite
          /\ y.base = curve[c].base /\ y.spread = curve[c].spread
        BY <1>4, <2>1 DEF Fields
    <2> HIDE DEF y
    <2>3. QED
        BY <1>3, <2>1, <2>2
<1>8. ASSUME NEW c \in Curves, NEW b, NEW s, SetComposite(c, b, s) PROVE Q
    <2> DEFINE y == [curve[c] EXCEPT !.composite = TRUE, !.base = b, !.spread = s]
    <2>1. Change(c, y) /\ c \in Alive /\ {b, s} \subseteq (Alive \cap 0..c - 1) \cup {None}
        BY <1>8 DEF SetComposite
    <2>2. /\ y.alive = curve[c].alive /\ y.cacheSize = curve[c].cacheSize
          /\ y.cache = curve[c].cache /\ y.base = b /\ y.spread = s
        BY <1>4, <2>1 DEF Fields
    <2> HIDE DEF y
    <2>3. Sound(y, c)
        BY <2>1, <2>2 DEF QInv, Sound, Alive
    <2>4. QED
        BY <2>1, <2>3, OneSound
<1>9. ASSUME NEW c \in Curves, CacheEnable(c) PROVE Q
    <2> DEFINE y == [curve[c] EXCEPT !.cacheSize = CacheSize]
    <2>1. Change(c, y) /\ c \in Alive
        BY <1>9 DEF CacheEnable
    <2>2. /\ y.alive = curve[c].alive /\ y.cacheSize = CacheSize
          /\ y.cache = curve[c].cache /\ y.composite = curve[c].composite
          /\ y.base = curve[c].base /\ y.spread = curve[c].spread
        BY <1>4, <2>1 DEF Fields
    <2> HIDE DEF y
    <2>3. Sound(y, c)
        BY <2>2 DEF QInv, Sound
    <2>4. QED
        BY <2>1, <2>3, OneSound
<1>10. ASSUME NEW c \in Curves, NEW d \in Days, GetDiscountFactor(c, d) PROVE Q
    <2>1. steps' \in Nat
        BY <1>10 DEF GetDiscountFactor, QInv
    <2>2. ASSUME NEW x \in Curves PROVE Sound(curve'[x], x)
        <3>1. PICK z : z = curve'[x]
            OBVIOUS
        <3>2. CASE z = curve[x]
            BY <3>1, <3>2 DEF QInv
        <3>3. CASE z # curve[x]
            <4>1. /\ curve[x].alive /\ z.alive /\ \A f \in Fields \ {"cache"} : z[f] = curve[x][f]
                  /\ z.cache = [curve[x].cache EXCEPT ![d] = RatesAt(curve, d)[x]]
                BY <1>10, <3>1, <3>3, Asking
            <4>2. /\ z.cacheSize = curve[x].cacheSize /\ z.composite = curve[x].composite
                  /\ z.base = curve[x].base /\ z.spread = curve[x].spread
                  /\ DOMAIN z.cache = DOMAIN curve[x].cache
                BY <4>1 DEF Fields
            <4>3. Sound(curve[x], x)
                BY DEF QInv
            <4>4. QED
                BY <3>1, <4>1, <4>2, <4>3 DEF Sound
        <3>4. QED
            BY <3>2, <3>3
    <2>3. QED
        BY <2>1, <2>2
<1>11. ASSUME NEW c \in Curves, NEW k \in Curves, Clone(c, k) PROVE Q
    <2>1. Change(k, CloneOf(curve[c]))
        BY <1>11 DEF Clone
    <2>2. Sound(CloneOf(curve[c]), k)
        BY DEF CloneOf, NewCurve, Sound
    <2>3. QED
        BY <2>1, <2>2, OneSound
<1>12. ASSUME NEW c \in Curves, Free(c) PROVE Q
    <2>1. Change(c, Null) /\ Sound(Null, c)
        BY <1>12 DEF Free, Null, Sound
    <2>2. QED
        BY <2>1, OneSound
<1>13. UNCHANGED vars => Q
    BY DEF QInv, vars
<1>14. Q
    BY <1>2, <1>5, <1>6, <1>7, <1>8, <1>9, <1>10, <1>11, <1>12, <1>13 DEF Next
<1>15. QED
    BY <1>1, <1>14 DEF QInv

LEMMA QInit == Init => QInv
<1>1. Init => steps \in Nat /\ \A c \in Curves : Sound(curve[c], c)
    BY DEF Init, Null, Sound
<1>2. QED
    BY <1>1, InitInv DEF QInv

LEMMA QInvariance == Spec => []QInv
BY QInit, QNext, PTL DEF Spec

LEMMA QGrounded == ASSUME QInv PROVE Grounded(curve)
BY DEF QInv, Sound, Grounded, Below

\* Asking leaves all answers as they were: what a slot of a cache is filled with is
\* what the curve would have answered without it.
THEOREM AskingChangesNothing == Spec => AskingIsQuiet
<1>1. ASSUME QInv, QInv', NEW c, NEW e \in Days, GetDiscountFactor(c, e), NEW d \in Days
      PROVE  RatesAt(curve', d) = RatesAt(curve, d)
    <2> DEFINE R == RatesAt(curve, d)
    <2>1. Answers(curve, d, R)
        BY <1>1, QGrounded, Rated
    <2>2. ASSUME NEW x \in Curves PROVE Answer(curve', d, R, x) = Answer(curve, d, R, x)
        <3> DEFINE y == curve[x]
        <3>1. PICK z : z = curve'[x]
            OBVIOUS
        <3>2. CASE z = y
            BY <3>1, <3>2 DEF Answer
        <3>3. CASE z # y
            <4>1. /\ y.alive /\ z.alive /\ e # 0 /\ e < y.cacheSize /\ ~ Factored(y)
                  /\ \A f \in Fields \ {"cache"} : z[f] = y[f]
                  /\ z.cache = [y.cache EXCEPT ![e] = RatesAt(curve, e)[x]]
                BY <1>1, <3>1, <3>3, Asking
            <4>2. /\ z.tab = y.tab /\ z.composite = y.composite /\ z.base = y.base
                  /\ z.spread = y.spread /\ z.add = y.add /\ z.mult = y.mult
                  /\ z.start = y.start /\ z.end = y.end /\ z.cacheSize = y.cacheSize
                BY <4>1 DEF Fields
            <4>3. /\ TableRate(z, d) = TableRate(y, d) /\ Factored(z) = Factored(y)
                  /\ \A rate : ApplyFactors(z, rate) = ApplyFactors(y, rate)
                  /\ \A f : Composed(z, f) = Composed(y, f)
                BY <4>2 DEF TableRate, RateFrom, Factored, ApplyFactors, Scaled, Composed
            <4>4. DOMAIN y.cache = 0..CacheSize - 1 /\ y.cacheSize \in {0, CacheSize}
                BY <1>1, <4>1 DEF QInv, Sound
            <4>5. e \in 0..CacheSize - 1
                BY <4>1, <4>4, YieldConstants
            <4>6. CASE d # e
                <5>1. z.cache[d] = y.cache[d]
                    BY <4>1, <4>6
                <5>2. Cached(z, d) = Cached(y, d)
                    BY <4>2, <4>3, <5>1 DEF Cached
                <5>3. QED
                    BY <3>1, <4>1, <4>2, <4>3, <5>1, <5>2 DEF Answer
            <4>7. CASE d = e
                <5>1. z.cache[d] = R[x]
                    BY <4>1, <4>4, <4>5, <4>7
                <5>2. R[x] = Answer(curve, d, R, x)
                    BY <2>1 DEF Answers
                <5>3. QED
                    BY <5>1, <5>2, <3>1, <4>1, <4>2, <4>3 DEF Answer, Cached
            <4>8. QED
                BY <4>6, <4>7
        <3>4. QED
            BY <3>2, <3>3
    <2> HIDE DEF R
    <2>3. Answers(curve', d, R)
        BY <2>1, <2>2 DEF Answers
    <2>4. Grounded(curve')
        BY <1>1, QGrounded DEF Grounded, QInv, Sound, Below
    <2>5. QED
        BY <2>3, <2>4, Rated DEF R
<1>2. ASSUME QInv, QInv', [Next]_vars, UNCHANGED steps, NEW d \in Days
      PROVE  RatesAt(curve', d) = RatesAt(curve, d)
    <2>1. CASE \E c \in Curves : \E e \in Days : GetDiscountFactor(c, e)
        BY <1>1, <1>2, <2>1
    <2>2. CASE UNCHANGED vars
        BY <2>2 DEF vars
    <2>3. CASE steps' = steps + 1
        BY <1>2, <2>3 DEF QInv
    <2>4. QED
        BY <1>2, <2>1, <2>2, <2>3 DEF Next, New, SetDiscountFactor, RemoveElementRange,
           SetComposite, SetFactors, CacheEnable, Clone, Free, Change
<1>3. QInv /\ QInv' /\ [Next]_vars => [UNCHANGED steps =>
            \A d \in Days : RatesAt(curve', d) = RatesAt(curve, d)]_vars
    BY <1>2
<1>4. QED
    BY <1>3, QInvariance, PTL DEF Spec, AskingIsQuiet
-----------------------------------------------------------------------------
(***************************************************************************)
(* The bisection finds the first entry that is not before the day.         *)
(***************************************************************************)

\* A step of the loop, given what the loop finds in the halves.
Halve(tab, d, part, found) ==
    LET begin == part[1]
        end == part[2]
        mid == begin + (end - begin) \div 2
    IN  IF mid \notin 1..Len(tab) \/ end < begin THEN Outside
        ELSE IF d > tab[mid].day THEN found[<<mid + 1, end>>]
        ELSE IF d = tab[mid].day THEN mid
        ELSE IF mid = 1 THEN Outside
        ELSE IF d > tab[mid - 1].day THEN mid
        ELSE IF end = mid THEN Outside
        ELSE found[<<begin, mid>>]
Halves(tab, d, f) ==
    f = [part \in (1..Len(tab) + 1) \X (0..Len(tab) + 1) |-> Halve(tab, d, part, f)]

LEMMA SearchIs == ASSUME NEW tab, NEW d
                  PROVE  Search(tab, d) = (CHOOSE f : Halves(tab, d, f))[<<1, Len(tab) + 1>>]
BY DEF Search, Halves, Halve

\* The middle of a part of the array is in it.
LEMMA Middle ==
    ASSUME NEW b \in Nat, NEW e \in Nat, b < e
    PROVE  b + (e - b) \div 2 \in b..e - 1
OBVIOUS

LEMMA HalvesExist ==
    ASSUME NEW R, Dated(R), NEW tab \in Seq(R), NEW d \in Int
    PROVE  \E f : Halves(tab, d, f)
<1> DEFINE n == Len(tab)
           D == (1..n + 1) \X (0..n + 1)
           F == [D -> Int]
           rank == [p \in D |-> n + 1 + p[2] - p[1]]
           step == [p \in D |-> [f \in F |-> Halve(tab, d, p, f)]]
<1>1. n \in Nat /\ \A i \in 1..n : tab[i].day \in Int
    BY DEF Dated
<1>2. rank \in [D -> Nat]
    BY <1>1
<1>d. ASSUME NEW b \in 1..n + 1, NEW e \in 0..n + 1
      PROVE  <<b, e>> \in D /\ rank[<<b, e>>] = n + 1 + e - b
    OBVIOUS
<1>3. ASSUME NEW p \in D, NEW f \in F, NEW g \in F,
             \A q \in D : rank[q] < rank[p] => f[q] = g[q]
      PROVE  /\ Halve(tab, d, p, f) = Halve(tab, d, p, g)
             /\ Halve(tab, d, p, f) \in Int
    <2> DEFINE mid == p[1] + (p[2] - p[1]) \div 2
    <2>1. p[1] \in 1..n + 1 /\ p[2] \in 0..n + 1 /\ mid \in Int
        BY <1>1
    <2>2. CASE mid \notin 1..n \/ p[2] < p[1]
        BY <2>2 DEF Halve, Outside
    <2>3. CASE mid \in 1..n /\ p[1] <= p[2]
        <3>1. mid \in p[1]..p[2] /\ rank[p] = n + 1 + p[2] - p[1]
            BY <1>1, <2>1, <2>3
        <3> HIDE DEF rank, D
        <3>2. <<mid + 1, p[2]>> \in D /\ rank[<<mid + 1, p[2]>>] < rank[p]
            <4>1. mid + 1 \in 1..n + 1
                BY <1>1, <2>3
            <4>2. rank[<<mid + 1, p[2]>>] = n + 1 + p[2] - (mid + 1)
                BY <1>d, <2>1, <4>1
            <4>3. QED
                BY <1>1, <1>d, <2>1, <3>1, <4>1, <4>2, SMTT(30)
        <3>3. <<p[1], mid>> \in D /\ (mid # p[2] => rank[<<p[1], mid>>] < rank[p])
            <4>1. mid \in 0..n + 1
                BY <1>1, <2>3
            <4>2. rank[<<p[1], mid>>] = n + 1 + mid - p[1]
                BY <1>d, <2>1, <4>1
            <4>3. QED
                BY <1>1, <1>d, <2>1, <3>1, <4>1, <4>2, SMTT(30)
        <3>4. f[<<mid + 1, p[2]>>] = g[<<mid + 1, p[2]>>] /\ f[<<mid + 1, p[2]>>] \in Int
            BY <1>3, <3>2
        <3>5. f[<<p[1], mid>>] \in Int /\ (mid # p[2] => f[<<p[1], mid>>] = g[<<p[1], mid>>])
            BY <1>3, <3>3
        <3> HIDE DEF mid
        <3>6. QED
            BY <2>1, <3>4, <3>5 DEF Halve, Outside, mid
    <2>4. QED
        BY <1>1, <2>1, <2>2, <2>3
<1>4. step \in [D -> [F -> Int]] /\ LowerOnly(F, D, step, rank)
    <2> HIDE DEF D, F, rank
    <2>1. step \in [D -> [F -> Int]]
        BY <1>3
    <2>2. \A p \in D, f \in F : step[p][f] = Halve(tab, d, p, f)
        OBVIOUS
    <2> HIDE DEF step
    <2>3. QED
        BY <1>3, <2>1, <2>2 DEF LowerOnly
<1> HIDE DEF D, rank, step
<1>5. PICK f : Recursion(f, F, D, step)
    BY <1>2, <1>4, Recurses
<1>6. Halves(tab, d, f)
    BY <1>5 DEF Recursion, Halves, D, step
<1>7. QED
    BY <1>6

\* While the entry is in the part that is searched, the loop comes to it.
LEMMA SearchFinds ==
    ASSUME NEW R, Dated(R), NEW tab \in Seq(R), InOrder(tab), NEW d \in Int,
           NEW k \in 2..Len(tab), tab[k].day >= d, tab[k-1].day < d
    PROVE  Search(tab, d) = k
<1> DEFINE n == Len(tab)
           f == CHOOSE g : Halves(tab, d, g)
           T == {m \in Nat : \A b \in 1..n + 1, e \in 0..n + 1 :
                               b <= k /\ k < e /\ e - b <= m => f[<<b, e>>] = k}
<1>1. n \in Nat /\ \A i \in 1..n : tab[i].day \in Int
    BY DEF Dated
<1>2. \A i \in 1..n : (i < k => tab[i].day < d) /\ (i >= k => d <= tab[i].day)
    BY <1>1, SMTT(30) DEF InOrder
<1>3. ASSUME NEW b \in 1..n + 1, NEW e \in 0..n + 1
      PROVE  f[<<b, e>>] = Halve(tab, d, <<b, e>>, f)
    <2>1. Halves(tab, d, f)
        BY HalvesExist
    <2> HIDE DEF f
    <2>2. QED
        BY <2>1 DEF Halves
<1> HIDE DEF f
<1>4. 0 \in T
    OBVIOUS
<1>5. ASSUME NEW m \in Nat, m \in T PROVE m + 1 \in T
    <2> SUFFICES ASSUME NEW b \in 1..n + 1, NEW e \in 0..n + 1, b <= k, k < e, e - b <= m + 1
                 PROVE  f[<<b, e>>] = k
        OBVIOUS
    <2>m. PICK mid : mid = b + (e - b) \div 2
        OBVIOUS
    <2>1. mid \in b..e - 1 /\ mid \in 1..n
        <3>1. b \in Nat /\ e \in Nat /\ b < e /\ b >= 1 /\ e <= n + 1
            BY <1>1
        <3>2. mid \in b..e - 1
            BY ONLY <3>1, <2>m, Middle
        <3>3. QED
            BY ONLY <1>1, <3>1, <3>2
    <2>a. ASSUME NEW g
          PROVE  /\ d > tab[mid].day => Halve(tab, d, <<b, e>>, g) = g[<<mid + 1, e>>]
                 /\ d < tab[mid].day /\ mid # 1 /\ d <= tab[mid - 1].day /\ e # mid
                       => Halve(tab, d, <<b, e>>, g) = g[<<b, mid>>]
                 /\ d <= tab[mid].day /\ mid # 1 /\ tab[mid - 1].day < d
                       => Halve(tab, d, <<b, e>>, g) = mid
        <3>1. <<b, e>>[1] = b /\ <<b, e>>[2] = e /\ ~ (e < b)
            OBVIOUS
        <3>2. tab[mid].day \in Int /\ (mid # 1 => tab[mid - 1].day \in Int)
            <4>1. mid \in 1..n /\ (mid # 1 => mid - 1 \in 1..n)
                BY ONLY <1>1, <2>1
            <4>2. QED
                BY <1>1, <4>1
        <3>3. Halve(tab, d, <<b, e>>, g) =
                IF d > tab[mid].day THEN g[<<mid + 1, e>>]
                ELSE IF d = tab[mid].day THEN mid
                ELSE IF mid = 1 THEN Outside
                ELSE IF d > tab[mid - 1].day THEN mid
                ELSE IF e = mid THEN Outside
                ELSE g[<<b, mid>>]
            BY <2>m, <2>1, <3>1, Zenon DEF Halve, n
        <3>4. QED
            BY ONLY <2>1, <3>2, <3>3, d \in Int
    <2>2. CASE mid < k
        <3>1. mid + 1 \in 1..n + 1 /\ mid + 1 <= k /\ e - (mid + 1) <= m
            BY <1>1, <2>1, <2>2
        <3>2. f[<<mid + 1, e>>] = k
            BY <1>5, <3>1
        <3>3. tab[mid].day < d
            BY <1>2, <2>1, <2>2
        <3>4. Halve(tab, d, <<b, e>>, f) = f[<<mid + 1, e>>]
            BY ONLY <2>a, <3>3
        <3>5. QED
            BY <1>3, <3>2, <3>4
    <2>3. CASE mid = k
        <3>1. mid # 1 /\ d <= tab[mid].day /\ tab[mid - 1].day < d
            BY <2>3
        <3>2. Halve(tab, d, <<b, e>>, f) = mid
            BY ONLY <2>a, <3>1
        <3>3. QED
            BY <1>3, <2>3, <3>2
    <2>4. CASE mid > k
        <3>1. mid \in 0..n + 1 /\ k < mid /\ mid - b <= m /\ mid # e /\ mid - 1 \in 1..n
            BY <1>1, <2>1, <2>4, SMTT(30)
        <3>2. f[<<b, mid>>] = k
            BY <1>5, <3>1
        <3>3. d < tab[mid].day /\ d <= tab[mid - 1].day
            BY <1>1, <1>2, <2>1, <2>4, <3>1 DEF InOrder
        <3>4. f[<<b, e>>] = f[<<b, mid>>]
            <4>1. mid # 1 /\ e # mid
                BY <2>4, <3>1
            <4>2. Halve(tab, d, <<b, e>>, f) = f[<<b, mid>>]
                BY ONLY <2>a, <3>3, <4>1
            <4>3. QED
                BY <1>3, <4>2
        <3>5. QED
            BY <3>2, <3>4
    <2>5. QED
        BY <1>1, <2>1, <2>2, <2>3, <2>4
<1> HIDE DEF T
<1>6. Nat \subseteq T
    BY <1>4, <1>5, Naturals
<1>7. n \in T
    BY <1>1, <1>6
<1>8. f[<<1, n + 1>>] = k
    BY <1>1, <1>7, SMTT(30) DEF T
<1>9. QED
    BY <1>8, SearchIs DEF f

\* The place of a day: behind the entries before it, at or before the others.
LEMMA Place ==
    ASSUME NEW R, Dated(R), NEW tab \in Seq(R), InOrder(tab), NEW d \in Int, tab # << >>
    PROVE  /\ LowerBound(tab, d) \in 1..Len(tab) + 1
           /\ \A i \in 1..Len(tab) : (i < LowerBound(tab, d) => tab[i].day < d)
                                  /\ (i >= LowerBound(tab, d) => d <= tab[i].day)
<1> DEFINE n == Len(tab)
<1>1. n \in Nat \ {0} /\ \A i \in 1..n : tab[i].day \in Int
    BY DEF Dated
<1>2. CASE d <= tab[1].day
    BY <1>1, <1>2 DEF LowerBound, InOrder
<1>3. CASE tab[n].day < d
    <2>1. LowerBound(tab, d) = n + 1
        BY <1>1, <1>3 DEF LowerBound, InOrder
    <2>2. QED
        BY <1>1, <1>3, <2>1 DEF InOrder
<1>4. CASE tab[1].day < d /\ d <= tab[n].day
    <2> DEFINE U == {i \in 1..n : d <= tab[i].day}
    <2>1. U \in SUBSET Nat /\ U # {}
        BY <1>1, <1>4
    <2>2. PICK k \in U : \A i \in U : k <= i
        BY <2>1, LeastExists
    <2>3. k \in 2..n /\ tab[k-1].day < d /\ d <= tab[k].day
        <3>1. k # 1 /\ k - 1 \notin U
            BY <1>1, <1>4, <2>2
        <3>2. QED
            BY <1>1, <2>2, <3>1
    <2>4. Search(tab, d) = k
        BY <2>3, SearchFinds
    <2>5. LowerBound(tab, d) = k
        BY <1>1, <1>4, <2>4 DEF LowerBound
    <2>6. QED
        BY <1>1, <2>3, <2>5, SMTT(30) DEF InOrder
<1>5. QED
    BY <1>1, <1>2, <1>3, <1>4
-----------------------------------------------------------------------------
(***************************************************************************)
(* The table answers what is drawn through what was told.                  *)
(***************************************************************************)

LEMMA GreatestIs ==
    ASSUME NEW S, S \subseteq Int, NEW x \in S, \A z \in S : z <= x
    PROVE  Greatest(S) = x
<1>1. \E g \in S : \A z \in S : z <= g
    OBVIOUS
<1>2. PICK g : g = Greatest(S)
    OBVIOUS
<1>3. g \in S /\ \A z \in S : z <= g
    BY <1>1, <1>2, Zenon DEF Greatest
<1>4. QED
    BY <1>2, <1>3

LEMMA LeastIs ==
    ASSUME NEW S, S \subseteq Int, NEW x \in S, \A z \in S : x <= z
    PROVE  Least(S) = x
<1>1. \E g \in S : \A z \in S : g <= z
    OBVIOUS
<1>2. PICK g : g = Least(S)
    OBVIOUS
<1>3. g \in S /\ \A z \in S : g <= z
    BY <1>1, <1>2, Zenon DEF Least
<1>4. QED
    BY <1>2, <1>3

\* The days that were told are those of the entries.
LEMMA TableDays ==
    ASSUME NEW t \in Seq(Row), NEW what \in Told, Says(t, what)
    PROVE  /\ Points(what) = {t[i].day : i \in 1..Len(t)} /\ Points(what) \subseteq EntryDays
           /\ \A i \in 1..Len(t) : what[t[i].day] = t[i].value /\ t[i].value \in Int
<1>1. \A i \in 1..Len(t) : t[i].day \in EntryDays /\ t[i].value \in Rates
    BY Rows
<1>2. Rates \subseteq Int /\ None \notin Int
    BY YieldConstants, NoRate
<1>3. \A i \in 1..Len(t) : what[t[i].day] = t[i].value /\ t[i].value \in Int
    BY <1>1, <1>2 DEF Says
<1>4. Points(what) = {t[i].day : i \in 1..Len(t)}
    BY <1>1, <1>2, <1>3 DEF Says, Points
<1>5. QED
    BY <1>3, <1>4 DEF Points

\* Whether the rate of an entry can be told: a factor over no time cannot.
Rateable(what) == 0 \in Points(what) => Cardinality(Points(what) \ {0}) > 1

LEMMA TwoRateable ==
    ASSUME NEW what, Rateable(what), 0 \in Points(what)
    PROVE  /\ Points(what) \ {0} # {}
           /\ \A x : ~ (Points(what) \ {0} \subseteq {x})
<1>1. Cardinality(Points(what) \ {0}) > 1
    BY DEF Rateable
<1>2. Cardinality({}) = 0
    BY FS_EmptySet
<1>3. ASSUME NEW x, Points(what) \ {0} \subseteq {x} PROVE FALSE
    <2>1. Points(what) \ {0} = {} \/ Points(what) \ {0} = {x}
        BY <1>3
    <2>2. Cardinality({x}) = 1
        BY FS_Singleton
    <2>3. QED
        BY <1>1, <1>2, <2>1, <2>2
<1>4. QED
    BY <1>1, <1>2, <1>3

\* The line through two entries is the one through what was told of their days.
LEMMA AlongLine ==
    ASSUME NEW a \in Int, NEW b \in Int, NEW what, NEW e1, NEW e2, e1.day = a, e2.day = b,
           0 < a, a < b, what[a] = e1.value, what[b] = e2.value,
           e1.value \in Int, e2.value \in Int, NEW d \in Int
    PROVE  Along(d, e1, e2) = Line(what, d, a, b) /\ Line(what, d, a, b) \in Int
<1>1. ZeroOf(e1) = e1.value /\ ZeroOf(e2) = e2.value
    BY DEF ZeroOf
<1>2. NaN \notin {e1.value, e2.value}
    BY NoRate
<1>3. Along(d, e1, e2) = Linear(d, a, e1.value, b, e2.value)
    BY <1>1, <1>2 DEF Along
<1>4. Linear(d, a, e1.value, b, e2.value) = Line(what, d, a, b)
    BY DEF Linear, Line
<1>5. Line(what, d, a, b) \in Int
    <2>1. b - a \in Int /\ b - a > 0 /\ (e2.value - e1.value) * (d - a) \in Int
        OBVIOUS
    <2>2. ((e2.value - e1.value) * (d - a)) \div (b - a) \in Int
        BY <2>1
    <2>3. QED
        BY <2>2 DEF Line
<1>6. QED
    BY <1>3, <1>4, <1>5

\* Each way the code takes to the rate of a day leads to what is drawn.
LEMMA TableDraws ==
    ASSUME NEW y, NEW what \in Told, Kept(y, what), y.end \in Ends, Rateable(what),
           NEW d \in Days, d # 0
    PROVE  TableRate(y, d) = Drawn(y, what, d) /\ Drawn(y, what, d) \in Int
<1> DEFINE t == y.tab
           n == Len(t)
           e == LowerBound(t, d)
           P == Points(what) \ {0}
           L == {x \in P : x <= d}
           U == {x \in P : x >= d}
<1>1. /\ t \in Seq(Row) /\ InOrder(t) /\ Says(t, what) /\ n \in Nat
      /\ d \in Nat \ {0} /\ EntryDays \subseteq Nat
    BY Rows, YieldConstants DEF Kept
<1>2. /\ P \subseteq Nat \ {0} /\ P \subseteq Int
      /\ \A i \in 1..n : /\ what[t[i].day] = t[i].value /\ t[i].value \in Int
                         /\ t[i].day \in Nat /\ (t[i].day # 0 => t[i].day \in P)
      /\ \A x \in P : \E i \in 1..n : x = t[i].day
      /\ 0 \in Points(what) <=> \E i \in 1..n : t[i].day = 0
    <2>1. /\ Points(what) = {t[i].day : i \in 1..n} /\ Points(what) \subseteq EntryDays
          /\ \A i \in 1..n : what[t[i].day] = t[i].value /\ t[i].value \in Int
        BY <1>1, TableDays
    <2>2. \A i \in 1..n : t[i].day \in Points(what) /\ t[i].day \in Nat
        BY <1>1, <2>1
    <2> HIDE DEF t, n
    <2>3. P \subseteq Nat \ {0} /\ P \subseteq Int
        <3>1. Points(what) \subseteq EntryDays
            BY <2>1
        <3>2. EntryDays \subseteq Nat
            BY YieldConstants
        <3>3. \A x \in P : x \in Nat /\ x # 0
            BY <3>1, <3>2
        <3> HIDE DEF P
        <3>4. QED
            BY <3>3
    <2>4. \A x \in P : \E i \in 1..n : x = t[i].day
        BY <2>1
    <2>5. QED
        BY <2>1, <2>2, <2>3, <2>4
<1>L. \A x : (x \in L <=> x \in P /\ x <= d) /\ (x \in U <=> x \in P /\ x >= d)
    OBVIOUS
<1>i. \A i \in 1..n : i \in Int
    BY <1>1
<1>3. \A i, j \in 1..n : (i < j => t[i].day < t[j].day) /\ (i <= j => t[i].day <= t[j].day)
    BY <1>1, <1>2 DEF InOrder
<1>4. \A i \in 1..n : t[i].day # 0 => ZeroOf(t[i]) = t[i].value /\ t[i].value # NaN
    BY <1>2, NoRate DEF ZeroOf
<1>5. t # << >> => /\ e \in 1..n + 1
                   /\ \A i \in 1..n : (i < e => t[i].day < d) /\ (i >= e => d <= t[i].day)
    <2>1. d \in Int
        BY <1>1
    <2> HIDE DEF t
    <2>2. QED
        BY <1>1, <2>1, DatedRow, Place
<1>6. n = 0 <=> t = << >>
    BY <1>1
<1>t. TableRate(y, d) =
        LET s == Spot(t, d)
        IN  CASE s.how = "none" -> 0
              [] s.how = "exact" -> ZeroOf(s.lo)
              [] s.how = "between" -> IF s.lo.day = 0 THEN ZeroOf(s.hi) ELSE Along(d, s.lo, s.hi)
              [] s.how = "before" -> IF y.start = "linear_zero_zero"
                                     THEN Linear(d, 0, 0, s.lo.day, ZeroOf(s.lo)) ELSE ZeroOf(s.lo)
              [] s.how = "last" -> ZeroOf(s.lo)
              [] s.how = "after" -> IF y.end = "linear_zero" THEN Along(d, s.lo, s.hi) ELSE ZeroOf(s.hi)
              [] OTHER -> NaN
    BY DEF TableRate, RateFrom
<1>D. Drawn(y, what, d) =
        IF P = {} THEN 0
        ELSE IF d \in P THEN what[d]
        ELSE IF L = {} THEN
          IF y.start = "linear_zero_zero" /\ 0 \notin Points(what)
          THEN (what[Least(P)] * d) \div Least(P) ELSE what[Least(P)]
        ELSE IF U # {} THEN Line(what, d, Greatest(L), Least(U))
        ELSE IF y.end = "last_zero" \/ P = {Greatest(P)} THEN what[Greatest(P)]
        ELSE Line(what, d, Greatest(P \ {Greatest(P)}), Greatest(P))
    BY DEF Drawn
<1>s. Spot(t, d) =
        IF n = 0 THEN [how |-> "none"]
        ELSE IF e = Outside THEN [how |-> "outside"]
        ELSE IF e = n + 1 THEN IF n = 1 THEN [how |-> "last", lo |-> t[1], hi |-> t[1]]
                               ELSE [how |-> "after", lo |-> t[n - 1], hi |-> t[n]]
        ELSE IF t[e].day = d THEN [how |-> "exact", lo |-> t[e], hi |-> t[e]]
        ELSE IF e = 1 THEN [how |-> "before", lo |-> t[1], hi |-> t[1]]
        ELSE [how |-> "between", lo |-> t[e - 1], hi |-> t[e]]
    BY DEF Spot, SpotAt
<1> HIDE DEF t, e, n, P, L, U
<1>r. 0 \in Points(what) => P # {} /\ \A x : ~ (P \subseteq {x})
    BY TwoRateable DEF P
<1>7. CASE n = 0
    <2>1. P = {}
        BY <1>2, <1>7
    <2>2. Spot(t, d).how = "none"
        BY <1>7, <1>s
    <2>3. QED
        BY <2>1, <2>2, <1>t, <1>D, <1>s
<1>8. CASE n # 0 /\ e = n + 1
    <2>1. \A i \in 1..n : t[i].day < d
        BY <1>1, <1>5, <1>6, <1>8
    <2>2. d \notin P /\ U = {} /\ L = P
        <3>1. \A x \in P : x < d
            BY <1>2, <2>1
        <3>2. \A x \in P : x <= d /\ ~ (x >= d) /\ x # d
            BY <1>1, <1>2, <3>1
        <3>3. QED
            BY <1>L, <3>2
    <2>3. e # Outside
        BY <1>1, <1>8 DEF Outside
    <2>4. ASSUME t[n].day # 0 PROVE Greatest(P) = t[n].day /\ P # {}
        <3>1. t[n].day \in P /\ \A x \in P : x <= t[n].day
            BY <1>1, <1>2, <1>3, <1>8, <2>4, SMTT(30)
        <3>2. QED
            BY <1>2, <3>1, GreatestIs
    <2>5. CASE n = 1
        <3>1. Spot(t, d) = [how |-> "last", lo |-> t[1], hi |-> t[1]]
            BY <1>8, <2>3, <2>5, <1>s
        <3>2. t[1].day # 0
            <4>1. P \subseteq {t[1].day}
                BY <1>2, <2>5
            <4>2. QED
                BY <1>2, <2>5, <4>1, <1>r
        <3>3. P = {t[1].day}
            <4>1. \A i \in 1..n : i = 1
                BY <2>5
            <4>2. 1 \in 1..n
                BY <2>5
            <4>3. \A x \in P : x = t[1].day
                BY <1>2, <4>1
            <4>4. t[1].day \in P
                BY <1>2, <3>2, <4>2
            <4>5. QED
                BY <4>3, <4>4
        <3>4. Drawn(y, what, d) = what[t[1].day]
            BY <2>2, <2>4, <2>5, <3>2, <3>3, <1>D
        <3>5. TableRate(y, d) = ZeroOf(t[1])
            BY <3>1, <1>t
        <3>6. QED
            BY <1>2, <1>4, <2>5, <3>2, <3>4, <3>5
    <2>6. CASE n # 1
        <3> DEFINE lo == t[n-1]
                   hi == t[n]
        <3>1. n - 1 \in 1..n /\ n \in 1..n /\ lo.day < hi.day /\ hi.day # 0
            BY <1>1, <1>2, <1>3, <1>8, <2>6, SMTT(30)
        <3>2. Spot(t, d) = [how |-> "after", lo |-> lo, hi |-> hi]
            BY <1>8, <2>3, <2>6, <1>s
        <3>3. TableRate(y, d) = IF y.end = "linear_zero" THEN Along(d, lo, hi) ELSE ZeroOf(hi)
            BY <3>2, <1>t
        <3>4. lo.day # 0
            <4>1. lo.day = 0 => P \subseteq {hi.day}
                <5> SUFFICES ASSUME lo.day = 0, NEW x \in P PROVE x = hi.day
                    OBVIOUS
                <5>1. PICK i \in 1..n : x = t[i].day
                    BY <1>2
                <5>2. ~ (i <= n - 1)
                    BY <1>1, <1>2, <1>3, <3>1, <5>1
                <5>3. QED
                    BY <1>1, <5>1, <5>2
            <4>2. QED
                BY <1>2, <3>1, <4>1, <1>r
        <3>5. Greatest(P) = hi.day /\ P # {}
            BY <2>4, <3>1
        <3>6. lo.day \in P /\ P # {Greatest(P)}
            BY <1>2, <3>1, <3>4, <3>5
        <3>7. Greatest(P \ {Greatest(P)}) = lo.day
            <4> DEFINE Q == P \ {hi.day}
            <4>1. lo.day \in Q
                BY <1>2, <3>1, <3>6
            <4>2. ASSUME NEW x \in Q PROVE x <= lo.day
                <5>1. PICK i \in 1..n : x = t[i].day
                    BY <1>2
                <5>2. i # n
                    BY <5>1
                <5>3. i <= n - 1
                    BY <1>1, <5>2
                <5>4. QED
                    BY <1>3, <3>1, <5>1, <5>3
            <4>3. Q \subseteq Int
                BY <1>2
            <4> HIDE DEF Q
            <4>4. Greatest(Q) = lo.day
                BY <4>1, <4>2, <4>3, GreatestIs
            <4>5. QED
                BY <3>5, <4>4 DEF Q
        <3>8. Drawn(y, what, d) = IF y.end = "last_zero" THEN what[hi.day]
                                  ELSE Line(what, d, lo.day, hi.day)
            BY <2>2, <3>5, <3>6, <3>7, <1>D
        <3>9. Along(d, lo, hi) = Line(what, d, lo.day, hi.day) /\ Line(what, d, lo.day, hi.day) \in Int
            <4>1. /\ lo.day \in Int /\ hi.day \in Int /\ 0 < lo.day /\ d \in Int
                  /\ what[lo.day] = lo.value /\ what[hi.day] = hi.value
                  /\ lo.value \in Int /\ hi.value \in Int
                BY <1>1, <1>2, <3>1, <3>4
            <4> HIDE DEF lo, hi
            <4>2. QED
                BY <3>1, <4>1, AlongLine
        <3>10. ZeroOf(hi) = what[hi.day] /\ what[hi.day] \in Int
            BY <1>2, <1>4, <3>1
        <3>11. QED
            BY <3>3, <3>8, <3>9, <3>10 DEF Ends
    <2>7. QED
        BY <2>5, <2>6
<1>9. CASE n # 0 /\ e \in 1..n /\ t[e].day = d
    <2>1. Spot(t, d) = [how |-> "exact", lo |-> t[e], hi |-> t[e]]
        BY <1>1, <1>9, <1>s DEF Outside
    <2>2. TableRate(y, d) = ZeroOf(t[e])
        BY <2>1, <1>t
    <2>3. d \in P
        BY <1>1, <1>2, <1>9
    <2>4. Drawn(y, what, d) = what[d]
        BY <2>3, <1>D
    <2>5. QED
        BY <1>1, <1>2, <1>4, <1>9, <2>2, <2>4
<1>10. CASE n # 0 /\ e \in 1..n /\ t[e].day # d
    <2>1. d < t[e].day /\ t[e].day # 0
        BY <1>1, <1>2, <1>5, <1>6, <1>10
    <2>2. d \notin P
        <3> SUFFICES ASSUME NEW i \in 1..n, t[i].day = d PROVE FALSE
            BY <1>2
        <3>1. i < e \/ i >= e
            BY <1>1, <1>10
        <3>2. i >= e => t[e].day <= t[i].day
            BY <1>1, <1>3, <1>10
        <3>3. QED
            BY <1>1, <1>2, <1>5, <1>6, <1>10, <2>1, <3>1, <3>2
    <2>3. t[e].day \in U /\ \A x \in U : t[e].day <= x
        <3>1. t[e].day \in U
            BY <1>1, <1>2, <1>L, <1>10, <2>1
        <3>2. ASSUME NEW x \in U PROVE t[e].day <= x
            <4>1. PICK i \in 1..n : x = t[i].day
                BY <1>2, <1>L
            <4>2. ~ (i < e)
                BY <1>1, <1>2, <1>5, <1>6, <1>10, <3>2, <4>1, <1>L
            <4>3. QED
                BY <1>1, <1>3, <1>10, <4>1, <4>2
        <3>3. QED
            BY <3>1, <3>2
    <2>4. CASE e = 1
        <3>1. Spot(t, d) = [how |-> "before", lo |-> t[1], hi |-> t[1]]
            BY <1>1, <1>10, <2>4, <1>s DEF Outside
        <3>2. TableRate(y, d) = IF y.start = "linear_zero_zero"
                                THEN Linear(d, 0, 0, t[1].day, ZeroOf(t[1])) ELSE ZeroOf(t[1])
            BY <3>1, <1>t
        <3>3. L = {} /\ 0 \notin Points(what) /\ P = U /\ P # {}
            <4>1. \A i \in 1..n : t[i].day > d
                BY <1>1, <1>2, <1>3, <2>1, <2>4
            <4>2. \A x \in P : x > d
                BY <1>2, <4>1
            <4>3. \A x \in P : ~ (x <= d) /\ x >= d
                BY <1>1, <1>2, <4>2
            <4>4. L = {} /\ P = U
                BY <1>L, <4>3
            <4>5. 0 \notin Points(what)
                BY <1>1, <1>2, <4>1
            <4>6. QED
                BY <2>3, <4>4, <4>5
        <3>4. Least(P) = t[1].day
            BY <1>2, <2>3, <2>4, <3>3, LeastIs
        <3>5. Drawn(y, what, d) = IF y.start = "linear_zero_zero"
                                  THEN (what[t[1].day] * d) \div t[1].day ELSE what[t[1].day]
            BY <2>2, <3>3, <3>4, <1>D
        <3>6. /\ ZeroOf(t[1]) = what[t[1].day] /\ what[t[1].day] \in Int
              /\ t[1].day \in Nat \ {0}
            BY <1>2, <1>4, <1>10, <2>1, <2>4
        <3>7. Linear(d, 0, 0, t[1].day, ZeroOf(t[1])) = (what[t[1].day] * d) \div t[1].day
            BY <1>1, <3>6 DEF Linear
        <3>8. (what[t[1].day] * d) \div t[1].day \in Int
            BY <1>1, <3>6
        <3>9. QED
            BY <3>2, <3>5, <3>6, <3>7, <3>8
    <2>5. CASE e # 1
        <3> DEFINE lo == t[e-1]
                   hi == t[e]
        <3>1. Spot(t, d) = [how |-> "between", lo |-> lo, hi |-> hi]
            BY <1>1, <1>10, <2>5, <1>s DEF Outside
        <3>2. TableRate(y, d) = IF lo.day = 0 THEN ZeroOf(hi) ELSE Along(d, lo, hi)
            BY <3>1, <1>t
        <3>3. e - 1 \in 1..n /\ lo.day < d /\ lo.day < hi.day
            BY <1>1, <1>3, <1>5, <1>6, <1>10, <2>5
        <3>4. ASSUME NEW x \in L PROVE x <= lo.day
            <4>1. PICK i \in 1..n : x = t[i].day
                BY <1>2, <1>L
            <4>2. ~ (i >= e)
                <5>1. x <= d /\ x \in Int
                    BY <1>2, <1>L, <3>4
                <5>3. d < t[e].day /\ d \in Int /\ t[e].day \in Int
                    BY <1>1, <1>2, <1>10, <2>1
                <5>2. i >= e => t[e].day <= t[i].day
                    BY <1>3, <1>10, <4>1
                <5>4. QED
                    BY <4>1, <5>1, <5>2, <5>3
            <4>3. i <= e - 1
                BY <1>1, <1>10, <4>2
            <4>4. QED
                BY <1>3, <3>3, <4>1, <4>3
        <3>5. CASE lo.day = 0
            <4>1. L = {}
                <5>1. \A x \in L : x \in P /\ x \in Nat \ {0} /\ x <= 0
                    BY <1>2, <1>L, <3>4, <3>5
                <5>2. QED
                    BY <5>1
            <4>2. 0 \in Points(what) /\ P = U /\ P # {}
                <5>1. 0 \in Points(what)
                    BY <1>2, <3>3, <3>5
                <5>2. \A x \in P : x \in U
                    BY <1>1, <1>2, <1>L, <4>1
                <5>3. QED
                    BY <1>L, <2>3, <5>1, <5>2
            <4>3. Least(P) = hi.day
                BY <1>2, <2>3, <4>2, LeastIs
            <4>4. Drawn(y, what, d) = what[hi.day]
                BY <2>2, <4>1, <4>2, <4>3, <1>D
            <4>5. QED
                BY <1>2, <1>4, <1>10, <2>1, <3>2, <3>5, <4>4
        <3>6. CASE lo.day # 0
            <4>1. lo.day \in L
                BY <1>1, <1>2, <1>L, <3>3, <3>6
            <4>2. Greatest(L) = lo.day
                BY <1>2, <1>L, <3>4, <4>1, GreatestIs
            <4>3. Least(U) = hi.day
                BY <1>2, <1>L, <2>3, LeastIs
            <4>4. Drawn(y, what, d) = Line(what, d, lo.day, hi.day)
                <5>1. L # {} /\ U # {} /\ P # {}
                    BY <1>L, <2>3, <4>1
                <5>2. QED
                    BY <2>2, <4>2, <4>3, <5>1, <1>D
            <4>5. Along(d, lo, hi) = Line(what, d, lo.day, hi.day) /\ Line(what, d, lo.day, hi.day) \in Int
                <5>1. /\ lo.day \in Int /\ hi.day \in Int /\ 0 < lo.day /\ d \in Int
                      /\ what[lo.day] = lo.value /\ what[hi.day] = hi.value
                      /\ lo.value \in Int /\ hi.value \in Int
                    BY <1>1, <1>2, <1>10, <3>3, <3>6
                <5> HIDE DEF lo, hi
                <5>2. QED
                    BY <3>3, <5>1, AlongLine
            <4>6. QED
                BY <3>2, <3>6, <4>4, <4>5
        <3>7. QED
            BY <3>5, <3>6
    <2>6. QED
        BY <2>4, <2>5
<1>11. QED
    BY <1>1, <1>5, <1>6, <1>7, <1>8, <1>9, <1>10
-----------------------------------------------------------------------------
\* What is drawn is a rate, also where the code has none.
LEMMA HasEnds ==
    ASSUME NEW y, NEW what \in Told, Kept(y, what), NEW S, S \subseteq Points(what), S # {}
    PROVE  /\ S \subseteq Nat
           /\ Least(S) \in S /\ \A z \in S : Least(S) <= z
           /\ Greatest(S) \in S /\ \A z \in S : z <= Greatest(S)
<1> DEFINE t == y.tab
           n == Len(t)
           I == {i \in 1..n : t[i].day \in S}
           J == {n - i : i \in I}
<1>1. t \in Seq(Row) /\ InOrder(t) /\ Says(t, what) /\ n \in Nat
    BY Rows DEF Kept
<1>2. /\ Points(what) \subseteq EntryDays /\ EntryDays \subseteq Nat
      /\ \A x \in S : \E i \in 1..n : x = t[i].day
    <2> HIDE DEF t
    <2>1. QED
        BY <1>1, TableDays, YieldConstants
<1>3. \A i, j \in I : t[i].day \in S /\ t[i].day \in Nat /\ (i < j => t[i].day < t[j].day)
    BY <1>1, <1>2 DEF InOrder
<1>4. S \subseteq Nat /\ S \subseteq Int
    <2>1. \A x \in S : x \in Points(what)
        OBVIOUS
    <2>2. \A x \in S : x \in Nat
        BY <1>2, <2>1
    <2>3. QED
        BY <2>2
<1>5. \A x \in S : \E i \in I : x = t[i].day
    BY <1>2
<1> HIDE DEF t
<1>6. I \in SUBSET Nat /\ J \in SUBSET Nat /\ I # {} /\ J # {}
    BY <1>1, <1>5
<1>7. PICK i \in I : \A k \in I : i <= k
    <2> HIDE DEF I
    <2>1. QED
        BY <1>6, LeastExists
<1>8. PICK j \in J : \A k \in J : j <= k
    <2> HIDE DEF J
    <2>1. QED
        BY <1>6, LeastExists
<1>9. PICK m \in I : \A k \in I : k <= m
    <2>1. PICK m \in I : j = n - m
        OBVIOUS
    <2>2. ASSUME NEW k \in I PROVE k <= m
        <3>1. n - k \in J /\ n - m <= n - k
            BY <1>8, <2>1
        <3>2. QED
            BY <1>1, <3>1
    <2>3. QED
        BY <2>2
<1> HIDE DEF I, J
<1>10. \A x \in S : t[i].day <= x
    BY <1>3, <1>5, <1>6, <1>7
<1>11. \A x \in S : x <= t[m].day
    BY <1>3, <1>5, <1>6, <1>9
<1>12. Least(S) = t[i].day
    BY <1>3, <1>4, <1>10, LeastIs
<1>13. Greatest(S) = t[m].day
    BY <1>3, <1>4, <1>11, GreatestIs
<1>14. QED
    BY <1>3, <1>4, <1>10, <1>11, <1>12, <1>13

LEMMA LineInt ==
    ASSUME NEW what, NEW d \in Int, NEW a \in Int, NEW b \in Int, a < b,
           what[a] \in Int, what[b] \in Int
    PROVE  Line(what, d, a, b) \in Int
<1>1. b - a \in Int /\ b - a > 0 /\ (what[b] - what[a]) * (d - a) \in Int
    OBVIOUS
<1>2. ((what[b] - what[a]) * (d - a)) \div (b - a) \in Int
    BY <1>1
<1>3. QED
    BY <1>2 DEF Line

LEMMA DrawnInt ==
    ASSUME NEW y, NEW what \in Told, Kept(y, what), NEW d \in Days
    PROVE  Drawn(y, what, d) \in Int
<1> DEFINE P == Points(what) \ {0}
           L == {x \in P : x <= d}
           U == {x \in P : x >= d}
           G == Greatest(P)
           Q == P \ {G}
<1>1. d \in Nat /\ d \in Int /\ EntryDays \subseteq Nat /\ Rates \subseteq Int
    BY YieldConstants
<1>2. \A x \in P : x \in EntryDays /\ x \in Int /\ x > 0 /\ what[x] \in Int
    <2> SUFFICES ASSUME NEW x \in P
                 PROVE  x \in EntryDays /\ x \in Int /\ x > 0 /\ what[x] \in Int
        OBVIOUS
    <2>1. x \in EntryDays /\ what[x] # None /\ x # 0
        BY DEF Points
    <2>2. what[x] \in Rates \cup {None}
        BY <2>1 DEF Told
    <2>3. x \in Nat
        BY <1>1, <2>1
    <2> HIDE DEF P
    <2>4. x \in Int /\ x > 0
        BY <2>1, <2>3
    <2>5. what[x] \in Int
        BY <1>1, <2>1, <2>2
    <2>6. QED
        BY <2>1, <2>4, <2>5
<1>3. \A S : S \subseteq P /\ S # {} =>
          /\ Least(S) \in S /\ \A z \in S : Least(S) <= z
          /\ Greatest(S) \in S /\ \A z \in S : z <= Greatest(S)
    BY HasEnds
<1>4. L \subseteq P /\ U \subseteq P /\ Q \subseteq P
    OBVIOUS
<1>5. Drawn(y, what, d) =
        IF P = {} THEN 0
        ELSE IF d \in P THEN what[d]
        ELSE IF L = {} THEN
          IF y.start = "linear_zero_zero" /\ 0 \notin Points(what)
          THEN (what[Least(P)] * d) \div Least(P) ELSE what[Least(P)]
        ELSE IF U # {} THEN Line(what, d, Greatest(L), Least(U))
        ELSE IF y.end = "last_zero" \/ P = {G} THEN what[G]
        ELSE Line(what, d, Greatest(Q), G)
    BY DEF Drawn
<1>6. \A x : (x \in L <=> x \in P /\ x <= d) /\ (x \in U <=> x \in P /\ x >= d)
             /\ (x \in Q <=> x \in P /\ x # G)
    OBVIOUS
<1> HIDE DEF P, L, U, G, Q
<1>7. ASSUME P # {} PROVE what[Least(P)] \in Int /\ (what[Least(P)] * d) \div Least(P) \in Int
    <2>1. Least(P) \in P
        BY <1>3, <1>7
    <2>2. QED
        BY <1>1, <1>2, <2>1
<1>8. ASSUME d \notin P, L # {}, U # {} PROVE Line(what, d, Greatest(L), Least(U)) \in Int
    <2>1. Greatest(L) \in P /\ Least(U) \in P /\ Greatest(L) <= d /\ Least(U) >= d
        BY <1>3, <1>4, <1>6, <1>8
    <2>2. Greatest(L) < Least(U)
        BY <1>1, <1>2, <1>8, <2>1
    <2>3. QED
        BY <1>1, <1>2, <2>1, <2>2, LineInt
<1>9. ASSUME P # {} PROVE /\ what[G] \in Int
                          /\ P # {G} => Line(what, d, Greatest(Q), G) \in Int
    <2>1. G \in P /\ \A z \in P : z <= G
        BY <1>3, <1>9 DEF G
    <2>2. ASSUME P # {G} PROVE Line(what, d, Greatest(Q), G) \in Int
        <3>1. Q # {}
            BY <1>6, <2>1, <2>2
        <3>2. Greatest(Q) \in P /\ Greatest(Q) # G
            BY <1>3, <1>4, <1>6, <3>1
        <3>3. Greatest(Q) < G
            BY <1>2, <2>1, <3>2
        <3>4. QED
            BY <1>1, <1>2, <2>1, <3>2, <3>3, LineInt
    <2>3. QED
        BY <1>2, <2>1, <2>2
<1>10. QED
    BY <1>2, <1>5, <1>7, <1>8, <1>9
-----------------------------------------------------------------------------
(***************************************************************************)
(* What a curve reaches, and what it should answer: both are made of what  *)
(* the curves below it reach and should answer.                            *)
(***************************************************************************)
Standing(cs) == \A c \in Curves : Parts(cs[c]) \subseteq Curves \cap 0..c - 1

Reaching(cs, A) == A = [x \in Curves |-> {x} \cup UNION {A[b] : b \in Parts(cs[x])}]

\* What holds of a curve if it holds of those it stands on holds of all.
LEMMA FromBelow ==
    ASSUME NEW cs, Standing(cs), NEW H,
           \A c \in Curves : (\A b \in Parts(cs[c]) : b \in H) => c \in H
    PROVE  Curves \subseteq H
<1> SUFFICES ASSUME Curves \ H # {} PROVE FALSE
    OBVIOUS
<1>1. Curves \ H \in SUBSET Nat
    BY YieldConstants
<1>2. PICK c \in Curves \ H : \A x \in Curves \ H : c <= x
    BY <1>1, LeastExists
<1>3. ASSUME NEW b \in Parts(cs[c]) PROVE b \in H
    <2>1. b \in Curves /\ b \in 0..c - 1 /\ c \in Nat
        BY <1>1 DEF Standing
    <2>2. b < c
        BY <2>1
    <2>3. QED
        BY <1>2, <2>1, <2>2
<1>4. QED
    BY <1>2, <1>3

LEMMA Reaches ==
    ASSUME NEW cs, Standing(cs), NEW c \in Curves
    PROVE  /\ Reach(cs, c) = {c} \cup UNION {Reach(cs, b) : b \in Parts(cs[c])}
           /\ \A b \in Parts(cs[c]) : b \in Curves /\ b < c
<1> DEFINE F == [Curves -> SUBSET Curves]
           rank == [x \in Curves |-> x]
           step == [x \in Curves |-> [A \in F |-> {x} \cup UNION {A[b] : b \in Parts(cs[x])}]]
<1>0. Curves \subseteq Nat /\ rank \in [Curves -> Nat]
    BY YieldConstants
<1>1. \A x \in Curves : \A b \in Parts(cs[x]) : b \in Curves /\ rank[b] < rank[x]
    BY <1>0 DEF Standing
<1>2. \A x \in Curves, A \in F : step[x][A] = {x} \cup UNION {A[b] : b \in Parts(cs[x])}
    OBVIOUS
<1>3. step \in [Curves -> [F -> SUBSET Curves]]
    <2>1. ASSUME NEW x \in Curves, NEW A \in F
          PROVE  {x} \cup UNION {A[b] : b \in Parts(cs[x])} \in SUBSET Curves
        BY <1>1
    <2>2. QED
        BY <2>1
<1>4. LowerOnly(F, Curves, step, rank)
    <2> SUFFICES ASSUME NEW x \in Curves, NEW g \in F, NEW h \in F,
                        \A y \in Curves : rank[y] < rank[x] => g[y] = h[y]
                 PROVE  step[x][g] = step[x][h]
        BY DEF LowerOnly
    <2>1. \A b \in Parts(cs[x]) : g[b] = h[b]
        BY <1>1
    <2>2. {g[b] : b \in Parts(cs[x])} = {h[b] : b \in Parts(cs[x])}
        BY <2>1
    <2>3. /\ step[x][g] = {x} \cup UNION {g[b] : b \in Parts(cs[x])}
          /\ step[x][h] = {x} \cup UNION {h[b] : b \in Parts(cs[x])}
        BY <1>2
    <2> HIDE DEF step
    <2>4. QED
        BY <2>2, <2>3, Zenon
<1>5. SUBSET Curves # {}
    OBVIOUS
<1> HIDE DEF F, rank, step
<1>6. PICK f : Recursion(f, F, Curves, step)
    BY <1>0, <1>3, <1>4, <1>5, Recurses DEF F
<1>7. Reaching(cs, f)
    <2>1. f \in F /\ \A x \in Curves : f[x] = {x} \cup UNION {f[b] : b \in Parts(cs[x])}
        BY <1>2, <1>6 DEF Recursion
    <2>2. f = [x \in Curves |-> f[x]]
        BY <2>1 DEF F
    <2>3. QED
        BY <2>1, <2>2 DEF Reaching
<1>8. PICK A : A = CHOOSE B : Reaching(cs, B)
    OBVIOUS
<1>9. Reaching(cs, A)
    BY <1>7, <1>8, Zenon
<1>10. \A x : Reach(cs, x) = A[x]
    BY <1>8, Zenon DEF Reach, Reaching
<1>11. A[c] = {c} \cup UNION {A[b] : b \in Parts(cs[c])}
    BY <1>9 DEF Reaching
<1>12. QED
    BY <1>1, <1>10, <1>11 DEF rank

LEMMA ReachesIn ==
    ASSUME NEW cs, Standing(cs), NEW c \in Curves
    PROVE  /\ c \in Reach(cs, c) /\ Reach(cs, c) \subseteq Curves
           /\ \A x \in Reach(cs, c) : x <= c
           /\ \A b \in Parts(cs[c]) : Reach(cs, b) \subseteq Reach(cs, c) /\ c \notin Reach(cs, b)
<1> DEFINE H == {x \in Curves : Reach(cs, x) \subseteq Curves /\ \A z \in Reach(cs, x) : z <= x}
<1>0. Curves \subseteq Nat
    BY YieldConstants
<1>1. ASSUME NEW x \in Curves, \A b \in Parts(cs[x]) : b \in H PROVE x \in H
    <2>1. /\ Reach(cs, x) = {x} \cup UNION {Reach(cs, b) : b \in Parts(cs[x])}
          /\ \A b \in Parts(cs[x]) : b \in Curves /\ b < x
        BY Reaches
    <2>2. ASSUME NEW z \in Reach(cs, x) PROVE z \in Curves /\ z <= x
        <3>1. CASE z = x
            BY <1>0, <3>1
        <3>2. CASE z # x
            <4>1. PICK b \in Parts(cs[x]) : z \in Reach(cs, b)
                BY <2>1, <3>2
            <4>2. z \in Curves /\ z <= b /\ b < x /\ b \in Curves
                BY <1>1, <2>1, <4>1
            <4>3. QED
                BY <1>0, <4>2
        <3>3. QED
            BY <3>1, <3>2
    <2>3. QED
        BY <2>2
<1>2. Curves \subseteq H
    <2> HIDE DEF H
    <2>1. QED
        BY <1>1, FromBelow
<1>3. /\ Reach(cs, c) = {c} \cup UNION {Reach(cs, b) : b \in Parts(cs[c])}
      /\ \A b \in Parts(cs[c]) : b \in Curves /\ b < c
    BY Reaches
<1>4. ASSUME NEW b \in Parts(cs[c]) PROVE Reach(cs, b) \subseteq Reach(cs, c) /\ c \notin Reach(cs, b)
    <2>1. \A x \in Reach(cs, b) : x <= b
        BY <1>2, <1>3
    <2>2. ~ (c <= b)
        BY <1>0, <1>3
    <2>3. QED
        BY <1>3, <2>1, <2>2
<1>5. QED
    BY <1>2, <1>3, <1>4

\* What other curves stand on says nothing of what a curve reaches.
LEMMA ReachLocal ==
    ASSUME NEW cs, NEW ds, Standing(cs), Standing(ds), NEW K,
           \A x \in Curves \ K : Parts(ds[x]) = Parts(cs[x])
    PROVE  \A x \in Curves : Reach(cs, x) \cap K = {} => Reach(ds, x) = Reach(cs, x)
<1> DEFINE H == {x \in Curves : Reach(cs, x) \cap K = {} => Reach(ds, x) = Reach(cs, x)}
<1>1. ASSUME NEW x \in Curves, \A b \in Parts(cs[x]) : b \in H, Reach(cs, x) \cap K = {}
      PROVE  Reach(ds, x) = Reach(cs, x)
    <2>1. x \notin K
        BY <1>1, ReachesIn
    <2>2. Parts(ds[x]) = Parts(cs[x])
        BY <2>1
    <2>3. \A b \in Parts(cs[x]) : Reach(ds, b) = Reach(cs, b)
        BY <1>1, ReachesIn
    <2>4. {Reach(ds, b) : b \in Parts(ds[x])} = {Reach(cs, b) : b \in Parts(cs[x])}
        BY <2>2, <2>3
    <2>5. QED
        BY <2>4, Reaches
<1>2. \A x \in Curves : (\A b \in Parts(cs[x]) : b \in H) => x \in H
    BY <1>1
<1>3. Curves \subseteq H
    <2> HIDE DEF H
    <2>1. QED
        BY <1>2, FromBelow
<1>4. QED
    BY <1>3
-----------------------------------------------------------------------------
Fit(cs, ts) ==
    /\ ts \in [Curves -> Told] /\ Standing(cs)
    /\ \A c \in Curves : cs[c].alive =>
          Kept(cs[c], ts[c]) /\ cs[c].end \in Ends /\ cs[c].add \in Int /\ cs[c].mult \in Int

\* What one curve should answer, given what the curves below it should.
Scale(y) == IF y.mult = 0 THEN 1 ELSE y.mult
Final(y, raw) == IF y.composite \/ raw > 0 THEN (raw + y.add) * Scale(y) ELSE raw
Value(cs, ts, T, c) ==
    [d \in Days |-> IF ~ cs[c].alive \/ d = 0 THEN 0
                    ELSE Final(cs[c], Raw(cs[c], ts[c], T, d))]

LEMMA RawLocal ==
    ASSUME NEW y, y.alive, NEW what, NEW d, NEW f, NEW g, \A b \in Parts(y) : f[b] = g[b]
    PROVE  Raw(y, what, f, d) = Raw(y, what, g, d)
<1>1. CASE ~ y.composite \/ y.base = None
    BY <1>1 DEF Raw
<1>2. CASE y.composite /\ y.base # None
    <2>1. f[y.base] = g[y.base] /\ (y.spread # None => f[y.spread] = g[y.spread])
        BY <1>2 DEF Parts
    <2>2. QED
        BY <1>2, <2>1 DEF Raw
<1>3. QED
    BY <1>1, <1>2

LEMMA ValueLocal ==
    ASSUME NEW cs, NEW ts, NEW c, NEW f, NEW g, \A b \in Parts(cs[c]) : f[b] = g[b]
    PROVE  Value(cs, ts, f, c) = Value(cs, ts, g, c)
<1>1. ASSUME NEW d \in Days, cs[c].alive
      PROVE  Raw(cs[c], ts[c], f, d) = Raw(cs[c], ts[c], g, d)
    BY <1>1, RawLocal
<1>2. QED
    BY <1>1 DEF Value

LEMMA RawInt ==
    ASSUME NEW cs, NEW ts, Fit(cs, ts), NEW c \in Curves, cs[c].alive, NEW d \in Days,
           NEW T, \A b \in Parts(cs[c]) : T[b] \in [Days -> Int]
    PROVE  Raw(cs[c], ts[c], T, d) \in Int
<1> DEFINE y == cs[c]
<1>1. CASE ~ y.composite
    <2>1. Kept(y, ts[c]) /\ ts[c] \in Told
        BY DEF Fit
    <2>2. Drawn(y, ts[c], d) \in Int
        BY <2>1, DrawnInt
    <2>3. QED
        BY <1>1, <2>2 DEF Raw
<1>2. CASE y.composite /\ y.base = None
    BY <1>2 DEF Raw
<1>3. CASE y.composite /\ y.base # None
    <2>1. T[y.base][d] \in Int /\ (y.spread # None => T[y.spread][d] \in Int)
        <3>1. y.base \in Parts(y) /\ (y.spread # None => y.spread \in Parts(y))
            BY <1>3 DEF Parts
        <3>2. QED
            BY <3>1
    <2>2. QED
        BY <1>3, <2>1 DEF Raw
<1>4. QED
    BY <1>1, <1>2, <1>3

LEMMA FinalInt ==
    ASSUME NEW y, y.add \in Int, y.mult \in Int, NEW raw \in Int
    PROVE  Final(y, raw) \in Int
<1>1. Scale(y) \in Int
    BY DEF Scale
<1>2. (raw + y.add) * Scale(y) \in Int
    BY <1>1
<1>3. QED
    BY <1>2 DEF Final

\* What the curves should answer is what each should, given what the others should.
LEMMA TrueIs ==
    ASSUME NEW cs, NEW ts, Fit(cs, ts), NEW c \in Curves
    PROVE  /\ True(cs, ts)[c] = Value(cs, ts, True(cs, ts), c)
           /\ True(cs, ts)[c] \in [Days -> Int]
<1> DEFINE V == [Days -> Int]
           F == [Curves -> V]
           rank == [x \in Curves |-> x]
           step == [x \in Curves |-> [T \in F |-> Value(cs, ts, T, x)]]
           Is(T) == T = [x \in Curves |-> Value(cs, ts, T, x)]
<1>0. Curves \subseteq Nat /\ rank \in [Curves -> Nat]
    BY YieldConstants
<1>1. \A x \in Curves : \A b \in Parts(cs[x]) : b \in Curves /\ rank[b] < rank[x]
    BY <1>0 DEF Standing, Fit
<1>2. \A x \in Curves, T \in F : step[x][T] = Value(cs, ts, T, x)
    OBVIOUS
<1>3. step \in [Curves -> [F -> V]]
    <2>1. ASSUME NEW x \in Curves, NEW T \in F PROVE Value(cs, ts, T, x) \in V
        <3>1. \A b \in Parts(cs[x]) : T[b] \in [Days -> Int]
            BY <1>1
        <3>2. ASSUME NEW d \in Days, cs[x].alive
              PROVE  Final(cs[x], Raw(cs[x], ts[x], T, d)) \in Int
            <4>1. Raw(cs[x], ts[x], T, d) \in Int
                BY <3>1, <3>2, RawInt
            <4>2. QED
                BY <3>2, <4>1, FinalInt DEF Fit
        <3>3. QED
            BY <3>2 DEF Value
    <2>2. QED
        BY <2>1
<1>4. LowerOnly(F, Curves, step, rank)
    <2> SUFFICES ASSUME NEW x \in Curves, NEW g \in F, NEW h \in F,
                        \A y \in Curves : rank[y] < rank[x] => g[y] = h[y]
                 PROVE  step[x][g] = step[x][h]
        BY DEF LowerOnly
    <2>1. \A b \in Parts(cs[x]) : g[b] = h[b]
        BY <1>1
    <2>2. Value(cs, ts, g, x) = Value(cs, ts, h, x)
        BY <2>1, ValueLocal
    <2> HIDE DEF step
    <2>3. QED
        BY <1>2, <2>2
<1>5. V # {}
    <2>1. [d \in Days |-> 0] \in V
        OBVIOUS
    <2>2. QED
        BY <2>1
<1> HIDE DEF step, rank, F
<1>6. PICK f : Recursion(f, F, Curves, step)
    BY <1>0, <1>3, <1>4, <1>5, Recurses DEF F
<1>7. f \in F /\ \A x \in Curves : f[x] = Value(cs, ts, f, x)
    BY <1>2, <1>6 DEF Recursion
<1>8. Is(f)
    <2>1. f = [x \in Curves |-> f[x]]
        BY <1>7 DEF F
    <2>2. QED
        BY <1>7, <2>1
<1>9. PICK T : T = True(cs, ts)
    OBVIOUS
<1>10. T = CHOOSE U : Is(U)
    BY <1>9, Zenon DEF True, Value, Final, Scale
<1>11. Is(T)
    <2> HIDE DEF Is
    <2>1. QED
        BY <1>8, <1>10, Zenon
<1>12. \A x \in Curves : T[x] = Value(cs, ts, T, x)
    BY <1>11
<1>13. \A x \in Curves : T[x] = f[x]
    <2> DEFINE H == {x \in Curves : T[x] = f[x]}
    <2>1. ASSUME NEW x \in Curves, \A b \in Parts(cs[x]) : b \in H PROVE x \in H
        <3>1. Value(cs, ts, T, x) = Value(cs, ts, f, x)
            BY <2>1, ValueLocal
        <3>2. QED
            BY <1>7, <1>12, <3>1
    <2>2. Curves \subseteq H
        <3> HIDE DEF H
        <3>1. QED
            BY <2>1, FromBelow DEF Fit
    <2>3. QED
        BY <2>2
<1>14. T[c] = Value(cs, ts, T, c) /\ T[c] \in V
    BY <1>7, <1>12, <1>13 DEF F
<1>15. QED
    BY <1>9, <1>14

\* Curves that record the same, whatever is in their caches.
Alike(z, y) ==
    \/ z = y
    \/ /\ z.alive /\ y.alive
       /\ \A f \in Fields \ {"cache", "cacheSize"} : z[f] = y[f]

LEMMA AlikeIs ==
    ASSUME NEW y, NEW z, Alike(z, y)
    PROVE  /\ z.alive = y.alive \/ (z.alive /\ y.alive)
           /\ Parts(z) = Parts(y)
           /\ \A what, f, d : Raw(z, what, f, d) = Raw(y, what, f, d)
           /\ \A raw : Final(z, raw) = Final(y, raw)
<1>1. CASE z = y
    BY <1>1
<1>2. CASE z # y
    <2>1. /\ z.alive /\ y.alive /\ z.composite = y.composite /\ z.base = y.base
          /\ z.spread = y.spread /\ z.add = y.add /\ z.mult = y.mult
          /\ z.start = y.start /\ z.end = y.end
        BY <1>2 DEF Alike, Fields
    <2>2. Parts(z) = Parts(y)
        BY <2>1 DEF Parts
    <2>3. \A what, d : Drawn(z, what, d) = Drawn(y, what, d)
        BY <2>1 DEF Drawn
    <2>4. \A what, f, d : Raw(z, what, f, d) = Raw(y, what, f, d)
        BY <2>1, <2>3 DEF Raw
    <2>5. \A raw : Final(z, raw) = Final(y, raw)
        BY <2>1 DEF Final, Scale
    <2>6. QED
        BY <2>1, <2>2, <2>4, <2>5
<1>3. QED
    BY <1>1, <1>2

\* A curve should answer what it should before something was changed that it does not
\* reach.
LEMMA TrueLocal ==
    ASSUME NEW cs, NEW ts, NEW ds, NEW us, Fit(cs, ts), Fit(ds, us), NEW K,
           \A x \in Curves \ K : Alike(ds[x], cs[x]) /\ us[x] = ts[x],
           NEW c \in Curves, Reach(cs, c) \cap K = {}
    PROVE  /\ Reach(ds, c) = Reach(cs, c)
           /\ True(ds, us)[c] = True(cs, ts)[c]
           /\ HasRate(ds, us, c) <=> HasRate(cs, ts, c)
<1> DEFINE T == True(cs, ts)
           U == True(ds, us)
           H == {x \in Curves : Reach(cs, x) \cap K = {} => U[x] = T[x]}
<1>0. Standing(cs) /\ Standing(ds)
    BY DEF Fit
<1>1. \A x \in Curves \ K : Parts(ds[x]) = Parts(cs[x])
    BY AlikeIs
<1>2. Reach(ds, c) = Reach(cs, c)
    BY <1>0, <1>1, ReachLocal
<1>3. ASSUME NEW x \in Curves, \A b \in Parts(cs[x]) : b \in H, Reach(cs, x) \cap K = {}
      PROVE  U[x] = T[x]
    <2>1. x \in Curves \ K
        BY <1>0, <1>3, ReachesIn
    <2>2. \A b \in Parts(cs[x]) : U[b] = T[b]
        BY <1>0, <1>3, ReachesIn
    <2>3. T[x] = Value(cs, ts, T, x) /\ U[x] = Value(ds, us, U, x)
        BY TrueIs
    <2> HIDE DEF T, U
    <2>4. Value(cs, ts, T, x) = Value(cs, ts, U, x)
        BY <2>2, ValueLocal
    <2>5. /\ us[x] = ts[x] /\ (ds[x].alive = cs[x].alive \/ (ds[x].alive /\ cs[x].alive))
          /\ \A what, f, d : Raw(ds[x], what, f, d) = Raw(cs[x], what, f, d)
          /\ \A raw : Final(ds[x], raw) = Final(cs[x], raw)
        BY <2>1, AlikeIs
    <2>6. Value(ds, us, U, x) = Value(cs, ts, U, x)
        BY <2>5 DEF Value
    <2>7. QED
        BY <2>3, <2>4, <2>6
<1>4. Curves \subseteq H
    <2>1. \A x \in Curves : (\A b \in Parts(cs[x]) : b \in H) => x \in H
        BY <1>3
    <2> HIDE DEF H
    <2>2. QED
        BY <1>0, <2>1, FromBelow
<1>5. \A x \in Reach(cs, c) : us[x] = ts[x]
    BY <1>0, ReachesIn
<1>6. HasRate(ds, us, c) <=> HasRate(cs, ts, c)
    BY <1>2, <1>5 DEF HasRate
<1>7. QED
    BY <1>2, <1>4, <1>6
-----------------------------------------------------------------------------
(***************************************************************************)
(* The inductive invariant of the answers.  Who is built is there, who is  *)
(* not built has nothing in its cache, who is stood on is there -- and a   *)
(* slot of the cache of a curve that reaches nothing stale has what the    *)
(* curve should answer.                                                    *)
(***************************************************************************)
Well(y, A) ==
    y.alive => /\ y.end \in Ends /\ y.add \in Int /\ y.mult \in Int
               /\ y.composite => {y.base, y.spread} \subseteq A \cup {None}
Blank(y) == y.cacheSize = 0 /\ \A d \in 0..CacheSize - 1 : y.cache[d] = None
Owned ==
    /\ built \subseteq Alive /\ stale \subseteq built
    /\ \A c \in Curves : curve[c].alive /\ c \notin built => Blank(curve[c])
SInv == QInv /\ Owned /\ \A c \in Curves : Well(curve[c], Alive)

Clean(cs, ts, st, c) == Reach(cs, c) \cap st = {} /\ HasRate(cs, ts, c)
CacheTrue ==
    \A c \in Curves : curve[c].alive =>
       \A d \in Days \ {0} :
          /\ d < curve[c].cacheSize /\ curve[c].cache[d] # None
          /\ Clean(curve, told, stale, c)
          => curve[c].cache[d] = Raw(curve[c], told[c], True(curve, told), d)
CInv == SInv /\ CacheTrue

LEMMA FitNow == SInv => Fit(curve, told)
<1> SUFFICES ASSUME SInv PROVE Fit(curve, told)
    OBVIOUS
<1>1. \A c \in Curves : Sound(curve[c], c) /\ Well(curve[c], Alive)
    BY DEF SInv, QInv
<1>2. Standing(curve)
    BY <1>1 DEF Standing, Sound, Parts
<1>3. told \in [Curves -> Told] /\ \A c \in Curves : curve[c].alive => Kept(curve[c], told[c])
    BY DEF SInv, QInv, IInv, Null
<1>4. QED
    BY <1>1, <1>2, <1>3 DEF Fit, Well

LEMMA FitNext == SInv' => Fit(curve', told')
<1> SUFFICES ASSUME SInv' PROVE Fit(curve', told')
    OBVIOUS
<1>1. \A c \in Curves : Sound(curve'[c], c) /\ Well(curve'[c], Alive')
    BY DEF SInv, QInv
<1>2. Standing(curve')
    BY <1>1 DEF Standing, Sound, Parts
<1>3. told' \in [Curves -> Told] /\ \A c \in Curves : curve'[c].alive => Kept(curve'[c], told'[c])
    BY DEF SInv, QInv, IInv, Null
<1>4. QED
    BY <1>1, <1>2, <1>3 DEF Fit, Well

-----------------------------------------------------------------------------
\* Who owns what, when one curve is changed.
LEMMA OneOwned ==
    ASSUME SInv, QInv', NEW c \in Curves, NEW y, Change(c, y), Well(y, Alive),
           y.alive \/ \A x \in Alive : c \notin {curve[x].base, curve[x].spread},
           y.alive <=> y.alive = TRUE, c \in built' => y.alive, built' \ {c} = built \ {c},
           stale' \subseteq built', y.alive /\ c \notin built' => Blank(y)
    PROVE  SInv'
<1>1. \A x \in Curves : curve'[x] = IF x = c THEN y ELSE curve[x]
    BY DEF Change, SInv, QInv, IInv
<1>2. \A x \in Curves : x # c => (x \in Alive' <=> x \in Alive)
    BY <1>1 DEF Alive
<1>3. c \in Alive' <=> y.alive
    BY <1>1 DEF Alive
<1>4. built \subseteq Alive /\ Alive \subseteq Curves
    BY DEF SInv, Owned, Alive
<1>5. built' \subseteq Alive'
    BY <1>2, <1>3, <1>4
<1>6. ASSUME NEW x \in Curves, curve'[x].alive, x \notin built' PROVE Blank(curve'[x])
    <2>1. CASE x = c
        BY <1>1, <1>6, <2>1
    <2>2. CASE x # c
        BY <1>1, <1>6, <2>2 DEF SInv, Owned
    <2>3. QED
        BY <2>1, <2>2
<1>7. ASSUME NEW x \in Curves PROVE Well(curve'[x], Alive')
    <2>1. CASE x = c
        <3>1. y.alive => Alive \subseteq Alive'
            BY <1>2, <1>3 DEF Alive
        <3>2. QED
            BY <1>1, <2>1, <3>1 DEF Well
    <2>2. CASE x # c
        <3>1. curve'[x] = curve[x] /\ Well(curve[x], Alive)
            BY <1>1, <2>2 DEF SInv
        <3>2. curve[x].alive => \A b \in {curve[x].base, curve[x].spread} :
                 b \in Alive => b \in Alive'
            <4>1. curve[x].alive => x \in Alive
                BY DEF Alive
            <4>2. QED
                BY <1>2, <1>3, <1>4, <4>1
        <3>3. QED
            BY <3>1, <3>2 DEF Well
    <2>3. QED
        BY <2>1, <2>2
<1>8. QED
    BY <1>5, <1>6, <1>7 DEF SInv, Owned

LEMMA NewWell ==
    ASSUME NEW s, NEW e \in Ends, NEW A
    PROVE  /\ Well(NewCurve(s, e), A) /\ Blank(NewCurve(s, e))
           /\ NewCurve(s, e).alive = TRUE
<1> DEFINE y == NewCurve(s, e)
<1>1. /\ y.alive = TRUE /\ y.end = e /\ y.add = 0 /\ y.mult = 0 /\ y.composite = FALSE
      /\ y.cacheSize = 0 /\ y.cache = [d \in 0..CacheSize - 1 |-> None]
    BY DEF NewCurve
<1> HIDE DEF y
<1>2. Well(y, A) /\ Blank(y)
    BY <1>1 DEF Well, Blank
<1>3. QED
    BY <1>1, <1>2 DEF y

\* An alteration of a curve that is there.
LEMMA SetterOwned ==
    ASSUME SInv, QInv', NEW c \in Alive, NEW y, Change(c, y), y.alive = TRUE,
           y.cacheSize = curve[c].cacheSize, y.cache = curve[c].cache, Well(y, Alive),
           built' = built, stale' \subseteq built
    PROVE  SInv'
<1>1. c \in Curves /\ (c \notin built => Blank(curve[c]))
    BY DEF SInv, Owned, Alive
<1>2. c \notin built => Blank(y)
    BY <1>1 DEF Blank
<1>3. QED
    BY <1>1, <1>2, OneOwned

LEMMA NextOwned == ASSUME SInv, [Next]_vars PROVE SInv'
<1>0. QInv' /\ QInv /\ IInv
    BY QNext DEF SInv, QInv
<1>o. /\ built \subseteq Alive /\ stale \subseteq built /\ Alive \subseteq Curves
      /\ \A c : Altered(c) \subseteq built
    BY DEF SInv, Owned, Alive, Altered
<1>1. ASSUME NEW c \in Alive
      PROVE  /\ DOMAIN curve[c] = Fields /\ curve[c].alive = TRUE
             /\ Well(curve[c], Alive)
    BY <1>0, Living DEF Kept, Alive, SInv
<1>2. ASSUME NEW c \in Curves, NEW s, NEW e \in Ends, New(c, s, e) PROVE SInv'
    <2> DEFINE y == NewCurve(s, e)
    <2>1. Change(c, y) /\ built' = built /\ stale' = stale /\ c \notin Alive
        BY <1>2 DEF New, Alive
    <2>2. Well(y, Alive) /\ Blank(y) /\ y.alive = TRUE
        BY NewWell
    <2> HIDE DEF y
    <2>3. QED
        BY <1>0, <1>o, <2>1, <2>2, OneOwned
<1>3. ASSUME NEW c \in Curves, NEW d, NEW r, SetDiscountFactor(c, d, r) PROVE SInv'
    <2> DEFINE y == [curve[c] EXCEPT !.tab = Put(@, d, r), !.max = Room(curve[c].tab, @)]
    <2>1. Change(c, y) /\ c \in Alive /\ built' = built /\ stale' \subseteq built
        BY <1>3, <1>o DEF SetDiscountFactor
    <2>2. /\ y.alive = TRUE /\ y.cacheSize = curve[c].cacheSize
          /\ y.cache = curve[c].cache /\ y.composite = curve[c].composite
          /\ y.base = curve[c].base /\ y.spread = curve[c].spread
          /\ y.end = curve[c].end /\ y.add = curve[c].add /\ y.mult = curve[c].mult
        BY <1>1, <2>1 DEF Fields
    <2> HIDE DEF y
    <2>3. Well(y, Alive)
        BY <1>1, <2>1, <2>2 DEF Well
    <2>4. QED
        BY <1>0, <2>1, <2>2, <2>3, SetterOwned
<1>4. ASSUME NEW c \in Curves, NEW i, NEW j, RemoveElementRange(c, i, j) PROVE SInv'
    <2> DEFINE y == [curve[c] EXCEPT !.tab = RemoveRange(@, i, j)]
    <2>1. Change(c, y) /\ c \in Alive /\ built' = built /\ stale' \subseteq built
        BY <1>4, <1>o DEF RemoveElementRange
    <2>2. /\ y.alive = TRUE /\ y.cacheSize = curve[c].cacheSize
          /\ y.cache = curve[c].cache /\ y.composite = curve[c].composite
          /\ y.base = curve[c].base /\ y.spread = curve[c].spread
          /\ y.end = curve[c].end /\ y.add = curve[c].add /\ y.mult = curve[c].mult
        BY <1>1, <2>1 DEF Fields
    <2> HIDE DEF y
    <2>3. Well(y, Alive)
        BY <1>1, <2>1, <2>2 DEF Well
    <2>4. QED
        BY <1>0, <2>1, <2>2, <2>3, SetterOwned
<1>5. ASSUME NEW c \in Curves, NEW a \in Shifts, NEW m \in Scales, SetFactors(c, a, m)
      PROVE  SInv'
    <2> DEFINE y == [curve[c] EXCEPT !.add = a, !.mult = m]
    <2>1. Change(c, y) /\ c \in Alive /\ built' = built /\ stale' \subseteq built
        BY <1>5, <1>o DEF SetFactors
    <2>2. /\ y.alive = TRUE /\ y.cacheSize = curve[c].cacheSize
          /\ y.cache = curve[c].cache /\ y.composite = curve[c].composite
          /\ y.base = curve[c].base /\ y.spread = curve[c].spread
          /\ y.end = curve[c].end /\ y.add = a /\ y.mult = m
        BY <1>1, <2>1 DEF Fields
    <2> HIDE DEF y
    <2>3. a \in Int /\ m \in Int
        BY YieldConstants
    <2>4. Well(y, Alive)
        BY <1>1, <2>1, <2>2, <2>3 DEF Well
    <2>5. QED
        BY <1>0, <2>1, <2>2, <2>4, SetterOwned
<1>6. ASSUME NEW c \in Curves, NEW b, NEW s, SetComposite(c, b, s) PROVE SInv'
    <2> DEFINE y == [curve[c] EXCEPT !.composite = TRUE, !.base = b, !.spread = s]
    <2>1. /\ Change(c, y) /\ c \in Alive /\ built' = built /\ stale' \subseteq built
          /\ {b, s} \subseteq Alive \cup {None}
        BY <1>6, <1>o DEF SetComposite
    <2>2. /\ y.alive = TRUE /\ y.cacheSize = curve[c].cacheSize
          /\ y.cache = curve[c].cache /\ y.base = b /\ y.spread = s
          /\ y.end = curve[c].end /\ y.add = curve[c].add /\ y.mult = curve[c].mult
        BY <1>1, <2>1 DEF Fields
    <2> HIDE DEF y
    <2>3. Well(y, Alive)
        BY <1>1, <2>1, <2>2 DEF Well
    <2>4. QED
        BY <1>0, <2>1, <2>2, <2>3, SetterOwned
<1>7. ASSUME NEW c \in Curves, CacheEnable(c) PROVE SInv'
    <2> DEFINE y == [curve[c] EXCEPT !.cacheSize = CacheSize]
    <2>1. Change(c, y) /\ c \in Alive /\ built' = built \cup {c} /\ stale' = stale
        BY <1>7 DEF CacheEnable
    <2>2. /\ y.alive = TRUE /\ y.composite = curve[c].composite
          /\ y.base = curve[c].base /\ y.spread = curve[c].spread
          /\ y.end = curve[c].end /\ y.add = curve[c].add /\ y.mult = curve[c].mult
        BY <1>1, <2>1 DEF Fields
    <2> HIDE DEF y
    <2>3. Well(y, Alive)
        BY <1>1, <2>1, <2>2 DEF Well
    <2>4. QED
        BY <1>0, <1>o, <2>1, <2>2, <2>3, OneOwned
<1>8. ASSUME NEW c \in Curves, NEW k \in Curves, Clone(c, k) PROVE SInv'
    <2> DEFINE y == CloneOf(curve[c])
    <2>1. Change(k, y) /\ built' = built /\ stale' = stale /\ c \in Alive /\ k \notin Alive
        BY <1>8 DEF Clone, Alive
    <2>2. /\ y.alive = TRUE /\ y.base = None /\ y.spread = None /\ y.cacheSize = 0
          /\ y.cache = [d \in 0..CacheSize - 1 |-> None]
          /\ y.end = curve[c].end /\ y.add = curve[c].add /\ y.mult = curve[c].mult
        BY DEF CloneOf, NewCurve
    <2> HIDE DEF y
    <2>3. Well(y, Alive) /\ Blank(y)
        BY <1>1, <2>1, <2>2 DEF Well, Blank
    <2>4. QED
        BY <1>0, <1>o, <2>1, <2>2, <2>3, OneOwned
<1>9. ASSUME NEW c \in Curves, Free(c) PROVE SInv'
    <2>1. /\ Change(c, Null) /\ built' = built \ {c} /\ stale' = stale \ {c}
          /\ \A x \in Alive : c \notin {curve[x].base, curve[x].spread}
        BY <1>9 DEF Free
    <2>2. Null.alive = FALSE
        BY DEF Null
    <2>3. Well(Null, Alive)
        BY <2>2 DEF Well
    <2>4. QED
        BY <1>0, <1>o, <2>1, <2>2, <2>3, OneOwned
<1>10. ASSUME NEW c \in Curves, NEW d \in Days, GetDiscountFactor(c, d) PROVE SInv'
    <2>1. built' = built /\ stale' = stale
        BY <1>10 DEF GetDiscountFactor
    <2>2. ASSUME NEW x \in Curves
          PROVE  /\ curve'[x].alive <=> curve[x].alive
                 /\ Well(curve'[x], Alive)
                 /\ curve[x].alive /\ x \notin built => Blank(curve'[x])
        <3>1. PICK z : z = curve'[x]
            OBVIOUS
        <3>2. Well(curve[x], Alive) /\ (curve[x].alive /\ x \notin built => Blank(curve[x]))
            BY DEF SInv, Owned
        <3>3. CASE z = curve[x]
            BY <3>1, <3>2, <3>3
        <3>4. CASE z # curve[x]
            <4>1. /\ curve[x].alive /\ z.alive /\ d < curve[x].cacheSize
                  /\ \A f \in Fields \ {"cache"} : z[f] = curve[x][f]
                BY <1>0, <1>10, <3>1, <3>4, Asking
            <4>2. /\ z.composite = curve[x].composite /\ z.base = curve[x].base
                  /\ z.spread = curve[x].spread /\ z.end = curve[x].end
                  /\ z.add = curve[x].add /\ z.mult = curve[x].mult
                BY <4>1 DEF Fields
            <4>3. Well(z, Alive)
                BY <3>2, <4>1, <4>2 DEF Well
            <4>4. x \in built
                <5>1. d \in Nat
                    BY YieldConstants
                <5>2. ~ Blank(curve[x])
                    BY <4>1, <5>1 DEF Blank
                <5>3. QED
                    BY <3>2, <4>1, <5>2
            <4>5. QED
                BY <3>1, <4>1, <4>3, <4>4
        <3>5. QED
            BY <3>3, <3>4
    <2>3. Alive' = Alive
        BY <2>2 DEF Alive
    <2>4. QED
        BY <1>0, <1>o, <2>1, <2>2, <2>3 DEF SInv, Owned
<1>11. ASSUME UNCHANGED vars PROVE SInv'
    <2>1. curve' = curve /\ built' = built /\ stale' = stale
        BY <1>11 DEF vars
    <2>2. QED
        BY <1>0, <2>1 DEF SInv, Owned, Alive
<1>12. QED
    BY <1>2, <1>3, <1>4, <1>5, <1>6, <1>7, <1>8, <1>9, <1>10, <1>11 DEF Next
-----------------------------------------------------------------------------
LEMMA CleanBelow ==
    ASSUME NEW cs, NEW ts, NEW st, Standing(cs), NEW c \in Curves, Clean(cs, ts, st, c),
           NEW b \in Parts(cs[c])
    PROVE  b \in Curves /\ Clean(cs, ts, st, b)
<1>1. b \in Curves /\ Reach(cs, b) \subseteq Reach(cs, c)
    BY Reaches, ReachesIn
<1>2. QED
    BY <1>1 DEF Clean, HasRate

\* The factors of the code are those of the history.
LEMMA Factoring ==
    ASSUME NEW y, NEW raw \in Int
    PROVE  /\ ApplyFactors(y, raw) = (raw + y.add) * Scale(y)
           /\ ~ Factored(y) => y.add = 0 /\ Scale(y) = 1 /\ Final(y, raw) = raw
<1>1. raw # NaN
    BY NoRate
<1>2. ApplyFactors(y, raw) = (raw + y.add) * (IF Scaled(y) THEN y.mult ELSE 1)
    BY <1>1 DEF ApplyFactors
<1>3. (IF Scaled(y) THEN y.mult ELSE 1) = Scale(y)
    BY DEF Scaled, Scale
<1>4. ASSUME ~ Factored(y) PROVE y.add = 0 /\ Scale(y) = 1
    BY <1>4 DEF Factored, Scaled, Scale
<1>5. ASSUME ~ Factored(y) PROVE Final(y, raw) = raw
    <2>1. Final(y, raw) = IF y.composite \/ raw > 0 THEN (raw + 0) * 1 ELSE raw
        BY <1>4, <1>5 DEF Final
    <2>2. QED
        BY <2>1
<1>6. QED
    BY <1>2, <1>3, <1>4, <1>5

\* What a curve that reaches nothing stale answers is what it should answer.
LEMMA RateTrue ==
    ASSUME CInv, NEW d \in Days, NEW c \in Curves, Clean(curve, told, stale, c)
    PROVE  RatesAt(curve, d)[c] = True(curve, told)[c][d]
<1> DEFINE R == RatesAt(curve, d)
           T == True(curve, told)
           H == {x \in Curves : Clean(curve, told, stale, x) => R[x] = T[x][d]}
<1>0. Fit(curve, told) /\ Standing(curve)
    BY FitNow DEF CInv, Fit
<1>1. \A x \in Curves : R[x] = Answer(curve, d, R, x)
    <2>1. Answers(curve, d, R)
        BY QGrounded, Rated DEF CInv, SInv
    <2> HIDE DEF R
    <2>2. QED
        BY <2>1 DEF Answers
<1>2. \A x \in Curves : T[x] = Value(curve, told, T, x) /\ T[x] \in [Days -> Int]
    BY <1>0, TrueIs
<1> HIDE DEF R, T
<1>3. ASSUME NEW x \in Curves, \A b \in Parts(curve[x]) : b \in H, Clean(curve, told, stale, x)
      PROVE  R[x] = T[x][d]
    <2> DEFINE y == curve[x]
               raw == Raw(y, told[x], T, d)
    <2>1. T[x][d] = IF ~ y.alive \/ d = 0 THEN 0 ELSE Final(y, raw)
        <3>1. T[x] = Value(curve, told, T, x)
            BY <1>2
        <3>2. QED
            BY <3>1 DEF Value
    <2>2. CASE ~ y.alive \/ d = 0
        BY <1>1, <2>1, <2>2 DEF Answer
    <2>3. CASE y.alive /\ d # 0
        <3>0. \A b \in Parts(y) : b \in Curves /\ R[b] = T[b][d] /\ T[b][d] \in Int
            BY <1>0, <1>2, <1>3, CleanBelow
        <3>1. raw \in Int
            <4>1. \A b \in Parts(y) : T[b] \in [Days -> Int]
                BY <1>2, <3>0
            <4>2. QED
                BY <1>0, <2>3, <4>1, RawInt
        <3>2. R[x] = IF Cached(y, d) THEN y.cache[d]
                     ELSE IF y.composite
                     THEN ApplyFactors(y, Composed(y, [b \in {y.base, y.spread} \ {None} |-> R[b]]))
                     ELSE LET rate == TableRate(y, d)
                          IN  IF rate # NaN /\ rate > 0 THEN ApplyFactors(y, rate) ELSE rate
            BY <1>1, <2>3 DEF Answer
        <3>3. CASE Cached(y, d)
            <4>1. y.cache[d] = raw
                BY <1>3, <2>3, <3>3 DEF CInv, CacheTrue, Cached, T
            <4>2. Final(y, raw) = raw
                BY <3>1, <3>3, Factoring DEF Cached
            <4> HIDE DEF raw
            <4>3. QED
                BY <2>1, <2>3, <3>2, <3>3, <4>1, <4>2
        <3>4. CASE ~ Cached(y, d) /\ y.composite
            <4> DEFINE lo == {y.base, y.spread} \ {None}
                       h == [b \in lo |-> R[b]]
            <4>g. PICK g : g = h
                OBVIOUS
            <4>d. \A b \in lo : g[b] = R[b]
                BY <4>g
            <4>1. Composed(y, g) = raw
                <5>1. CASE y.base = None
                    BY <3>4, <5>1 DEF Composed, Raw
                <5>2. CASE y.base # None
                    <6>1. lo = Parts(y)
                        BY <2>3, <3>4, <5>2 DEF Parts
                    <6>2. y.base \in lo /\ (y.spread # None => y.spread \in lo)
                        BY <5>2
                    <6>3. /\ g[y.base] = T[y.base][d] /\ T[y.base][d] \in Int
                          /\ y.spread # None => g[y.spread] = T[y.spread][d] /\ T[y.spread][d] \in Int
                        BY <3>0, <4>d, <6>1, <6>2
                    <6>4. raw = T[y.base][d] + (IF y.spread = None THEN 0 ELSE T[y.spread][d])
                        BY <3>4, <5>2 DEF Raw
                    <6>5. Composed(y, g) = IF y.spread = None THEN g[y.base]
                                           ELSE Sum(g[y.base], g[y.spread])
                        BY <5>2 DEF Composed
                    <6> HIDE DEF lo, raw
                    <6>6. CASE y.spread = None
                        BY <6>3, <6>4, <6>5, <6>6
                    <6>7. CASE y.spread # None
                        <7>1. NaN \notin {g[y.base], g[y.spread]}
                            BY <6>3, <6>7, NoRate
                        <7>2. QED
                            BY <6>3, <6>4, <6>5, <6>7, <7>1 DEF Sum
                    <6>8. QED
                        BY <6>6, <6>7
                <5>3. QED
                    BY <5>1, <5>2
            <4>5. R[x] = ApplyFactors(y, Composed(y, g))
                BY <3>2, <3>4, <4>g
            <4>2. ApplyFactors(y, raw) = (raw + y.add) * Scale(y)
                BY <3>1, Factoring
            <4>3. Final(y, raw) = (raw + y.add) * Scale(y)
                BY <3>4 DEF Final
            <4> HIDE DEF raw
            <4>4. QED
                BY <2>1, <2>3, <4>1, <4>2, <4>3, <4>5
        <3>5. CASE ~ Cached(y, d) /\ ~ y.composite
            <4>1. raw = Drawn(y, told[x], d)
                BY <3>5 DEF Raw
            <4>2. TableRate(y, d) = raw
                <5>1. Kept(y, told[x]) /\ y.end \in Ends /\ told[x] \in Told
                    BY <1>0, <2>3 DEF Fit
                <5>2. Rateable(told[x])
                    <6>1. x \in Reach(curve, x)
                        BY <1>0, ReachesIn
                    <6>2. QED
                        BY <1>3, <6>1 DEF Clean, HasRate, Rateable
                <5>3. QED
                    BY <2>3, <4>1, <5>1, <5>2, TableDraws
            <4>3. ApplyFactors(y, raw) = (raw + y.add) * Scale(y) /\ raw # NaN
                BY <3>1, Factoring, NoRate
            <4>4. Final(y, raw) = IF raw > 0 THEN (raw + y.add) * Scale(y) ELSE raw
                BY <3>5 DEF Final
            <4> HIDE DEF raw
            <4>5. QED
                BY <2>1, <2>3, <3>2, <3>5, <4>2, <4>3, <4>4
        <3>6. QED
            BY <3>3, <3>4, <3>5
    <2>4. QED
        BY <2>2, <2>3
<1>4. Curves \subseteq H
    <2>1. \A x \in Curves : (\A b \in Parts(curve[x]) : b \in H) => x \in H
        BY <1>3
    <2> HIDE DEF H
    <2>2. QED
        BY <1>0, <2>1, FromBelow
<1>5. QED
    BY <1>4 DEF R, T
-----------------------------------------------------------------------------
(***************************************************************************)
(* A slot stays right while what its curve stands on is left alone.        *)
(***************************************************************************)
RightSlots(x) ==
    \A d \in Days \ {0} :
       /\ d < curve[x].cacheSize /\ curve[x].cache[d] # None
       /\ Clean(curve, told, stale, x)
       => curve[x].cache[d] = Raw(curve[x], told[x], True(curve, told), d)

LEMMA PartsTrue ==
    ASSUME NEW cs, NEW ts, NEW ds, NEW us, Fit(cs, ts), Fit(ds, us), NEW K,
           \A z \in Curves \ K : Alike(ds[z], cs[z]) /\ us[z] = ts[z],
           NEW x \in Curves, \A b \in Parts(cs[x]) : Reach(cs, b) \cap K = {},
           Parts(ds[x]) = Parts(cs[x])
    PROVE  /\ Reach(ds, x) = Reach(cs, x)
           /\ \A b \in Parts(cs[x]) : True(ds, us)[b] = True(cs, ts)[b]
<1>0. Standing(cs) /\ Standing(ds)
    BY DEF Fit
<1>t. ASSUME NEW c \in Curves, Reach(cs, c) \cap K = {}
      PROVE  Reach(ds, c) = Reach(cs, c) /\ True(ds, us)[c] = True(cs, ts)[c]
    BY <1>t, TrueLocal
<1>1. ASSUME NEW b \in Parts(cs[x])
      PROVE  Reach(ds, b) = Reach(cs, b) /\ True(ds, us)[b] = True(cs, ts)[b]
    <2>1. b \in Curves /\ Reach(cs, b) \cap K = {}
        BY <1>0, Reaches
    <2>2. QED
        BY <1>t, <2>1
<1>2. Reach(ds, x) = Reach(cs, x)
    <2>1. /\ Reach(cs, x) = {x} \cup UNION {Reach(cs, b) : b \in Parts(cs[x])}
          /\ Reach(ds, x) = {x} \cup UNION {Reach(ds, b) : b \in Parts(ds[x])}
        BY <1>0, Reaches
    <2>2. {Reach(cs, b) : b \in Parts(cs[x])} = {Reach(ds, b) : b \in Parts(ds[x])}
        BY <1>1
    <2>3. QED
        BY <2>1, <2>2, Zenon
<1>3. QED
    BY <1>1, <1>2

LEMMA SlotsStay ==
    ASSUME CInv, SInv', NEW K,
           \A z \in Curves \ K : Alike(curve'[z], curve[z]) /\ told'[z] = told[z],
           NEW x \in Curves, curve[x].alive, curve'[x].alive,
           \A z \in Reach(curve, x) : told'[z] = told[z] /\ (z \in stale => z \in stale'),
           \A b \in Parts(curve[x]) : Reach(curve, b) \cap K = {},
           Parts(curve'[x]) = Parts(curve[x]),
           \A what, f, d : Raw(curve'[x], what, f, d) = Raw(curve[x], what, f, d),
           NEW d \in Days \ {0},
           d < curve[x].cacheSize, curve[x].cache[d] # None,
           Clean(curve', told', stale', x)
    PROVE  curve[x].cache[d] = Raw(curve'[x], told'[x], True(curve', told'), d)
<1>0. Fit(curve, told) /\ Fit(curve', told') /\ Standing(curve) /\ Standing(curve')
    BY FitNow, FitNext DEF CInv, Fit
<1>1. /\ Reach(curve', x) = Reach(curve, x)
      /\ \A b \in Parts(curve[x]) : True(curve', told')[b] = True(curve, told)[b]
    BY <1>0, PartsTrue
<1>2. Reach(curve', x) = Reach(curve, x)
    BY <1>1
<1>3. Clean(curve, told, stale, x)
    BY <1>2 DEF Clean, HasRate
<1>4. curve[x].cache[d] = Raw(curve[x], told[x], True(curve, told), d)
    BY <1>3 DEF CInv, CacheTrue
<1>5. x \in Reach(curve, x)
    BY <1>0, ReachesIn
<1>6. told'[x] = told[x]
    BY <1>5
<1>7. Raw(curve[x], told[x], True(curve, told), d) = Raw(curve[x], told[x], True(curve', told'), d)
    BY <1>1, RawLocal
<1>8. QED
    BY <1>4, <1>6, <1>7

\* The same of a curve that does not reach what was changed.
LEMMA SlotsApart ==
    ASSUME CInv, SInv', NEW K,
           \A z \in Curves \ K : Alike(curve'[z], curve[z]) /\ told'[z] = told[z],
           NEW x \in Curves, curve[x].alive, curve'[x].alive,
           Reach(curve, x) \cap K = {}, Reach(curve, x) \cap stale \subseteq stale',
           NEW d \in Days \ {0},
           d < curve[x].cacheSize, curve[x].cache[d] # None,
           Clean(curve', told', stale', x)
    PROVE  curve[x].cache[d] = Raw(curve'[x], told'[x], True(curve', told'), d)
<1>0. Fit(curve, told) /\ Standing(curve)
    BY FitNow DEF CInv, Fit
<1>1. x \in Reach(curve, x) /\ Reach(curve, x) \subseteq Curves
    BY <1>0, ReachesIn
<1>2. /\ Parts(curve'[x]) = Parts(curve[x])
      /\ \A what, f, e : Raw(curve'[x], what, f, e) = Raw(curve[x], what, f, e)
    BY <1>1, AlikeIs
<1>3. \A b \in Parts(curve[x]) : Reach(curve, b) \cap K = {}
    BY <1>0, ReachesIn
<1>4. \A z \in Reach(curve, x) : told'[z] = told[z] /\ (z \in stale => z \in stale')
    BY <1>1
<1>5. QED
    BY <1>2, <1>3, <1>4, SlotsStay

\* One curve is changed, and no other with a filled cache that is to stay reaches it.
LEMMA SlotsApartOne ==
    ASSUME CInv, SInv', NEW c \in Curves, NEW y, Change(c, y),
           \A z \in Curves \ {c} : told'[z] = told[z], stale \subseteq stale' \cup {c},
           \A x \in Curves \ {c} :
              curve[x].alive /\ ~ Blank(curve[x]) /\ x \notin stale' => c \notin Reach(curve, x),
           y.alive => \A d \in Days \ {0} :
              /\ d < y.cacheSize /\ y.cache[d] # None /\ Clean(curve', told', stale', c)
              => y.cache[d] = Raw(y, told'[c], True(curve', told'), d)
    PROVE  CacheTrue'
<1>1. \A x \in Curves : curve'[x] = IF x = c THEN y ELSE curve[x]
    BY DEF Change, CInv, SInv, QInv, IInv
<1>2. ASSUME NEW x \in Curves, curve'[x].alive, NEW d \in Days \ {0},
             d < curve'[x].cacheSize, curve'[x].cache[d] # None,
             Clean(curve', told', stale', x)
      PROVE  curve'[x].cache[d] = Raw(curve'[x], told'[x], True(curve', told'), d)
    <2>1. CASE x = c
        BY <1>1, <1>2, <2>1
    <2>2. CASE x # c
        <3>1. curve'[x] = curve[x]
            BY <1>1, <2>2
        <3>2. x \notin stale'
            <4>1. x \in Reach(curve', x)
                BY FitNext, ReachesIn DEF Fit
            <4>2. QED
                BY <1>2, <4>1 DEF Clean
        <3>3. ~ Blank(curve[x])
            <4>1. d \in Nat
                BY YieldConstants
            <4>2. QED
                BY <1>2, <3>1, <4>1 DEF Blank
        <3>4. c \notin Reach(curve, x)
            BY <1>2, <2>2, <3>1, <3>2, <3>3
        <3>5. \A z \in Curves \ {c} : Alike(curve'[z], curve[z]) /\ told'[z] = told[z]
            BY <1>1 DEF Alike
        <3>6. Reach(curve, x) \cap {c} = {} /\ Reach(curve, x) \cap stale \subseteq stale'
            BY <3>4
        <3>7. QED
            BY <1>2, <3>1, <3>5, <3>6, SlotsApart, ZenonT(60)
    <2>3. QED
        BY <2>1, <2>2
<1>3. QED
    BY <1>2 DEF CacheTrue

\* Nobody there stands on what is not there, and a curve nobody stands on is reached
\* by itself alone.
LEMMA ReachesAlive ==
    ASSUME SInv, NEW x \in Alive
    PROVE  Reach(curve, x) \subseteq Alive
<1> DEFINE H == {z \in Curves : curve[z].alive => Reach(curve, z) \subseteq Alive}
<1>0. Standing(curve)
    BY FitNow DEF Fit
<1>1. ASSUME NEW z \in Curves, \A b \in Parts(curve[z]) : b \in H, curve[z].alive
      PROVE  Reach(curve, z) \subseteq Alive
    <2>1. /\ Reach(curve, z) = {z} \cup UNION {Reach(curve, b) : b \in Parts(curve[z])}
          /\ \A b \in Parts(curve[z]) : b \in Curves
        BY <1>0, Reaches
    <2>2. \A b \in Parts(curve[z]) : b \in Alive
        BY <1>1 DEF SInv, Well, Parts
    <2>3. \A b \in Parts(curve[z]) : Reach(curve, b) \subseteq Alive
        BY <1>1, <2>2 DEF Alive
    <2>4. z \in Alive
        BY <1>1 DEF Alive
    <2>5. QED
        BY <2>1, <2>3, <2>4
<1>2. Curves \subseteq H
    <2>1. \A z \in Curves : (\A b \in Parts(curve[z]) : b \in H) => z \in H
        BY <1>1
    <2> HIDE DEF H
    <2>2. QED
        BY <1>0, <2>1, FromBelow
<1>3. QED
    BY <1>2 DEF Alive

LEMMA ReachesNoTop ==
    ASSUME SInv, NEW c \in Curves, \A x \in Alive : c \notin {curve[x].base, curve[x].spread},
           NEW x \in Curves, c \in Reach(curve, x)
    PROVE  x = c
<1> DEFINE H == {z \in Curves : c \in Reach(curve, z) => z = c}
<1>0. Standing(curve)
    BY FitNow DEF Fit
<1>1. ASSUME NEW z \in Curves, \A b \in Parts(curve[z]) : b \in H, c \in Reach(curve, z)
      PROVE  z = c
    <2>1. Reach(curve, z) = {z} \cup UNION {Reach(curve, b) : b \in Parts(curve[z])}
        BY <1>0, Reaches
    <2>2. c \notin Parts(curve[z])
        BY DEF Parts, Alive
    <2>3. QED
        BY <1>1, <2>1, <2>2
<1>2. Curves \subseteq H
    <2>1. \A z \in Curves : (\A b \in Parts(curve[z]) : b \in H) => z \in H
        BY <1>1
    <2> HIDE DEF H
    <2>2. QED
        BY <1>0, <2>1, FromBelow
<1>3. QED
    BY <1>2
-----------------------------------------------------------------------------
\* A curve is altered: those that are built over it go stale, itself among them.
LEMMA AlterSlots ==
    ASSUME CInv, SInv', NEW c \in Alive, NEW y, Change(c, y),
           y.cacheSize = curve[c].cacheSize, y.cache = curve[c].cache,
           \A z \in Curves \ {c} : told'[z] = told[z], stale' = stale \cup Altered(c)
    PROVE  CacheTrue'
<1>0. Standing(curve) /\ Standing(curve') /\ c \in Curves /\ curve[c].alive
    BY FitNow, FitNext DEF CInv, Fit, Alive
<1>1. ASSUME NEW x \in Curves, curve[x].alive, ~ Blank(curve[x]), x \notin stale'
      PROVE  c \notin Reach(curve, x)
    BY <1>1 DEF CInv, SInv, Owned, Altered
<1>2. ASSUME NEW d \in Days \ {0}, d < y.cacheSize, Clean(curve', told', stale', c)
      PROVE  FALSE
    <2>1. d \in Nat
        BY YieldConstants
    <2>2. ~ Blank(curve[c])
        BY <1>2, <2>1 DEF Blank
    <2>3. c \in Reach(curve, c) /\ c \in Reach(curve', c)
        BY <1>0, ReachesIn
    <2>4. c \in stale'
        BY <1>0, <1>1, <2>2, <2>3
    <2>5. QED
        BY <1>2, <2>3, <2>4 DEF Clean
<1>3. QED
    BY <1>0, <1>1, <1>2, SlotsApartOne

\* A curve appears that was not there.
LEMMA AppearSlots ==
    ASSUME CInv, SInv', NEW c \in Curves, NEW y, Change(c, y), ~ curve[c].alive, Blank(y),
           \A z \in Curves \ {c} : told'[z] = told[z], stale' = stale
    PROVE  CacheTrue'
<1>1. ASSUME NEW x \in Curves, curve[x].alive PROVE c \notin Reach(curve, x)
    <2>1. x \in Alive /\ c \notin Alive
        BY <1>1 DEF Alive
    <2>2. QED
        BY <2>1, ReachesAlive DEF CInv
<1>2. ASSUME NEW d \in Days \ {0}, d < y.cacheSize PROVE FALSE
    <2>1. d \in Nat
        BY YieldConstants
    <2>2. QED
        BY <1>2, <2>1 DEF Blank
<1>3. QED
    BY <1>1, <1>2, SlotsApartOne

LEMMA QuietTrue ==
    ASSUME NEW cs, NEW ds, NEW ts, Fit(cs, ts), Fit(ds, ts),
           \A z \in Curves : Alike(ds[z], cs[z]), NEW c \in Curves
    PROVE  Reach(ds, c) = Reach(cs, c) /\ True(ds, ts)[c] = True(cs, ts)[c]
<1> DEFINE K == {}
<1>1. /\ \A z \in Curves \ K : Alike(ds[z], cs[z]) /\ ts[z] = ts[z]
      /\ Reach(cs, c) \cap K = {}
    OBVIOUS
<1> HIDE DEF K
<1>2. QED
    BY <1>1, TrueLocal

\* What only fills a cache or turns it on: the other slots stay right.
LEMMA QuietSlots ==
    ASSUME CInv, SInv', told' = told, stale' = stale,
           \A z \in Curves : Alike(curve'[z], curve[z]),
           NEW x \in Curves, curve[x].alive, curve'[x].alive, NEW d \in Days \ {0},
           d < curve[x].cacheSize, curve[x].cache[d] # None, Clean(curve', told', stale', x)
    PROVE  curve[x].cache[d] = Raw(curve'[x], told'[x], True(curve', told'), d)
<1>1. \A z \in Curves \ {} : Alike(curve'[z], curve[z]) /\ told'[z] = told[z]
    OBVIOUS
<1>2. Reach(curve, x) \cap {} = {} /\ Reach(curve, x) \cap stale \subseteq stale'
    OBVIOUS
<1>3. QED
    BY <1>1, <1>2, SlotsApart

LEMMA EnableSlots ==
    ASSUME CInv, SInv', NEW c \in Curves, CacheEnable(c)
    PROVE  CacheTrue'
<1> DEFINE y == [curve[c] EXCEPT !.cacheSize = CacheSize]
<1>1. Change(c, y) /\ c \in Alive /\ c \notin built /\ told' = told /\ stale' = stale
    BY DEF CacheEnable
<1>2. DOMAIN curve[c] = Fields /\ curve[c].alive = TRUE /\ Blank(curve[c])
    BY <1>1, Living DEF Kept, Alive, CInv, SInv, QInv, Owned
<1>3. /\ \A f \in Fields \ {"cache", "cacheSize"} : y[f] = curve[c][f]
      /\ y.cacheSize = CacheSize /\ y.cache = curve[c].cache
    BY <1>2 DEF Fields
<1>4. y.alive
    BY <1>2, <1>3 DEF Fields
<1> HIDE DEF y
<1>5. \A x \in Curves : curve'[x] = IF x = c THEN y ELSE curve[x]
    BY <1>1 DEF Change, CInv, SInv, QInv, IInv
<1>6. \A x \in Curves : Alike(curve'[x], curve[x])
    BY <1>2, <1>3, <1>4, <1>5 DEF Alike
<1>7. ASSUME NEW x \in Curves, curve'[x].alive, NEW d \in Days \ {0},
             d < curve'[x].cacheSize, curve'[x].cache[d] # None,
             Clean(curve', told', stale', x)
      PROVE  curve'[x].cache[d] = Raw(curve'[x], told'[x], True(curve', told'), d)
    <2>1. CASE x = c
        <3>1. d \in 0..CacheSize - 1
            BY <1>3, <1>5, <1>7, <2>1, YieldConstants
        <3>2. QED
            BY <1>2, <1>3, <1>5, <1>7, <2>1, <3>1 DEF Blank
    <2>2. CASE x # c
        <3>1. curve'[x] = curve[x]
            BY <1>5, <2>2
        <3>2. QED
            BY <1>1, <1>6, <1>7, <3>1, QuietSlots
    <2>3. QED
        BY <2>1, <2>2
<1>8. QED
    BY <1>7 DEF CacheTrue

\* A slot is filled with what the curve should answer, if it reaches nothing stale.
LEMMA AskSlots ==
    ASSUME CInv, SInv', NEW c \in Curves, NEW e \in Days, GetDiscountFactor(c, e)
    PROVE  CacheTrue'
<1>0. QInv /\ told' = told /\ stale' = stale /\ Fit(curve, told) /\ Fit(curve', told')
    BY FitNow, FitNext DEF GetDiscountFactor, CInv, SInv
<1>1. ASSUME NEW x \in Curves
      PROVE  \/ curve'[x] = curve[x]
             \/ /\ curve[x].alive /\ curve'[x].alive /\ e # 0 /\ ~ Factored(curve[x])
                /\ curve'[x].cacheSize = curve[x].cacheSize
                /\ e < curve[x].cacheSize
                /\ \A f \in Fields \ {"cache", "cacheSize"} : curve'[x][f] = curve[x][f]
                /\ curve'[x].cache = [curve[x].cache EXCEPT ![e] = RatesAt(curve, e)[x]]
    <2>1. PICK z : z = curve'[x]
        OBVIOUS
    <2>2. CASE z # curve[x]
        <3>1. /\ curve[x].alive /\ z.alive /\ e # 0 /\ e < curve[x].cacheSize
              /\ ~ Factored(curve[x]) /\ \A f \in Fields \ {"cache"} : z[f] = curve[x][f]
              /\ z.cache = [curve[x].cache EXCEPT ![e] = RatesAt(curve, e)[x]]
            BY <1>0, <2>1, <2>2, Asking
        <3>2. z.cacheSize = curve[x].cacheSize
            BY <3>1 DEF Fields
        <3>3. QED
            BY <2>1, <3>1, <3>2
    <2>3. QED
        BY <2>1, <2>2
<1>2. \A x \in Curves : Alike(curve'[x], curve[x])
    BY <1>1 DEF Alike
<1>3. ASSUME NEW x \in Curves, curve'[x].alive, NEW d \in Days \ {0},
             d < curve'[x].cacheSize, curve'[x].cache[d] # None,
             Clean(curve', told', stale', x)
      PROVE  curve'[x].cache[d] = Raw(curve'[x], told'[x], True(curve', told'), d)
    <2>1. CASE curve'[x] = curve[x]
        BY <1>0, <1>2, <1>3, <2>1, QuietSlots
    <2>2. CASE curve'[x] # curve[x]
        <3>1. /\ curve[x].alive /\ curve'[x].alive /\ e # 0 /\ ~ Factored(curve[x])
              /\ curve'[x].cacheSize = curve[x].cacheSize /\ e < curve[x].cacheSize
              /\ curve'[x].cache = [curve[x].cache EXCEPT ![e] = RatesAt(curve, e)[x]]
            BY <1>1, <2>2
        <3>2. CASE d # e
            <4>1. curve'[x].cache[d] = curve[x].cache[d]
                BY <3>1, <3>2
            <4>2. QED
                BY <1>0, <1>2, <1>3, <3>1, <4>1, QuietSlots
        <3>3. CASE d = e
            <4> DEFINE T == True(curve, told)
                       raw == Raw(curve[x], told[x], T, d)
            <4>1. /\ \A z \in Curves : True(curve', told')[z] = T[z]
                  /\ Reach(curve', x) = Reach(curve, x)
                BY <1>0, <1>2, QuietTrue
            <4>2. Clean(curve, told, stale, x)
                BY <1>0, <1>3, <4>1 DEF Clean, HasRate
            <4>3. RatesAt(curve, d)[x] = T[x][d]
                BY <4>2, RateTrue
            <4>4. \A z \in Curves : T[z] = Value(curve, told, T, z) /\ T[z] \in [Days -> Int]
                BY <1>0, TrueIs
            <4>5. \A b \in Parts(curve[x]) : b \in Curves
                BY <1>0, Reaches DEF Fit
            <4> HIDE DEF T
            <4>6. raw \in Int
                BY <1>0, <3>1, <4>4, <4>5, RawInt
            <4>7. T[x][d] = Final(curve[x], raw)
                <5>1. T[x] = Value(curve, told, T, x)
                    BY <4>4
                <5>2. QED
                    BY <3>1, <3>3, <5>1 DEF Value
            <4>8. Final(curve[x], raw) = raw
                BY <3>1, <4>6, Factoring
            <4>9. curve'[x].cache[d] = T[x][d]
                <5>1. DOMAIN curve[x].cache = 0..CacheSize - 1 /\ curve[x].cacheSize \in {0, CacheSize}
                    BY <1>0, <3>1 DEF QInv, Sound
                <5>2. e \in 0..CacheSize - 1
                    BY <3>1, <5>1, YieldConstants
                <5>3. QED
                    BY <3>1, <3>3, <4>3, <5>1, <5>2
            <4>10. Raw(curve'[x], told'[x], True(curve', told'), d)
                   = Raw(curve[x], told[x], True(curve', told'), d)
                BY <1>0, <1>2, AlikeIs
            <4>11. Raw(curve[x], told[x], True(curve', told'), d) = raw
                BY <3>1, <4>1, <4>5, RawLocal
            <4> HIDE DEF raw
            <4>12. QED
                BY <4>7, <4>8, <4>9, <4>10, <4>11
        <3>4. QED
            BY <3>2, <3>3
    <2>3. QED
        BY <2>1, <2>2
<1>4. QED
    BY <1>3 DEF CacheTrue

\* A curve's own factors are not in its cache.
LEMMA FactorSlots ==
    ASSUME CInv, SInv', NEW c \in Curves, NEW a, NEW m, SetFactors(c, a, m)
    PROVE  CacheTrue'
<1> DEFINE y == [curve[c] EXCEPT !.add = a, !.mult = m]
<1>1. Change(c, y) /\ c \in Alive /\ told' = told /\ stale' = stale \cup (Altered(c) \ {c})
    BY DEF SetFactors
<1>2. DOMAIN curve[c] = Fields /\ curve[c].alive = TRUE
    BY <1>1, Living DEF Kept, CInv, SInv, QInv
<1>3. /\ y.alive = TRUE /\ y.cacheSize = curve[c].cacheSize /\ y.cache = curve[c].cache
      /\ y.composite = curve[c].composite /\ y.base = curve[c].base
      /\ y.spread = curve[c].spread /\ y.start = curve[c].start /\ y.end = curve[c].end
    BY <1>2 DEF Fields
<1> HIDE DEF y
<1>4. \A x \in Curves : curve'[x] = IF x = c THEN y ELSE curve[x]
    BY <1>1 DEF Change, CInv, SInv, QInv, IInv
<1>5. /\ Parts(curve'[c]) = Parts(curve[c])
      /\ \A what, f, d : Raw(curve'[c], what, f, d) = Raw(curve[c], what, f, d)
    <2>1. Parts(y) = Parts(curve[c])
        BY <1>2, <1>3 DEF Parts
    <2>2. \A what, d : Drawn(y, what, d) = Drawn(curve[c], what, d)
        BY <1>3 DEF Drawn
    <2>3. QED
        BY <1>3, <1>4, <2>1, <2>2 DEF Raw
<1>6. Standing(curve)
    BY FitNow DEF CInv, Fit
<1>7. ASSUME NEW d \in Days \ {0}, d < y.cacheSize, y.cache[d] # None,
             Clean(curve', told', stale', c)
      PROVE  y.cache[d] = Raw(y, told'[c], True(curve', told'), d)
    <2>1. \A z \in Curves \ {c} : Alike(curve'[z], curve[z]) /\ told'[z] = told[z]
        BY <1>1, <1>4 DEF Alike
    <2>2. \A b \in Parts(curve[c]) : Reach(curve, b) \cap {c} = {}
        BY <1>6, ReachesIn
    <2>3. \A z \in Reach(curve, c) : told'[z] = told[z] /\ (z \in stale => z \in stale')
        BY <1>1
    <2>4. curve'[c] = y /\ curve[c].alive /\ curve'[c].alive
        BY <1>2, <1>3, <1>4
    <2>5. d < curve[c].cacheSize /\ curve[c].cache[d] # None
        BY <1>3, <1>7
    <2>6. curve[c].cache[d] = Raw(curve'[c], told'[c], True(curve', told'), d)
        BY <1>5, <1>7, <2>1, <2>2, <2>3, <2>4, <2>5, SlotsStay
    <2>7. QED
        BY <1>3, <2>4, <2>6
<1>8. ASSUME NEW x \in Curves \ {c}, curve[x].alive, ~ Blank(curve[x]), x \notin stale'
      PROVE  c \notin Reach(curve, x)
    BY <1>1, <1>8 DEF CInv, SInv, Owned, Altered
<1>9. /\ \A z \in Curves \ {c} : told'[z] = told[z]
      /\ stale \subseteq stale' \cup {c}
    BY <1>1
<1>10. QED
    BY <1>1, <1>7, <1>8, <1>9, SlotsApartOne
-----------------------------------------------------------------------------
LEMMA CNext == ASSUME CInv, [Next]_vars PROVE CInv'
<1>1. SInv' /\ SInv
    BY NextOwned DEF CInv
<1>2. ASSUME NEW c \in Alive PROVE DOMAIN curve[c] = Fields
    BY Living DEF Kept, CInv, SInv, QInv
<1>t. DOMAIN told = Curves
    BY DEF CInv, SInv, QInv, IInv
<1>3. ASSUME NEW c \in Curves, NEW s, NEW e \in Ends, New(c, s, e) PROVE CacheTrue'
    <2>1. /\ Change(c, NewCurve(s, e)) /\ ~ curve[c].alive /\ stale' = stale
          /\ \A z \in Curves \ {c} : told'[z] = told[z]
        BY <1>3 DEF New
    <2>2. Blank(NewCurve(s, e))
        BY NewWell
    <2>3. QED
        BY <1>1, <2>1, <2>2, AppearSlots
<1>4. ASSUME NEW c \in Curves, NEW d, NEW r, SetDiscountFactor(c, d, r) PROVE CacheTrue'
    <2> DEFINE y == [curve[c] EXCEPT !.tab = Put(@, d, r), !.max = Room(curve[c].tab, @)]
    <2>1. /\ Change(c, y) /\ c \in Alive /\ stale' = stale \cup Altered(c)
          /\ \A z \in Curves \ {c} : told'[z] = told[z]
        BY <1>4, <1>t DEF SetDiscountFactor
    <2>2. y.cacheSize = curve[c].cacheSize /\ y.cache = curve[c].cache
        BY <1>2, <2>1 DEF Fields
    <2> HIDE DEF y
    <2>3. QED
        BY <1>1, <2>1, <2>2, AlterSlots
<1>5. ASSUME NEW c \in Curves, NEW i, NEW j, RemoveElementRange(c, i, j) PROVE CacheTrue'
    <2> DEFINE y == [curve[c] EXCEPT !.tab = RemoveRange(@, i, j)]
    <2>1. /\ Change(c, y) /\ c \in Alive /\ stale' = stale \cup Altered(c)
          /\ \A z \in Curves \ {c} : told'[z] = told[z]
        BY <1>5, <1>t DEF RemoveElementRange
    <2>2. y.cacheSize = curve[c].cacheSize /\ y.cache = curve[c].cache
        BY <1>2, <2>1 DEF Fields
    <2> HIDE DEF y
    <2>3. QED
        BY <1>1, <2>1, <2>2, AlterSlots
<1>6. ASSUME NEW c \in Curves, NEW b, NEW s, SetComposite(c, b, s) PROVE CacheTrue'
    <2> DEFINE y == [curve[c] EXCEPT !.composite = TRUE, !.base = b, !.spread = s]
    <2>1. /\ Change(c, y) /\ c \in Alive /\ stale' = stale \cup Altered(c)
          /\ \A z \in Curves \ {c} : told'[z] = told[z]
        BY <1>6 DEF SetComposite
    <2>2. y.cacheSize = curve[c].cacheSize /\ y.cache = curve[c].cache
        BY <1>2, <2>1 DEF Fields
    <2> HIDE DEF y
    <2>3. QED
        BY <1>1, <2>1, <2>2, AlterSlots
<1>7. ASSUME NEW c \in Curves, NEW a, NEW m, SetFactors(c, a, m) PROVE CacheTrue'
    BY <1>1, <1>7, FactorSlots
<1>8. ASSUME NEW c \in Curves, CacheEnable(c) PROVE CacheTrue'
    BY <1>1, <1>8, EnableSlots
<1>9. ASSUME NEW c \in Curves, NEW e \in Days, GetDiscountFactor(c, e) PROVE CacheTrue'
    BY <1>1, <1>9, AskSlots
<1>10. ASSUME NEW c \in Curves, NEW k \in Curves, Clone(c, k) PROVE CacheTrue'
    <2> DEFINE y == CloneOf(curve[c])
    <2>1. /\ Change(k, y) /\ ~ curve[k].alive /\ stale' = stale
          /\ \A z \in Curves \ {k} : told'[z] = told[z]
        BY <1>10, <1>t DEF Clone
    <2>2. Blank(y)
        BY DEF CloneOf, NewCurve, Blank
    <2> HIDE DEF y
    <2>3. QED
        BY <1>1, <2>1, <2>2, AppearSlots
<1>11. ASSUME NEW c \in Curves, Free(c) PROVE CacheTrue'
    <2>1. /\ Change(c, Null) /\ stale' = stale \ {c}
          /\ \A x \in Alive : c \notin {curve[x].base, curve[x].spread}
          /\ \A z \in Curves \ {c} : told'[z] = told[z]
        BY <1>11, <1>t DEF Free
    <2>2. ~ Null.alive
        BY DEF Null
    <2>3. ASSUME NEW x \in Curves \ {c} PROVE c \notin Reach(curve, x)
        BY <1>1, <2>1, ReachesNoTop
    <2>4. stale \subseteq stale' \cup {c}
        BY <2>1
    <2>5. QED
        BY <1>1, <2>1, <2>2, <2>3, <2>4, SlotsApartOne
<1>12. ASSUME UNCHANGED vars PROVE CacheTrue'
    <2>1. curve' = curve /\ told' = told /\ stale' = stale
        BY <1>12 DEF vars
    <2>2. QED
        BY <2>1 DEF CInv, CacheTrue
<1>13. CacheTrue'
    BY <1>3, <1>4, <1>5, <1>6, <1>7, <1>8, <1>9, <1>10, <1>11, <1>12 DEF Next
<1>14. QED
    BY <1>1, <1>13 DEF CInv

LEMMA CInit == ASSUME Init PROVE CInv
<1>1. QInv
    BY QInit
<1>2. \A c \in Curves : curve[c].alive = FALSE
    BY DEF Init, Null
<1>3. built = {} /\ stale = {}
    BY DEF Init
<1>4. QED
    BY <1>1, <1>2, <1>3 DEF CInv, SInv, Owned, Well, CacheTrue

LEMMA CInvariance == Spec => []CInv
BY CInit, CNext, PTL DEF Spec

\* Every curve that reaches nothing stale answers the rate drawn through what it was
\* told, however its answers were asked for and kept: the cache never shows.
THEOREM AnswersAreTrue == Spec => []AnswersTrue
<1>1. ASSUME CInv PROVE AnswersTrue
    BY <1>1, RateTrue DEF AnswersTrue, Clean, Rate, Alive
<1>2. QED
    BY <1>1, CInvariance, PTL
-----------------------------------------------------------------------------
(***************************************************************************)
(* A curve that is being bootstrapped (CurveStrip).  What its table tells  *)
(* of a day it reaches stays when a later day is put after it.             *)
(***************************************************************************)
Point == [day : Nat, value : Nat \X Nat]

LEMMA DatedPoint == Dated(Point)
BY DEF Dated, Point

LEMMA PointRows ==
    ASSUME NEW t \in Seq(Point)
    PROVE  /\ Len(t) \in Nat /\ DOMAIN t = 1..Len(t) /\ LastDate(t) \in Nat
           /\ (Len(t) = 0 <=> t = << >>)
           /\ \A i \in 1..Len(t) : t[i] \in Point /\ t[i].day \in Nat
<1>1. Len(t) \in Nat /\ DOMAIN t = 1..Len(t) /\ (Len(t) = 0 <=> t = << >>)
    OBVIOUS
<1>2. \A i \in 1..Len(t) : t[i] \in Point /\ t[i].day \in Nat
    <2>1. \A i \in 1..Len(t) : t[i] \in Point
        OBVIOUS
    <2> QED
        BY <2>1 DEF Point
<1>3. LastDate(t) \in Nat
    BY <1>1, <1>2 DEF LastDate
<1> QED
    BY <1>1, <1>2, <1>3

\* A table stays in order, and never ends before it did or before what was put into it.
LEMMA PutGrows ==
    ASSUME NEW t \in Seq(Point), InOrder(t), NEW d \in Nat, NEW v \in Nat \X Nat,
           NEW r, r = Put(t, d, v)
    PROVE  /\ r \in Seq(Point) /\ InOrder(r) /\ r # << >>
           /\ d <= LastDate(r) /\ LastDate(t) <= LastDate(r)
<1> DEFINE e == Entry(d, v)
           n == Len(t)
<1>1. e \in Point /\ e.day = d /\ d \in Int
    BY DEF Entry, Point
<1>2. n \in Nat /\ (n = 0 <=> t = << >>) /\ \A i \in 1..n : t[i].day \in Nat
    BY PointRows
<1>n. n \in Nat
    BY <1>2
<1> HIDE DEF e
<1>3. CASE t = << >> \/ t[n].day < d
    <2>1. r = Append(t, e)
        BY <1>3 DEF Put, e
    <2>2. r \in Seq(Point) /\ Len(r) = n + 1 /\ r[n+1] = e /\ \A i \in 1..n : r[i] = t[i]
        BY <1>1, <2>1
    <2>3. \A i \in 1..n : t[i].day < d
        BY <1>1, <1>2, <1>3 DEF InOrder
    <2>4. InOrder(r)
        <3> SUFFICES ASSUME NEW i \in 1..n+1, NEW j \in 1..n+1, i < j
                     PROVE  r[i].day < r[j].day
            BY <2>2 DEF InOrder
        <3>1. CASE j = n + 1
            <4>1. i \in 1..n
                BY <1>2, <3>1
            <4> QED
                BY <1>1, <2>2, <2>3, <3>1, <4>1
        <3>2. CASE j # n + 1
            <4>1. i \in 1..n /\ j \in 1..n
                BY ONLY <1>n, <3>2, i \in 1..n+1, j \in 1..n+1, i < j
            <4> QED
                BY <2>2, <4>1 DEF InOrder
        <3> QED
            BY <3>1, <3>2
    <2>5. r # << >> /\ LastDate(r) = d
        BY <1>1, <1>2, <2>2 DEF LastDate
    <2>6. LastDate(t) <= d
        BY <1>2, <2>3 DEF LastDate
    <2> QED
        BY <2>2, <2>4, <2>5, <2>6
<1>4. CASE t # << >> /\ ~ (t[n].day < d)
    <2>1. PICK m \in 1..n :
            /\ t[m].day >= d /\ \A l \in 1..m - 1 : t[l].day < d
            /\ r = IF t[m].day > d THEN InsertAt(t, m, e) ELSE ReplaceAt(t, m, e)
        BY <1>1, <1>4, DatedPoint, PutPlace DEF e
    <2>2. \A l \in 1..n : l > m => t[l].day > d
        BY <1>1, <1>2, <2>1 DEF InOrder
    <2>3. LastDate(t) = t[n].day /\ n \in 1..n
        BY <1>2, <1>4 DEF LastDate
    <2>4. CASE t[m].day > d
        <3>1. m \in 1..n+1 /\ r = InsertAt(t, m, e)
            BY <1>2, <2>1, <2>4
        <3>2. /\ r \in Seq(Point) /\ Len(r) = n + 1
              /\ \A j \in 1..n+1 : r[j] = IF j < m THEN t[j] ELSE IF j = m THEN e ELSE t[j-1]
            <4>1. e \in Point
                BY <1>1
            <4>2. IsInserted(r, t, m, e, Point)
                BY <3>1, <4>1, Inserted
            <4> QED
                BY <4>2 DEF IsInserted
        <3>3. \A j \in 1..n : (j < m => t[j].day < e.day) /\ (j >= m => e.day < t[j].day)
            BY <1>1, <1>2, <2>1, <2>2, <2>4
        <3>4. InOrder(r)
            BY <1>1, <3>1, <3>3, DatedPoint, InsertedOrder
        <3>5. r[n+1] = t[n]
            BY <1>2, <3>2
        <3>6. LastDate(r) = t[n].day /\ r # << >>
            BY <1>2, <3>2, <3>5 DEF LastDate
        <3> QED
            BY <1>1, <1>2, <1>4, <2>3, <3>2, <3>4, <3>6
    <2>5. CASE ~ (t[m].day > d)
        <3>1. t[m].day = d /\ r = ReplaceAt(t, m, e)
            BY <1>1, <1>2, <2>1, <2>5
        <3>2. /\ r \in Seq(Point) /\ Len(r) = n
              /\ \A j \in 1..n : r[j] = IF j = m THEN e ELSE t[j]
            <4>1. e \in Point
                BY <1>1
            <4>2. IsReplaced(r, t, m, e, Point)
                BY <3>1, <4>1, Replaced
            <4> QED
                BY <4>2 DEF IsReplaced
        <3>3. \A j \in 1..n : r[j].day = t[j].day
            BY <1>1, <3>1, <3>2
        <3>4. InOrder(r)
            BY <3>2, <3>3 DEF InOrder
        <3>5. LastDate(r) = t[n].day /\ r # << >>
            BY <1>2, <2>3, <3>2, <3>3 DEF LastDate
        <3> QED
            BY <1>1, <1>2, <1>4, <2>3, <3>2, <3>4, <3>5
    <2> QED
        BY <2>4, <2>5
<1> QED
    BY <1>3, <1>4

\* A later day goes behind the others.
LEMMA PutAppends ==
    ASSUME NEW t \in Seq(Point), InOrder(t), NEW d \in Nat, d > LastDate(t), NEW v \in Nat \X Nat
    PROVE  /\ Put(t, d, v) = Append(t, Entry(d, v)) /\ Entry(d, v) \in Point
           /\ LastDate(Put(t, d, v)) = d
<1>1. Entry(d, v) \in Point /\ Entry(d, v).day = d
    BY DEF Entry, Point
<1>2. t = << >> \/ t[Len(t)].day < d
    BY PointRows DEF LastDate
<1>3. Put(t, d, v) = Append(t, Entry(d, v))
    BY <1>2 DEF Put
<1>4. LastDate(Append(t, Entry(d, v))) = d
    BY <1>1, PointRows DEF LastDate
<1> QED
    BY <1>1, <1>3, <1>4

\* There is one place of a day.
LEMMA OnePlace ==
    ASSUME NEW t \in Seq(Point), InOrder(t), NEW d \in Nat, NEW k \in 1..Len(t),
           d <= t[k].day, \A i \in 1..k - 1 : t[i].day < d
    PROVE  LowerBound(t, d) = k
<1>1. /\ Len(t) \in Nat /\ t # << >> /\ d \in Int
      /\ \A i \in 1..Len(t) : t[i].day \in Nat
    BY PointRows
<1>2. PICK e : e = LowerBound(t, d)
    OBVIOUS
<1>3. /\ e \in 1..Len(t) + 1
      /\ \A i \in 1..Len(t) : (i < e => t[i].day < d) /\ (i >= e => d <= t[i].day)
    BY <1>1, <1>2, DatedPoint, Place
<1>4. ~ (k < e)
    BY <1>1, <1>3
<1>5. ~ (e < k)
    <2> SUFFICES ASSUME e < k PROVE FALSE
        OBVIOUS
    <2>1. e \in 1..k - 1 /\ e \in 1..Len(t)
        BY <1>1, <1>3
    <2> QED
        BY <1>1, <1>3, <2>1
<1> QED
    BY <1>1, <1>2, <1>3, <1>4, <1>5

Holds(t, r) ==
    \A d \in Nat : FactorOn(t, d)[1] \notin Guessed => FactorOn(r, d) = FactorOn(t, d)

LEMMA HoldsOn ==
    ASSUME NEW t, NEW r, NEW q, Holds(t, r), Holds(r, q)
    PROVE  Holds(t, q)
BY DEF Holds

\* What is told of a day the curve does not reach is guessed.
LEMMA PastIsGuessed ==
    ASSUME NEW t \in Seq(Point), NEW d \in Nat \ {0}, t = << >> \/ LowerBound(t, d) = Len(t) + 1
    PROVE  FactorOn(t, d)[1] \in Guessed
<1>1. Len(t) \in Nat /\ (Len(t) = 0 <=> t = << >>)
    BY PointRows
<1>2. PICK s : s = Spot(t, d)
    OBVIOUS
<1>3. s.how \in {"none", "last", "after"}
    BY <1>1, <1>2 DEF Spot, SpotAt, Outside
<1>4. FactorOn(t, d)[1] = s.how
    BY <1>2, <1>3 DEF FactorOn, FactorOf
<1> QED
    BY <1>3, <1>4 DEF Guessed

\* A later entry changes nothing that is not guessed.
LEMMA PutHolds ==
    ASSUME NEW t \in Seq(Point), InOrder(t), NEW d \in Nat, d > LastDate(t), NEW v \in Nat \X Nat
    PROVE  Holds(t, Put(t, d, v))
<1> SUFFICES ASSUME NEW z \in Nat, FactorOn(t, z)[1] \notin Guessed
             PROVE  FactorOn(Put(t, d, v), z) = FactorOn(t, z)
    BY DEF Holds
<1>1. CASE z = 0
    BY <1>1 DEF FactorOn
<1>2. CASE z # 0
    <2> DEFINE n == Len(t)
    <2>r. PICK r : r = Put(t, d, v)
        OBVIOUS
    <2>k. PICK k : k = LowerBound(t, z)
        OBVIOUS
    <2>1. n \in Nat /\ z \in Nat \ {0} /\ z \in Int
        BY <1>2, PointRows
    <2>2. t # << >> /\ k # n + 1
        BY <2>1, <2>k, PastIsGuessed
    <2>3. k \in 1..n /\ \A i \in 1..n : (i < k => t[i].day < z) /\ (i >= k => z <= t[i].day)
        <3>1. /\ LowerBound(t, z) \in 1..Len(t) + 1
              /\ \A i \in 1..Len(t) : (i < LowerBound(t, z) => t[i].day < z)
                                  /\ (i >= LowerBound(t, z) => z <= t[i].day)
            BY <2>1, <2>2, DatedPoint, Place
        <3> QED
            BY <2>1, <2>2, <2>k, <3>1
    <2>4. r = Append(t, Entry(d, v)) /\ Entry(d, v) \in Point
        BY <2>r, PutAppends
    <2>5. Len(r) = n + 1 /\ \A i \in 1..n : r[i] = t[i]
        BY <2>1, <2>4
    <2>6. r \in Seq(Point) /\ InOrder(r)
        BY <2>r, PutGrows
    <2>7. LowerBound(r, z) = k
        <3>1. k \in 1..Len(r) /\ z <= r[k].day
            BY <2>1, <2>3, <2>5
        <3>2. \A i \in 1..k - 1 : r[i].day < z
            BY <2>1, <2>3, <2>5
        <3> QED
            BY <2>6, <3>1, <3>2, OnePlace
    <2>8. Spot(r, z) = Spot(t, z)
        <3>1. r[k] = t[k] /\ (k # 1 => r[k-1] = t[k-1])
            BY <2>1, <2>3, <2>5
        <3>2. SpotAt(r, z, k) = SpotAt(t, z, k)
            <4> HIDE DEF n
            <4>1. n # 0 /\ n + 1 # 0 /\ k # -1 /\ k # n + 1 /\ k # (n + 1) + 1
                BY <2>1, <2>3
            <4> QED
                BY ONLY <2>5, <3>1, <4>1 DEF SpotAt, Outside, n
        <3> QED
            BY <2>7, <2>k, <3>2 DEF Spot
    <2> QED
        BY <2>8, <2>r DEF FactorOn
<1> QED
    BY <1>1, <1>2

\* A later entry is told as it was given.
LEMMA PutTells ==
    ASSUME NEW t \in Seq(Point), InOrder(t), NEW d \in Nat, d > LastDate(t), NEW v \in Nat \X Nat
    PROVE  FactorOn(Put(t, d, v), d) = <<"exact", v>>
<1> DEFINE n == Len(t)
<1>r. PICK r : r = Put(t, d, v)
    OBVIOUS
<1>1. n \in Nat /\ \A i \in 1..n : t[i].day \in Nat
    BY PointRows
<1>2. r = Append(t, Entry(d, v)) /\ Entry(d, v) \in Point
    BY <1>r, PutAppends
<1>3. /\ Len(r) = n + 1 /\ r[n+1] = Entry(d, v) /\ \A i \in 1..n : r[i] = t[i]
      /\ r \in Seq(Point) /\ InOrder(r)
    <2>1. r \in Seq(Point) /\ InOrder(r)
        BY <1>r, PutGrows
    <2> QED
        BY <1>1, <1>2, <2>1
<1>4. ASSUME NEW i \in 1..n PROVE t[i].day < d
    <2>1. n \in 1..n /\ t # << >> /\ t[n].day < d
        <3>1. n \in 1..n /\ t # << >>
            BY <1>1
        <3>2. LastDate(t) = t[n].day
            BY <3>1 DEF LastDate
        <3> QED
            BY <1>1, <3>1, <3>2
    <2>2. i < n => t[i].day < t[n].day
        BY <2>1 DEF InOrder
    <2> QED
        BY <1>1, <2>1, <2>2
<1>5. LowerBound(r, d) = n + 1
    <2>1. n + 1 \in 1..Len(r) /\ d <= r[n+1].day
        BY <1>1, <1>3 DEF Entry
    <2>2. \A i \in 1..(n + 1) - 1 : r[i].day < d
        BY <1>1, <1>3, <1>4
    <2> QED
        BY <1>3, <2>1, <2>2, OnePlace
<1>6. d # 0
    BY PointRows
<1>7. Spot(r, d) = [how |-> "exact", lo |-> Entry(d, v), hi |-> Entry(d, v)]
    <2>1. n + 1 # 0 /\ n + 1 # -1 /\ n + 1 # (n + 1) + 1 /\ Entry(d, v).day = d
        BY <1>1 DEF Entry
    <2> HIDE DEF n
    <2>2. SpotAt(r, d, n + 1) = [how |-> "exact", lo |-> Entry(d, v), hi |-> Entry(d, v)]
        BY ONLY <1>3, <2>1 DEF SpotAt, Outside
    <2> QED
        BY <1>5, <2>2 DEF Spot
<1>8. FactorOf(Spot(r, d)) = <<"exact", v>>
    BY ONLY <1>7 DEF FactorOf, Entry
<1> QED
    BY <1>6, <1>8, <1>r DEF FactorOn
-----------------------------------------------------------------------------
(***************************************************************************)
(* The dates of a swap or a bond ascend from its start, and none is after  *)
(* its end.                                                                *)
(***************************************************************************)
LEMMA Multiples ==
    ASSUME NEW a \in Int, NEW b \in Int, a < b, NEW e \in Nat, e > 0
    PROVE  a * e + e <= b * e
<1>1. b * e = a * e + (b - a) * e
    OBVIOUS
<1>2. (b - a) * e >= e
    <2>1. \A k \in Int : k >= 1 => k * e >= e
        BY SMT
    <2> QED
        BY <2>1
<1> QED
    BY <1>1, <1>2

LEMMA Quotient ==
    ASSUME NEW m \in Int, NEW e \in Nat, e > 0
    PROVE  m \div e \in Int /\ (m \div e) * e <= m /\ (m < 0 => m \div e < 0)
BY SMT

LEMMA Dates ==
    ASSUME NEW x \in Instrument, x.every > 0, NEW s, s = Schedule(x)
    PROVE  /\ Len(s) \in Nat /\ s \in Seq(Nat)
           /\ \A k \in 1..Len(s) : s[k] \in Nat /\ x.start <= s[k] /\ s[k] <= x.end
           /\ \A j, k \in 1..Len(s) : j < k => s[j] < s[k]
           /\ \A k \in 1..Len(s) : k < Len(s) => s[k] < x.end
           /\ \A k \in 1..Len(s) : k > 1 => x.start < s[k]
<1> DEFINE q == (x.end - x.start) \div x.every
           e == x.every
           n == Len(s)
<1>1. x.start \in Nat /\ x.end \in Nat /\ e \in Nat /\ e > 0
    BY DEF Instrument
<1>2. q \in Int /\ q * e <= x.end - x.start
    BY <1>1, Quotient
<1>3. s = [k \in 1..q + 1 |-> x.start + (k - 1) * e]
    BY DEF Schedule
<1> HIDE DEF q, e
<1>m. \A k \in 1..q + 1 : x.start + (k - 1) * e \in Nat
    <2> SUFFICES ASSUME NEW k \in 1..q + 1 PROVE x.start + (k - 1) * e \in Nat
        OBVIOUS
    <2>1. k - 1 \in Nat
        BY <1>2
    <2>2. (k - 1) * e \in Nat
        BY <1>1, <2>1
    <2> QED
        BY <1>1, <2>2
<1>4. s \in Seq(Nat) /\ n = IF q + 1 >= 0 THEN q + 1 ELSE 0
    <2>1. CASE q + 1 >= 0
        <3>1. q + 1 \in Nat
            BY <1>2, <2>1
        <3>2. s \in [1..q + 1 -> Nat]
            BY <1>3, <1>m
        <3> QED
            BY <2>1, <3>1, <3>2, LenProperties, SeqDef
    <2>2. CASE q + 1 < 0
        <3>1. 1..q + 1 = {} /\ 1..0 = {}
            BY <1>2, <2>2
        <3>2. s = [k \in 1..0 |-> x.start + (k - 1) * e]
            BY <1>3, <3>1
        <3>3. s \in [1..0 -> Nat]
            BY <3>1, <3>2
        <3> QED
            BY <1>2, <2>2, <3>3, LenProperties, SeqDef
    <2> QED
        BY <1>2, <2>1, <2>2
<1>5. n \in Nat /\ \A k \in 1..n : k \in 1..q + 1 /\ s[k] = x.start + (k - 1) * e
    <2>1. n \in Nat
        BY <1>2, <1>4
    <2>2. \A k \in 1..n : k \in 1..q + 1
        <3> HIDE DEF n
        <3> QED
            BY <1>2, <1>4
    <2>3. \A k \in 1..q + 1 : s[k] = x.start + (k - 1) * e
        BY <1>3
    <2> QED
        BY <2>1, <2>2, <2>3
<1>6. ASSUME NEW j \in 1..n, NEW k \in 1..n, j < k PROVE s[j] + e <= s[k]
    <2>1. j - 1 \in Int /\ k - 1 \in Int /\ j - 1 < k - 1
        BY <1>5, <1>6
    <2>2. (j - 1) * e + e <= (k - 1) * e
        BY <1>1, <2>1, Multiples
    <2>3. PICK u, w \in Int : u = (j - 1) * e /\ w = (k - 1) * e
        BY <1>1, <2>1
    <2>4. s[j] = x.start + u /\ s[k] = x.start + w
        BY <1>5, <2>3
    <2> QED
        <3>1. u + e <= w
            BY ONLY <2>2, <2>3
        <3>2. x.start \in Int /\ e \in Int /\ u \in Int /\ w \in Int
            BY <1>1
        <3> QED
            BY ONLY <2>4, <3>1, <3>2
<1>7. \A k \in 1..n : s[k] \in Nat
    BY <1>5, <1>m
<1>8. ASSUME NEW k \in 1..n PROVE x.start <= s[k] /\ (k > 1 => x.start < s[k])
    <2>1. 1 \in 1..n /\ s[1] = x.start
        <3>1. 1 \in 1..n
            BY <1>5
        <3>2. s[1] = x.start + (1 - 1) * e
            BY <1>5, <3>1
        <3> QED
            BY <1>1, <3>1, <3>2
    <2> QED
        BY <1>1, <1>5, <1>6, <1>7, <2>1
<1>9. ASSUME NEW k \in 1..n PROVE s[k] <= x.end /\ (k < n => s[k] < x.end)
    <2>1. n = q + 1 /\ n \in 1..n
        BY <1>2, <1>4, <1>5
    <2>2. s[n] = x.start + q * e /\ q * e \in Int
        BY <1>1, <1>2, <1>5, <2>1
    <2>3. s[n] <= x.end
        BY <1>1, <1>2, <2>2
    <2>4. s[k] \in Nat /\ s[n] \in Nat /\ (k < n => s[k] + e <= s[n])
        BY <1>6, <1>7, <2>1
    <2>5. k = n \/ k < n
        BY <1>5
    <2> QED
        BY ONLY <1>1, <2>3, <2>4, <2>5
<1>10. \A j, k \in 1..n : j < k => s[j] < s[k]
    BY <1>1, <1>6, <1>7
<1> QED
    BY <1>4, <1>5, <1>7, <1>8, <1>9, <1>10
-----------------------------------------------------------------------------
(***************************************************************************)
(* The curve with the payment dates of a swap that are beyond it.          *)
(***************************************************************************)
Tables == {t \in Seq(Point) : InOrder(t)}

LEMMA Configured ==
    ASSUME config \in Configs
    PROVE  /\ Assets \in Seq(Instrument) /\ Len(Assets) \in Nat /\ DOMAIN Assets = 1..Len(Assets)
           /\ \A i \in DOMAIN Assets :
                /\ Assets[i] \in Instrument /\ i \in Nat \ {0}
                /\ Assets[i].kind \in {"swap", "bond"} => Assets[i].every > 0
           /\ config.builder \in Builders /\ config.future \in {"strip", "tenor"}
           /\ config.even \in BOOLEAN
<1>1. /\ config.rates \in Seq(Instrument)
      /\ \A i \in DOMAIN config.rates :
           config.rates[i].kind \in {"swap", "bond"} => config.rates[i].every > 0
      /\ config.builder \in Builders /\ config.future \in {"strip", "tenor"}
      /\ config.even \in BOOLEAN
    BY StripConstants
<1>2. \A i \in DOMAIN Assets : Assets[i] \in Instrument /\ i \in Nat \ {0}
    BY <1>1 DEF Assets
<1>3. Len(Assets) \in Nat /\ DOMAIN Assets = 1..Len(Assets)
    BY <1>1 DEF Assets
<1> QED
    BY <1>1, <1>2, <1>3 DEF Assets

\* A swap of the configuration.
IsSwap(i, x) == config \in Configs /\ i \in DOMAIN Assets /\ x = Assets[i] /\ x.kind = "swap"

LEMMA SwapDates ==
    ASSUME NEW i, NEW x, IsSwap(i, x), NEW s, s = Schedule(x)
    PROVE  /\ x \in Instrument /\ x.every > 0 /\ x.start \in Nat /\ x.end \in Nat /\ i \in Nat
           /\ Len(s) \in Nat /\ s \in Seq(Nat)
           /\ \A k \in 1..Len(s) : s[k] \in Nat /\ x.start <= s[k] /\ s[k] <= x.end
           /\ \A j, k \in 1..Len(s) : j < k => s[j] < s[k]
           /\ \A k \in 1..Len(s) : k < Len(s) => s[k] < x.end
           /\ \A k \in 1..Len(s) : k > 1 => x.start < s[k]
<1>1. x \in Instrument /\ x.every > 0 /\ i \in Nat
    BY Configured DEF IsSwap
<1>2. x.start \in Nat /\ x.end \in Nat
    BY <1>1 DEF Instrument
<1> QED
    BY <1>1, <1>2, Dates

\* How the curve is filled, date by date.
FillBase(i, x) == IF Opens(x) THEN Put(points, x.start, OwnValue(i, x.start)) ELSE points
FillStep(i, x, t, j) ==
    IF j \in Beyond(x) THEN Put(t, Schedule(x)[j], OwnValue(i, Schedule(x)[j])) ELSE t
Filling(i, x, f) ==
    f = [j \in 0..Len(Schedule(x)) |-> IF j = 0 THEN FillBase(i, x) ELSE FillStep(i, x, f[j-1], j)]

LEMMA FilledIs ==
    ASSUME NEW i, NEW x, x = Assets[i]
    PROVE  Filled(i) = (CHOOSE f : Filling(i, x, f))[Len(Schedule(x))]
BY DEF Filled, Filling, FillBase, FillStep

LEMMA BeyondIn ==
    ASSUME NEW i, NEW x, IsSwap(i, x), NEW j \in Beyond(x)
    PROVE  /\ j \in 2..Len(Schedule(x)) - 1 /\ j \in 1..Len(Schedule(x))
           /\ Schedule(x)[j] \in Nat /\ Schedule(x)[j] < x.end /\ x.start < Schedule(x)[j]
<1>1. j \in 2..Len(Schedule(x)) - 1
    BY DEF Beyond, Between
<1>2. j \in 1..Len(Schedule(x)) /\ j > 1 /\ j < Len(Schedule(x))
    BY <1>1, SwapDates
<1> QED
    BY <1>1, <1>2, SwapDates

LEMMA Own == ASSUME NEW i \in Nat, NEW d \in Nat PROVE OwnValue(i, d) \in Nat \X Nat
BY DEF OwnValue

LEMMA FillStepIn ==
    ASSUME NEW i, NEW x, IsSwap(i, x), NEW t \in Tables, NEW j
    PROVE  FillStep(i, x, t, j) \in Tables /\ LastDate(t) <= LastDate(FillStep(i, x, t, j))
<1>1. LastDate(t) \in Nat
    BY PointRows DEF Tables
<1>2. CASE j \in Beyond(x)
    <2>1. Schedule(x)[j] \in Nat /\ OwnValue(i, Schedule(x)[j]) \in Nat \X Nat
        BY <1>2, BeyondIn, SwapDates, Own
    <2> QED
        BY <1>2, <2>1, PutGrows DEF Tables, FillStep
<1>3. CASE j \notin Beyond(x)
    BY <1>1, <1>3 DEF FillStep
<1> QED
    BY <1>2, <1>3

LEMMA Filled_ ==
    ASSUME NEW i, NEW x, IsSwap(i, x), points \in Tables
    PROVE  \E f \in [0..Len(Schedule(x)) -> Tables] :
             /\ f[0] = FillBase(i, x)
             /\ \A j \in 1..Len(Schedule(x)) : f[j] = FillStep(i, x, f[j-1], j)
             /\ Filled(i) = f[Len(Schedule(x))]
<1> DEFINE n == Len(Schedule(x))
           step == [j \in 1..n |-> [t \in Tables |-> FillStep(i, x, t, j)]]
<1>1. n \in Nat
    BY SwapDates
<1>2. FillBase(i, x) \in Tables
    <2>1. x.start \in Nat /\ OwnValue(i, x.start) \in Nat \X Nat
        BY SwapDates, Own
    <2> QED
        BY <2>1, PutGrows DEF Tables, FillBase
<1>3. step \in [1..n -> [Tables -> Tables]]
    BY FillStepIn
<1>4. \A j \in 1..n, t \in Tables : step[j][t] = FillStep(i, x, t, j)
    OBVIOUS
<1> HIDE DEF step, n
<1>0. PICK g : Followed(g, Tables, FillBase(i, x), step, n)
    BY <1>1, <1>2, <1>3, Follows
<1>5. g \in [0..n -> Tables] /\ g[0] = FillBase(i, x) /\ \A j \in 1..n : g[j] = step[j][g[j-1]]
    BY <1>0 DEF Followed
<1>6. ASSUME NEW j \in 1..n PROVE g[j] = FillStep(i, x, g[j-1], j)
    <2>1. j - 1 \in 0..n
        BY <1>1
    <2>2. g[j-1] \in Tables
        BY ONLY <1>5, <2>1
    <2>3. step[j][g[j-1]] = FillStep(i, x, g[j-1], j)
        BY ONLY <1>4, <2>2
    <2> QED
        BY ONLY <1>5, <2>3
<1>7. Filling(i, x, g)
    <2>1. g = [j \in 0..n |-> g[j]]
        BY <1>5
    <2>2. \A j \in 0..n : g[j] = IF j = 0 THEN FillBase(i, x) ELSE FillStep(i, x, g[j-1], j)
        BY <1>1, <1>5, <1>6
    <2>3. g = [j \in 0..n |-> IF j = 0 THEN FillBase(i, x) ELSE FillStep(i, x, g[j-1], j)]
        BY ONLY <2>1, <2>2
    <2> QED
        BY <2>3 DEF Filling, n
<1>8. PICK f : f = CHOOSE h : Filling(i, x, h)
    OBVIOUS
<1>9. Filling(i, x, f)
    BY <1>7, <1>8
<1>10. f[0] = FillBase(i, x) /\ \A j \in 1..n : f[j] = FillStep(i, x, f[j-1], j)
    <2>1. f = [j \in 0..n |-> IF j = 0 THEN FillBase(i, x) ELSE FillStep(i, x, f[j-1], j)]
        BY <1>9 DEF Filling, n
    <2>2. \A j \in 0..n : f[j] = IF j = 0 THEN FillBase(i, x) ELSE FillStep(i, x, f[j-1], j)
        BY ONLY <2>1
    <2> QED
        BY <1>1, <2>2
<1>11. f \in [0..n -> Tables]
    <2> DEFINE S == {j \in 0..n : f[j] \in Tables}
    <2>1. 0 \in S
        BY <1>1, <1>2, <1>10
    <2>2. ASSUME NEW j \in 1..n, j - 1 \in S PROVE j \in S
        BY <1>10, <2>2, FillStepIn
    <2> HIDE DEF S
    <2>3. 0..n \subseteq S
        BY <1>1, <2>1, <2>2, Upwards
    <2>4. \A j \in 0..n : f[j] \in Tables
        BY <2>3 DEF S
    <2>5. f = [j \in 0..n |-> f[j]]
        <3>1. f = [j \in 0..n |-> IF j = 0 THEN FillBase(i, x) ELSE FillStep(i, x, f[j-1], j)]
            BY <1>9 DEF Filling, n
        <3> QED
            BY ONLY <3>1
    <2> QED
        BY ONLY <2>4, <2>5
<1>12. Filled(i) = f[n]
    BY <1>8, FilledIs DEF IsSwap, n
<1> QED
    BY <1>10, <1>11, <1>12 DEF n

\* What filling comes to: the curve does not get shorter; and if it ends before the swap
\* does, it then still does, tells of the days it reached what it told, and of the dates
\* beyond it what the swap gave them.
FilledRight(i, x, r) ==
    /\ r \in Tables /\ LastDate(r) < x.end /\ Holds(points, r)
    /\ \A j \in Beyond(x) : FactorOn(r, Schedule(x)[j]) = <<"exact", OwnValue(i, Schedule(x)[j])>>
    /\ Opens(x) => FactorOn(r, x.start) = <<"exact", OwnValue(i, x.start)>>

LEMMA FilledGrows ==
    ASSUME NEW i, NEW x, IsSwap(i, x), points \in Tables
    PROVE  Filled(i) \in Tables /\ LastDate(points) <= LastDate(Filled(i))
<1> DEFINE n == Len(Schedule(x))
<1>1. PICK f \in [0..n -> Tables] :
        /\ f[0] = FillBase(i, x)
        /\ \A j \in 1..n : f[j] = FillStep(i, x, f[j-1], j)
        /\ Filled(i) = f[n]
    BY Filled_
<1>2. n \in Nat
    BY SwapDates
<1>3. LastDate(points) <= LastDate(f[0])
    <2>1. x.start \in Nat /\ OwnValue(i, x.start) \in Nat \X Nat /\ LastDate(points) \in Nat
        BY SwapDates, Own, PointRows DEF Tables
    <2>2. LastDate(points) <= LastDate(Put(points, x.start, OwnValue(i, x.start)))
        BY <2>1, PutGrows DEF Tables
    <2>3. LastDate(points) <= LastDate(points)
        BY <2>1
    <2> QED
        BY <1>1, <2>2, <2>3 DEF FillBase
<1> HIDE DEF n
<1> DEFINE S == {j \in 0..n : LastDate(points) <= LastDate(f[j])}
<1>4. 0 \in S
    BY <1>2, <1>3
<1>5. ASSUME NEW j \in 1..n, j - 1 \in S PROVE j \in S
    <2>1. j - 1 \in 0..n /\ f[j-1] \in Tables /\ f[j] \in Tables
        BY <1>1, <1>2
    <2>2. LastDate(f[j-1]) <= LastDate(f[j])
        BY <1>1, <2>1, FillStepIn
    <2>3. LastDate(points) \in Nat /\ LastDate(f[j-1]) \in Nat /\ LastDate(f[j]) \in Nat
        BY <2>1, PointRows DEF Tables
    <2>4. LastDate(points) <= LastDate(f[j-1])
        BY <1>5
    <2> QED
        BY <2>2, <2>3, <2>4
<1> HIDE DEF S
<1>6. 0..n \subseteq S
    BY <1>2, <1>4, <1>5, Upwards
<1>7. n \in S
    BY <1>2, <1>6
<1> QED
    BY <1>1, <1>2, <1>7 DEF S

\* One date of it.
FillingRight(i, x, t, j) ==
    /\ t \in Tables /\ LastDate(t) < x.end /\ Holds(points, t)
    /\ \A k \in Beyond(x) : k > j => LastDate(t) < Schedule(x)[k]
    /\ \A k \in Beyond(x) : k <= j => FactorOn(t, Schedule(x)[k]) = <<"exact", OwnValue(i, Schedule(x)[k])>>
    /\ Opens(x) => FactorOn(t, x.start) = <<"exact", OwnValue(i, x.start)>>

LEMMA FillBaseRight ==
    ASSUME NEW i, NEW x, IsSwap(i, x), points \in Tables, LastDate(points) < x.end
    PROVE  FillingRight(i, x, FillBase(i, x), 0)
<1>1. /\ points \in Seq(Point) /\ InOrder(points) /\ LastDate(points) \in Nat
      /\ x.start \in Nat /\ x.end \in Nat /\ i \in Nat /\ OwnValue(i, x.start) \in Nat \X Nat
    BY SwapDates, Own, PointRows DEF Tables
<1>2. ASSUME NEW k \in Beyond(x)
      PROVE  /\ k \in Nat /\ k > 0 /\ Schedule(x)[k] \in Nat
             /\ LastDate(points) < Schedule(x)[k] /\ x.start < Schedule(x)[k]
    <2>1. k \in 2..Len(Schedule(x)) - 1 /\ ~ (Schedule(x)[k] <= LastDate(points))
        BY DEF Beyond, Between, Within
    <2>2. Schedule(x)[k] \in Nat /\ x.start < Schedule(x)[k] /\ Len(Schedule(x)) \in Nat
        BY BeyondIn, SwapDates
    <2> QED
        BY <1>1, <2>1, <2>2
<1>3. CASE Opens(x)
    <2>1. points = << >> /\ x.start > 0 /\ Between(x) # {}
        BY <1>3 DEF Opens
    <2>2. LastDate(points) = 0
        BY <2>1 DEF LastDate
    <2> PICK t : t = Put(points, x.start, OwnValue(i, x.start))
        OBVIOUS
    <2>3. t \in Tables
        BY <1>1, PutGrows DEF Tables
    <2>4. LastDate(t) = x.start /\ Holds(points, t) /\ FactorOn(t, x.start) = <<"exact", OwnValue(i, x.start)>>
        BY <1>1, <2>1, <2>2, PutAppends, PutHolds, PutTells
    <2>5. x.start < x.end
        <3>1. PICK k \in 2..Len(Schedule(x)) - 1 : TRUE
            BY <2>1 DEF Between
        <3>2. k \in 1..Len(Schedule(x)) /\ k > 1 /\ k < Len(Schedule(x))
            BY SwapDates
        <3>3. Schedule(x)[k] \in Nat /\ x.start < Schedule(x)[k] /\ Schedule(x)[k] < x.end
            BY <3>2, SwapDates
        <3> QED
            BY <1>1, <3>3
    <2>6. \A k \in Beyond(x) : k > 0 /\ ~ (k <= 0) /\ LastDate(t) < Schedule(x)[k]
        BY <1>2, <2>4
    <2> QED
        BY <1>3, <2>3, <2>4, <2>5, <2>6 DEF FillingRight, FillBase
<1>4. CASE ~ Opens(x)
    <2>1. Holds(points, points)
        BY DEF Holds
    <2>2. \A k \in Beyond(x) : k > 0 /\ ~ (k <= 0) /\ LastDate(points) < Schedule(x)[k]
        BY <1>2
    <2> QED
        BY <1>4, <2>1, <2>2 DEF FillingRight, FillBase
<1> QED
    BY <1>3, <1>4

LEMMA FillStepRight ==
    ASSUME NEW i, NEW x, IsSwap(i, x), NEW t, NEW j \in 1..Len(Schedule(x)), FillingRight(i, x, t, j - 1)
    PROVE  FillingRight(i, x, FillStep(i, x, t, j), j)
<1>1. /\ t \in Seq(Point) /\ InOrder(t) /\ LastDate(t) \in Nat /\ t \in Tables
      /\ i \in Nat /\ x.start \in Nat /\ x.end \in Nat
    BY SwapDates, PointRows DEF FillingRight, Tables
<1>2. ASSUME NEW k \in Beyond(x)
      PROVE  k \in Nat /\ Schedule(x)[k] \in Nat /\ Schedule(x)[k] < x.end /\ k \in 1..Len(Schedule(x))
    BY BeyondIn
<1>j. j \in Nat
    OBVIOUS
<1>3. CASE j \in Beyond(x)
    <2> PICK d : d = Schedule(x)[j]
        OBVIOUS
    <2> PICK v : v = OwnValue(i, d)
        OBVIOUS
    <2> PICK r : r = Put(t, d, v)
        OBVIOUS
    <2>1. d \in Nat /\ v \in Nat \X Nat /\ LastDate(t) < d /\ d < x.end
        <3>1. d \in Nat /\ d < x.end
            BY <1>2, <1>3
        <3>2. v \in Nat \X Nat
            BY <1>1, <3>1, Own
        <3>3. j > j - 1
            OBVIOUS
        <3>4. LastDate(t) < d
            BY <1>3, <3>3 DEF FillingRight
        <3> QED
            BY <3>1, <3>2, <3>4
    <2>2. r \in Tables /\ LastDate(r) = d /\ Holds(t, r) /\ FactorOn(r, d) = <<"exact", v>>
        BY <1>1, <2>1, PutGrows, PutAppends, PutHolds, PutTells DEF Tables
    <2>3. Holds(points, r)
        BY <2>2, HoldsOn DEF FillingRight
    <2>4. ASSUME NEW k \in Beyond(x), k > j PROVE LastDate(r) < Schedule(x)[k]
        BY <1>2, <2>2, <2>4, SwapDates
    <2>5. ASSUME NEW k \in Beyond(x), k <= j
          PROVE FactorOn(r, Schedule(x)[k]) = <<"exact", OwnValue(i, Schedule(x)[k])>>
        <3>1. CASE k = j
            BY <2>2, <3>1
        <3>2. CASE k # j
            <4>1. k <= j - 1
                BY <1>2, <2>5, <3>2
            <4>2. FactorOn(t, Schedule(x)[k]) = <<"exact", OwnValue(i, Schedule(x)[k])>>
                BY <4>1 DEF FillingRight
            <4>3. FactorOn(t, Schedule(x)[k])[1] \notin Guessed
                BY <4>2 DEF Guessed
            <4> QED
                BY <1>2, <2>2, <4>2, <4>3 DEF Holds
        <3> QED
            BY <3>1, <3>2
    <2>6. Opens(x) => FactorOn(r, x.start) = <<"exact", OwnValue(i, x.start)>>
        <3> SUFFICES ASSUME Opens(x) PROVE FactorOn(r, x.start) = <<"exact", OwnValue(i, x.start)>>
            OBVIOUS
        <3>1. FactorOn(t, x.start) = <<"exact", OwnValue(i, x.start)>>
            BY DEF FillingRight
        <3>2. FactorOn(t, x.start)[1] \notin Guessed
            BY <3>1 DEF Guessed
        <3> QED
            BY <1>1, <2>2, <3>1, <3>2 DEF Holds
    <2>7. FillStep(i, x, t, j) = r
        BY <1>3 DEF FillStep
    <2> QED
        BY <2>1, <2>2, <2>3, <2>4, <2>5, <2>6, <2>7 DEF FillingRight
<1>4. CASE j \notin Beyond(x)
    <2>1. FillStep(i, x, t, j) = t
        BY <1>4 DEF FillStep
    <2>2. \A k \in Beyond(x) : (k > j => k > j - 1) /\ (k <= j => k <= j - 1)
        BY <1>2, <1>4
    <2> QED
        BY <2>1, <2>2 DEF FillingRight
<1> QED
    BY <1>3, <1>4

LEMMA FilledIsRight ==
    ASSUME NEW i, NEW x, IsSwap(i, x), points \in Tables, LastDate(points) < x.end
    PROVE  FilledRight(i, x, Filled(i))
<1> DEFINE n == Len(Schedule(x))
<1>1. PICK f \in [0..n -> Tables] :
        /\ f[0] = FillBase(i, x)
        /\ \A j \in 1..n : f[j] = FillStep(i, x, f[j-1], j)
        /\ Filled(i) = f[n]
    BY Filled_
<1>2. n \in Nat
    BY SwapDates
<1> DEFINE S == {j \in 0..n : FillingRight(i, x, f[j], j)}
<1>4. 0 \in S
    BY <1>1, <1>2, FillBaseRight
<1>5. ASSUME NEW j \in 1..n, j - 1 \in S PROVE j \in S
    <2>1. FillingRight(i, x, f[j-1], j-1)
        BY <1>5
    <2>2. FillingRight(i, x, FillStep(i, x, f[j-1], j), j)
        BY <2>1, FillStepRight
    <2> QED
        BY <1>1, <1>2, <2>2
<1> HIDE DEF S
<1>6. 0..n \subseteq S
    <2> HIDE DEF n
    <2> QED
        BY <1>2, <1>4, <1>5, Upwards
<1>7. FillingRight(i, x, Filled(i), n)
    BY <1>1, <1>2, <1>6 DEF S
<1>8. \A j \in Beyond(x) : j <= n
    BY <1>2, BeyondIn
<1> QED
    BY <1>7, <1>8 DEF FillingRight, FilledRight
-----------------------------------------------------------------------------
(***************************************************************************)
(* What an instrument took from the curve it gets back: the invariant.     *)
(***************************************************************************)
Honest(u, t) == u.day \in Nat /\ (u.value[1] \notin Guessed => FactorOn(t, u.day) = u.value)

LEMMA HonestStays ==
    ASSUME NEW u, NEW t, NEW r, Honest(u, t), Holds(t, r)
    PROVE  Honest(u, r)
BY DEF Honest, Holds

LEMMA HonestRead ==
    ASSUME NEW t, NEW d \in Nat
    PROVE  Honest(Took(d, FactorOn(t, d)), t)
BY DEF Honest, Took

LEMMA HonestGift ==
    ASSUME NEW t \in Tables, NEW d \in Nat, d > LastDate(t), NEW i \in Nat
    PROVE  Honest(Took(d, <<"exact", OwnValue(i, d)>>), Put(t, d, OwnValue(i, d)))
BY Own, PutTells DEF Honest, Took, Tables

\* What was read from the curve t is honest, and what went on from a rate that has an
\* asset is what that one gave.
Priced(u, t, assets) ==
    u.by = NoInstrument \/ assets[u.by].found => Honest(u, t) /\ GoesOn(u)

LEMMA PricedStays ==
    ASSUME NEW u, NEW t, NEW r, NEW assets, Priced(u, t, assets), Holds(t, r)
    PROVE  Priced(u, r, assets)
BY HonestStays DEF Priced

LEMMA ReadIsPriced ==
    ASSUME NEW d, NEW v, NEW t, NEW assets, Honest(Took(d, v), t)
    PROVE  Priced(Took(d, v), t, assets)
BY DEF Priced, GoesOn, Took

LEMMA GiftIsPriced ==
    ASSUME NEW t \in Tables, NEW d \in Nat, d > LastDate(t), NEW i \in Nat, NEW assets
    PROVE  Priced(TookAfter(i, d, <<"exact", OwnValue(i, d)>>), Put(t, d, OwnValue(i, d)), assets)
BY HonestGift DEF Priced, GoesOn, Honest, Took, TookAfter

\* The locals of the builder.
Locals(s) ==
    s = [rate |-> s.rate, df |-> s.df, future |-> s.future, futureDf |-> s.futureDf,
         swap |-> s.swap, day |-> s.day]
SwapsFound == {i \in DOMAIN Assets : Assets[i].found /\ Assets[i].kind = "swap"}
FutureFound(i) == Assets[i].found /\ Assets[i].kind = "future"

StripType ==
    /\ config \in Configs /\ up \in Nat \ {0}
    /\ swaps \in Seq(SwapsFound) /\ Locals(seen)
    /\ taken = [i \in DOMAIN Assets |-> taken[i]]
    /\ pc = "rates" => knots = << >>

\* The curve is a table, and reaches the end of the last swap.
CurveReaches ==
    config.builder # "cubic" =>
      points \in Tables /\ seen.swap.end \in Nat /\ seen.swap.end <= LastDate(points)

CubicImplies == config.builder = "cubic" => implied = {}

InOrderSoFar == ordered /\ config.builder # "cubic"

PricesKept == InOrderSoFar => \A i \in DOMAIN Assets : \A u \in taken[i] : Priced(u, points, Assets)

\* The par rate before gave what the next one goes on from.
LastPar ==
    /\ InOrderSoFar /\ pc = "rates" /\ config.builder = "day_count"
    /\ seen.rate # NoInstrument /\ Assets[seen.rate].kind = "par"
    => Priced(TookAfter(seen.rate, Assets[seen.rate].end, seen.df), points, Assets)

\* So did the future before, if there is another one to come.
RateBefore == IF config.builder = "spread" THEN seen.rate ELSE seen.future
LastFuture ==
    InOrderSoFar /\ pc = "rates" /\ seen.futureDf # <<"none">> =>
      /\ config.future = "strip" /\ \E i \in DOMAIN Assets : i < up /\ FutureFound(i)
      /\ (\E i \in DOMAIN Assets : i >= up /\ FutureFound(i)) =>
           Priced(TookAfter(RateBefore, Assets[seen.future].start, seen.futureDf), points, Assets)

StripInv ==
    /\ StripType /\ CurveReaches /\ CubicImplies /\ ImpliedBetween
    /\ PricesKept /\ LastPar /\ LastFuture

\* The futures of what is built are together, if that matters.
LEMMA OneAfterAnother ==
    ASSUME Orderly(config), config.builder = "spread", config.future = "strip",
           NEW i \in DOMAIN Assets, NEW j \in DOMAIN Assets, NEW k \in DOMAIN Assets,
           i < j, j < k, FutureFound(i), FutureFound(k), Assets[j].found
    PROVE  Assets[j].kind = "future"
BY DEF Orderly, FuturesTogether, FutureFound, Assets

\* What an instrument that is not a swap takes and gives.
LEMMA GivenDay ==
    ASSUME config \in Configs, NEW i \in DOMAIN Assets, NEW x, x = Assets[i], x.kind # "swap"
    PROVE  /\ Given(x).day \in Nat /\ x.start \in Nat /\ x.end \in Nat /\ x \in Instrument
           /\ x.kind = "par" => Given(x).day = x.end
           /\ x.kind = "future" /\ config.future = "strip" => Given(x).day = x.start
<1>1. x \in Instrument /\ x.start \in Nat /\ x.end \in Nat /\ x.kind \in Kinds
    BY Configured DEF Instrument
<1>2. CASE x.kind = "deposit"
    BY <1>1, <1>2 DEF Given, Deposit
<1>3. CASE x.kind = "discount"
    BY <1>1, <1>3 DEF Given, Discount
<1>4. CASE x.kind = "par"
    BY <1>1, <1>4 DEF Given, Discount, Par
<1>5. CASE x.kind = "future"
    BY <1>1, <1>5 DEF Given, FutureStrip, FutureTenor
<1>6. CASE x.kind = "bond"
    BY <1>1, <1>6 DEF Given, Bond
<1> QED
    BY <1>1, <1>2, <1>3, <1>4, <1>5, <1>6 DEF Kinds

LEMMA GivenPriced ==
    ASSUME StripInv, pc = "rates", up <= Len(Assets), InOrderSoFar,
           NEW x, x = Assets[up], x.found, x.kind # "swap",
           NEW u \in Given(x).took
    PROVE  Priced(u, points, Assets)
<1>1. config \in Configs /\ up \in DOMAIN Assets
    BY Configured DEF StripInv, StripType
<1>2. x \in Instrument /\ x.start \in Nat /\ x.end \in Nat /\ x.kind \in Kinds
    BY <1>1, GivenDay DEF Instrument
<1>d. ASSUME u \in Discount(x).took PROVE Priced(u, points, Assets)
    <2>1. u = Took(x.start, FactorOn(points, x.start))
        BY <1>d DEF Discount
    <2> QED
        BY <1>2, <2>1, HonestRead, ReadIsPriced
<1>3. CASE x.kind = "deposit"
    BY <1>3 DEF Given, Deposit
<1>4. CASE x.kind = "discount"
    BY <1>4, <1>d DEF Given
<1>5. CASE x.kind = "par"
    <2>1. CASE config.builder # "day_count"
        BY <1>5, <1>d, <2>1 DEF Given
    <2>2. CASE config.builder = "day_count"
        <3>1. u \in Par(x).took
            BY <1>5, <2>2 DEF Given
        <3>2. /\ seen.rate # NoInstrument /\ Assets[seen.rate].kind = "par"
              /\ u = TookAfter(seen.rate, Assets[seen.rate].end, seen.df)
            BY <3>1 DEF Par
        <3> QED
            BY <2>2, <3>2 DEF StripInv, LastPar
    <2> QED
        BY <2>1, <2>2
<1>6. CASE x.kind = "future"
    <2>1. CASE config.future = "strip"
        <3>1. u \in FutureStrip(x).took
            BY <1>6, <2>1 DEF Given
        <3>2. /\ seen.futureDf # <<"none">>
              /\ u = TookAfter(RateBefore, Assets[seen.future].start, seen.futureDf)
            BY <3>1 DEF FutureStrip, RateBefore
        <3>3. FutureFound(up) /\ up >= up
            BY <1>6 DEF FutureFound, StripInv, StripType
        <3> QED
            BY <1>1, <3>2, <3>3 DEF StripInv, LastFuture
    <2>2. CASE config.future # "strip"
        <3>1. u = Took(x.start, FactorOn(points, x.start))
            BY <1>6, <2>2 DEF Given, FutureTenor
        <3> QED
            BY <1>2, <3>1, HonestRead, ReadIsPriced
    <2> QED
        BY <2>1, <2>2
<1>7. CASE x.kind = "bond"
    <2>1. u \in Bond(x).took
        BY <1>7 DEF Given
    <2>2. PICK d \in Range(Schedule(x)) : u = Took(d, FactorOn(points, d))
        BY <2>1 DEF Bond
    <2>3. x.every > 0
        BY <1>1, <1>7, Configured
    <2>4. Schedule(x) \in Seq(Nat)
        BY <1>2, <2>3, Dates
    <2>5. d \in Nat
        BY <2>2, <2>4 DEF Range
    <2> QED
        BY <2>2, <2>5, HonestRead, ReadIsPriced
<1> QED
    BY <1>2, <1>3, <1>4, <1>5, <1>6, <1>7 DEF Kinds

\* What a swap gives, takes and implies.
LEMMA StripGives ==
    ASSUME NEW i, NEW x, IsSwap(i, x), points \in Tables, Strip(i)
    PROVE  /\ points' \in Tables /\ x.end <= LastDate(points') /\ LastDate(points) <= LastDate(points')
           /\ ordered' => ordered /\ Holds(points, points') /\ \A u \in SwapTook(i) : Priced(u, points', Assets)
<1>1. points' = Put(Filled(i), x.end, OwnValue(i, x.end)) /\ ordered' = Extends(x.end)
    BY DEF Strip, IsSwap
<1>2. x.start \in Nat /\ x.end \in Nat /\ i \in Nat /\ OwnValue(i, x.end) \in Nat \X Nat
    BY SwapDates, Own
<1>3. Filled(i) \in Tables /\ LastDate(points) <= LastDate(Filled(i))
    BY FilledGrows
<1>4. points' \in Tables /\ x.end <= LastDate(points') /\ LastDate(Filled(i)) <= LastDate(points')
    BY <1>1, <1>2, <1>3, PutGrows DEF Tables
<1>5. LastDate(points) <= LastDate(points')
    <2>1. LastDate(points) \in Nat /\ LastDate(Filled(i)) \in Nat /\ LastDate(points') \in Nat
        BY <1>3, <1>4, PointRows DEF Tables
    <2> QED
        BY <1>3, <1>4, <2>1
<1>6. ASSUME ordered'
      PROVE  ordered /\ Holds(points, points') /\ \A u \in SwapTook(i) : Priced(u, points', Assets)
    <2>1. ordered /\ x.end > LastDate(points)
        BY <1>1, <1>6 DEF Extends
    <2>2. LastDate(points) < x.end
        BY <1>2, <2>1, PointRows DEF Tables
    <2>3. FilledRight(i, x, Filled(i))
        BY <2>2, FilledIsRight
    <2>4. Holds(Filled(i), points')
        <3>1. x.end > LastDate(Filled(i))
            BY <1>2, <1>3, <2>3, PointRows DEF FilledRight, Tables
        <3> QED
            BY <1>1, <1>2, <1>3, <3>1, PutHolds DEF Tables
    <2>5. Holds(points, points')
        BY <2>3, <2>4, HoldsOn DEF FilledRight
    <2>6. ASSUME NEW d \in Nat PROVE Priced(Took(d, FactorOn(points, d)), points', Assets)
        BY <2>5, HonestRead, HonestStays, ReadIsPriced
    <2>7. ASSUME NEW d \in Nat, FactorOn(Filled(i), d) = <<"exact", OwnValue(i, d)>>
          PROVE  Priced(Took(d, <<"exact", OwnValue(i, d)>>), points', Assets)
        <3>1. Honest(Took(d, FactorOn(Filled(i), d)), Filled(i))
            BY HonestRead
        <3> QED
            BY <2>4, <2>7, <3>1, HonestStays, ReadIsPriced
    <2>8. ASSUME NEW u \in SwapTook(i) PROVE Priced(u, points', Assets)
        <3> DEFINE OwnTook(d) == Took(d, <<"exact", OwnValue(i, d)>>)
                   CurveTook(d) == Took(d, FactorOn(points, d))
        <3>1. CASE u = IF Opens(x) THEN OwnTook(x.start) ELSE CurveTook(x.start)
            <4>1. CASE Opens(x)
                BY <1>2, <2>3, <2>7, <3>1, <4>1 DEF FilledRight
            <4>2. CASE ~ Opens(x)
                BY <1>2, <2>6, <3>1, <4>2
            <4> QED
                BY <4>1, <4>2
        <3>2. CASE \E j \in Between(x) : u = IF j \in Beyond(x) THEN OwnTook(Schedule(x)[j]) ELSE CurveTook(Schedule(x)[j])
            <4>1. PICK j \in Between(x) : u = IF j \in Beyond(x) THEN OwnTook(Schedule(x)[j]) ELSE CurveTook(Schedule(x)[j])
                BY <3>2
            <4>2. Schedule(x)[j] \in Nat
                <5>1. j \in 1..Len(Schedule(x))
                    BY SwapDates DEF Between
                <5> QED
                    BY <5>1, SwapDates
            <4>3. CASE j \in Beyond(x)
                BY <2>3, <2>7, <4>1, <4>2, <4>3 DEF FilledRight
            <4>4. CASE j \notin Beyond(x)
                BY <2>6, <4>1, <4>2, <4>4
            <4> QED
                BY <4>3, <4>4
        <3>3. x = Assets[i]
            BY DEF IsSwap
        <3> QED
            BY <3>1, <3>2, <3>3 DEF SwapTook
    <2> QED
        BY <2>1, <2>5, <2>8
<1> QED
    BY <1>4, <1>5, <1>6

LEMMA ImpliedIsBetween ==
    ASSUME NEW i, NEW x, IsSwap(i, x), points \in Tables,
           seen.swap.end \in Nat, seen.swap.end <= LastDate(points), NEW p \in Implied(x)
    PROVE  p.from < p.at /\ p.at < p.to
<1>1. PICK j \in Beyond(x) :
        /\ p.at = Schedule(x)[j] /\ p.to = x.end
        /\ p.from = IF seen.swap.every = x.every /\ config.even THEN seen.swap.end ELSE Schedule(x)[j-1]
    BY DEF Implied
<1>2. j \in 2..Len(Schedule(x)) - 1 /\ j \in 1..Len(Schedule(x)) /\ p.at \in Nat /\ p.at < x.end
    BY <1>1, BeyondIn
<1>3. Schedule(x)[j-1] < Schedule(x)[j]
    <2>1. j - 1 \in 1..Len(Schedule(x)) /\ j - 1 < j
        BY <1>2
    <2> QED
        BY <1>2, <2>1, SwapDates
<1>4. LastDate(points) \in Nat /\ ~ (p.at <= LastDate(points))
    BY <1>1, PointRows DEF Beyond, Within, Tables
<1> QED
    BY <1>1, <1>2, <1>3, <1>4
-----------------------------------------------------------------------------
(***************************************************************************)
(* The invariant is kept by each step.                                     *)
(***************************************************************************)
LEMMA StripStart ==
    ASSUME StripInit
    PROVE  StripInv
<1>1. /\ config \in Configs /\ up = 1 /\ points = << >> /\ swaps = << >> /\ pc = "rates"
      /\ seen = [rate |-> NoInstrument, df |-> <<"none">>, future |-> NoInstrument,
                 futureDf |-> <<"none">>, swap |-> [end |-> 0, every |-> 0], day |-> 0]
      /\ taken = [i \in DOMAIN Assets |-> {}] /\ implied = {} /\ knots = << >>
    BY DEF StripInit
<1>2. seen.rate = NoInstrument /\ seen.futureDf = <<"none">> /\ seen.swap.end = 0 /\ Locals(seen)
    BY <1>1 DEF Locals
<1>3. points \in Tables /\ LastDate(points) = 0
    BY <1>1 DEF Tables, InOrder, LastDate
<1>4. StripType
    <2>1. up \in Nat \ {0} /\ swaps \in Seq(SwapsFound)
        BY <1>1
    <2>2. taken = [i \in DOMAIN Assets |-> taken[i]]
        BY <1>1
    <2> QED
        BY <1>1, <1>2, <2>1, <2>2 DEF StripType
<1>5. CurveReaches
    BY <1>2, <1>3 DEF CurveReaches
<1>6. CubicImplies /\ ImpliedBetween
    BY <1>1 DEF CubicImplies, ImpliedBetween
<1>7. PricesKept
    BY <1>1 DEF PricesKept
<1>8. LastPar /\ LastFuture
    BY <1>2 DEF LastPar, LastFuture
<1> QED
    BY <1>4, <1>5, <1>6, <1>7, <1>8 DEF StripInv

\* A step that leaves the curve and what was taken from it alone.
LEMMA SameCurve ==
    ASSUME StripInv, UNCHANGED <<config, points, taken, implied, ordered>>,
           seen'.swap = seen.swap
    PROVE  CurveReaches' /\ CubicImplies' /\ ImpliedBetween' /\ PricesKept'
<1>1. CurveReaches'
    BY DEF StripInv, CurveReaches
<1>2. CubicImplies' /\ ImpliedBetween'
    BY DEF StripInv, CubicImplies, ImpliedBetween
<1>3. PricesKept'
    BY DEF StripInv, PricesKept, InOrderSoFar, Assets
<1> QED
    BY <1>1, <1>2, <1>3

LEMMA SkipRateKeeps == ASSUME StripInv, SkipRate PROVE StripInv'
<1>1. /\ up' = up + 1 /\ UNCHANGED <<config, points, swaps, pc, taken, implied, knots, ordered>>
      /\ ~ Assets[up].found \/ config.builder = "cubic"
      /\ seen' = seen \/ seen' = [seen EXCEPT !.rate = up]
    BY DEF SkipRate, Skipped
<1>2. up \in Nat \ {0} /\ Locals(seen) /\ up # NoInstrument
    BY DEF StripInv, StripType, NoInstrument
<1>3. /\ seen'.rate = seen.rate \/ seen'.rate = up
      /\ seen'.df = seen.df /\ seen'.future = seen.future
      /\ seen'.futureDf = seen.futureDf /\ seen'.swap = seen.swap /\ Locals(seen')
    BY <1>1, <1>2 DEF Locals
<1>4. ASSUME NEW d, NEW v, config.builder # "cubic"
      PROVE  Priced(TookAfter(up, d, v), points, Assets)
    BY <1>1, <1>2, <1>4 DEF Priced, TookAfter
<1>5. StripType'
    BY <1>1, <1>2, <1>3 DEF StripInv, StripType, Assets, SwapsFound
<1>6. CurveReaches' /\ CubicImplies' /\ ImpliedBetween' /\ PricesKept'
    BY <1>1, <1>3, SameCurve
<1>7. LastPar'
    <2> SUFFICES ASSUME InOrderSoFar, pc = "rates", config.builder = "day_count",
                        seen'.rate # NoInstrument, Assets[seen'.rate].kind = "par"
                 PROVE  Priced(TookAfter(seen'.rate, Assets[seen'.rate].end, seen.df), points, Assets)
        BY <1>1, <1>3 DEF LastPar, InOrderSoFar, Assets
    <2>1. CASE seen'.rate = seen.rate
        BY <2>1 DEF StripInv, LastPar
    <2>2. CASE seen'.rate = up
        BY <1>4, <2>2
    <2> QED
        BY <1>3, <2>1, <2>2
<1>8. LastFuture'
    <2> DEFINE before == IF config.builder = "spread" THEN seen'.rate ELSE seen.future
    <2> SUFFICES ASSUME InOrderSoFar, pc = "rates", seen.futureDf # <<"none">>
                 PROVE  /\ config.future = "strip" /\ \E i \in DOMAIN Assets : i < up + 1 /\ FutureFound(i)
                        /\ (\E i \in DOMAIN Assets : i >= up + 1 /\ FutureFound(i)) =>
                             Priced(TookAfter(before, Assets[seen.future].start, seen.futureDf), points, Assets)
        BY <1>1, <1>3 DEF LastFuture, InOrderSoFar, Assets, FutureFound, RateBefore
    <2>1. \A i \in DOMAIN Assets : i \in Nat /\ up \in Nat
        BY Configured DEF StripInv, StripType
    <2>2. \A i \in DOMAIN Assets : (i < up => i < up + 1) /\ (i >= up + 1 => i >= up)
        BY <2>1
    <2>3. config.builder # "cubic"
        BY DEF InOrderSoFar
    <2>4. before = RateBefore \/ before = up
        BY <1>3 DEF RateBefore
    <2>5. CASE before = RateBefore
        BY <2>2, <2>5 DEF StripInv, LastFuture
    <2>6. CASE before = up
        <3>1. Priced(TookAfter(before, Assets[seen.future].start, seen.futureDf), points, Assets)
            BY <1>4, <2>3, <2>6
        <3> QED
            BY <2>2, <3>1 DEF StripInv, LastFuture
    <2> QED
        BY <2>4, <2>5, <2>6
<1> QED
    BY <1>5, <1>6, <1>7, <1>8 DEF StripInv

LEMMA PutOffSwapKeeps == ASSUME StripInv, PutOffSwap PROVE StripInv'
<1>1. /\ up' = up + 1 /\ UNCHANGED <<config, points, pc, taken, implied, knots, ordered>>
      /\ swaps' = Append(swaps, up) /\ seen' = [seen EXCEPT !.rate = up]
      /\ Assets[up].kind = "swap" /\ Assets[up].found /\ up <= Len(Assets)
      /\ config.builder # "spread"
    BY DEF PutOffSwap, PutOff, Skipped
<1>2. up \in Nat \ {0} /\ swaps \in Seq(SwapsFound) /\ Locals(seen) /\ config \in Configs
    BY DEF StripInv, StripType
<1>3. up \in SwapsFound
    BY <1>1, <1>2, Configured DEF SwapsFound
<1>4. /\ seen'.rate = up /\ seen'.df = seen.df /\ seen'.future = seen.future
      /\ seen'.futureDf = seen.futureDf /\ seen'.swap = seen.swap /\ Locals(seen')
    BY <1>1, <1>2 DEF Locals
<1>5. StripType'
    <2>1. swaps' \in Seq(SwapsFound)
        BY <1>1, <1>2, <1>3
    <2> QED
        BY <1>1, <1>2, <1>4, <2>1 DEF StripInv, StripType, Assets, SwapsFound
<1>6. CurveReaches' /\ CubicImplies' /\ ImpliedBetween' /\ PricesKept'
    BY <1>1, <1>4, SameCurve
<1>7. LastPar'
    BY <1>1, <1>4 DEF LastPar, Assets
<1>8. LastFuture'
    <2> SUFFICES ASSUME InOrderSoFar, pc = "rates", seen.futureDf # <<"none">>
                 PROVE  /\ config.future = "strip" /\ \E i \in DOMAIN Assets : i < up + 1 /\ FutureFound(i)
                        /\ (\E i \in DOMAIN Assets : i >= up + 1 /\ FutureFound(i)) =>
                             Priced(TookAfter(seen.future, Assets[seen.future].start, seen.futureDf), points, Assets)
        BY <1>1, <1>4 DEF LastFuture, InOrderSoFar, Assets, FutureFound, RateBefore
    <2>1. \A i \in DOMAIN Assets : i \in Nat /\ up \in Nat
        BY Configured DEF StripInv, StripType
    <2>2. \A i \in DOMAIN Assets : (i < up => i < up + 1) /\ (i >= up + 1 => i >= up)
        BY <2>1
    <2> QED
        BY <1>1, <2>2 DEF StripInv, LastFuture, RateBefore
<1> QED
    BY <1>5, <1>6, <1>7, <1>8 DEF StripInv

\* The rates are all taken.
LEMMA RatesDoneKeeps == ASSUME StripInv, RatesDone PROVE StripInv'
<1>1. /\ up' = 1 /\ pc' = "swaps"
      /\ UNCHANGED <<config, points, seen, swaps, taken, implied, knots, ordered>>
    BY DEF RatesDone
<1>2. StripType'
    BY <1>1 DEF StripInv, StripType, Assets, SwapsFound, Locals
<1>3. CurveReaches' /\ CubicImplies' /\ ImpliedBetween' /\ PricesKept'
    BY <1>1, SameCurve
<1>4. LastPar' /\ LastFuture'
    BY <1>1 DEF LastPar, LastFuture
<1> QED
    BY <1>2, <1>3, <1>4 DEF StripInv

LEMMA ReturnKeeps == ASSUME StripInv, Return PROVE StripInv'
<1>1. /\ pc' # "rates"
      /\ UNCHANGED <<config, up, points, seen, swaps, taken, implied, knots, ordered>>
    BY DEF Return
<1>2. StripType'
    BY <1>1 DEF StripInv, StripType, Assets, SwapsFound, Locals
<1>3. CurveReaches' /\ CubicImplies' /\ ImpliedBetween' /\ PricesKept'
    BY <1>1, SameCurve
<1>4. LastPar' /\ LastFuture'
    BY <1>1 DEF LastPar, LastFuture
<1> QED
    BY <1>2, <1>3, <1>4 DEF StripInv

LEMMA CubicSplineKeeps == ASSUME StripInv, CubicSpline PROVE StripInv'
<1>1. /\ pc = "swaps" /\ config.builder = "cubic" /\ up' = Len(swaps) + 1
      /\ UNCHANGED <<config, seen, swaps, pc, taken, implied, knots, ordered>>
    BY DEF CubicSpline
<1>2. StripType'
    <2>1. Len(swaps) + 1 \in Nat \ {0}
        BY DEF StripInv, StripType
    <2> QED
        BY <1>1, <2>1 DEF StripInv, StripType, Assets, SwapsFound, Locals
<1>3. CurveReaches' /\ CubicImplies' /\ ImpliedBetween' /\ PricesKept'
    BY <1>1 DEF StripInv, CurveReaches, CubicImplies, ImpliedBetween, PricesKept, InOrderSoFar
<1>4. LastPar' /\ LastFuture'
    BY <1>1 DEF LastPar, LastFuture
<1> QED
    BY <1>2, <1>3, <1>4 DEF StripInv

\* What was taken stays honest on a curve that holds what it told.
LEMMA PricesStay ==
    ASSUME StripInv, UNCHANGED config, NEW i \in DOMAIN Assets, NEW T, taken' = [taken EXCEPT ![i] = T],
           InOrderSoFar' => /\ InOrderSoFar /\ Holds(points, points')
                            /\ \A u \in T : Priced(u, points', Assets)
    PROVE  PricesKept' /\ taken' = [k \in DOMAIN Assets |-> taken'[k]]
<1>1. taken = [k \in DOMAIN Assets |-> taken[k]] /\ Assets' = Assets
    BY DEF StripInv, StripType, Assets
<1>2. taken' = [k \in DOMAIN Assets |-> taken'[k]]
    BY <1>1
<1>3. \A k \in DOMAIN Assets : taken'[k] = IF k = i THEN T ELSE taken[k]
    BY <1>1
<1>4. ASSUME InOrderSoFar', NEW k \in DOMAIN Assets, NEW u \in taken'[k] PROVE Priced(u, points', Assets)
    <2>1. CASE k = i
        BY <1>3, <1>4, <2>1
    <2>2. CASE k # i
        <3>1. Priced(u, points, Assets)
            BY <1>3, <1>4, <2>2 DEF StripInv, PricesKept
        <3> QED
            BY <1>4, <3>1, PricedStays
    <2> QED
        BY <2>1, <2>2
<1>5. PricesKept'
    BY <1>1, <1>4 DEF PricesKept
<1> QED
    BY <1>2, <1>5

\* One swap is stripped.
LEMMA StripKeeps ==
    ASSUME StripInv, UNCHANGED config, config.builder # "cubic", NEW i, NEW x, IsSwap(i, x), Strip(i)
    PROVE  /\ CurveReaches' /\ CubicImplies' /\ ImpliedBetween' /\ PricesKept'
           /\ taken' = [k \in DOMAIN Assets |-> taken'[k]] /\ Locals(seen')
           /\ seen'.rate = i /\ seen'.futureDf = seen.futureDf
           /\ seen'.future = IF config.builder = "spread" THEN i ELSE seen.future
           /\ ordered' => ordered /\ Holds(points, points')
<1>1. /\ config \in Configs /\ Locals(seen) /\ points \in Tables
      /\ seen.swap.end \in Nat /\ seen.swap.end <= LastDate(points)
    BY DEF StripInv, StripType, CurveReaches
<1>2. i \in DOMAIN Assets /\ x = Assets[i]
    BY DEF IsSwap
<1>3. /\ taken' = [taken EXCEPT ![i] = SwapTook(i)]
      /\ implied' = implied \cup Implied(x) /\ seen' = AfterSwap(i)
    BY <1>2 DEF Strip
<1>4. /\ seen'.rate = i /\ seen'.futureDf = seen.futureDf
      /\ seen'.future = IF config.builder = "spread" THEN i ELSE seen.future
      /\ seen'.swap = [end |-> x.end, every |-> x.every] /\ Locals(seen')
    BY <1>1, <1>2, <1>3 DEF AfterSwap, Locals
<1>5. /\ points' \in Tables /\ x.end <= LastDate(points')
      /\ ordered' => ordered /\ Holds(points, points') /\ \A u \in SwapTook(i) : Priced(u, points', Assets)
    BY <1>1, StripGives
<1>6. CurveReaches'
    <2>1. seen'.swap.end = x.end /\ x.end \in Nat
        BY <1>4, SwapDates
    <2> QED
        BY <1>5, <2>1 DEF CurveReaches
<1>7. CubicImplies'
    BY DEF CubicImplies
<1>8. ImpliedBetween'
    <2>1. \A p \in Implied(x) : p.from < p.at /\ p.at < p.to
        BY <1>1, ImpliedIsBetween
    <2> QED
        BY <1>3, <2>1 DEF StripInv, ImpliedBetween
<1>9. PricesKept' /\ taken' = [k \in DOMAIN Assets |-> taken'[k]]
    <2>1. InOrderSoFar' => /\ InOrderSoFar /\ Holds(points, points')
                           /\ \A u \in SwapTook(i) : Priced(u, points', Assets)
        BY <1>5 DEF InOrderSoFar
    <2> QED
        BY <1>2, <1>3, <2>1, PricesStay
<1> QED
    BY <1>4, <1>5, <1>6, <1>7, <1>8, <1>9

\* An instrument that is no future comes between two of a strip in no spread curve.
LEMMA FutureStays ==
    ASSUME StripInv, Orderly(config), UNCHANGED config, up' = up + 1, pc = "rates", up \in DOMAIN Assets,
           Assets[up].found, Assets[up].kind # "future",
           InOrderSoFar' => InOrderSoFar /\ Holds(points, points'),
           seen'.futureDf = seen.futureDf, config.builder # "spread" => seen'.future = seen.future
    PROVE  LastFuture'
<1> DEFINE before == IF config.builder = "spread" THEN seen'.rate ELSE seen'.future
<1> SUFFICES ASSUME InOrderSoFar, Holds(points, points'), seen.futureDf # <<"none">>
             PROVE  /\ config.future = "strip" /\ \E i \in DOMAIN Assets : i < up + 1 /\ FutureFound(i)
                    /\ (\E i \in DOMAIN Assets : i >= up + 1 /\ FutureFound(i)) =>
                         Priced(TookAfter(before, Assets[seen'.future].start, seen.futureDf), points', Assets)
    BY DEF LastFuture, Assets, FutureFound, RateBefore
<1>1. config \in Configs
    BY DEF StripInv, StripType
<1>2. \A i \in DOMAIN Assets : i \in Nat
    BY <1>1, Configured
<1>3. config.future = "strip"
    BY DEF StripInv, LastFuture
<1>4. PICK i \in DOMAIN Assets : i < up /\ FutureFound(i)
    BY DEF StripInv, LastFuture
<1>5. i < up + 1
    BY <1>2, <1>4
<1>6. ASSUME NEW k \in DOMAIN Assets, k >= up + 1, FutureFound(k)
      PROVE  Priced(TookAfter(before, Assets[seen'.future].start, seen.futureDf), points', Assets)
    <2>1. up < k /\ k >= up
        BY <1>2, <1>6
    <2>2. config.builder # "spread"
        BY <1>3, <1>4, <1>6, <2>1, OneAfterAnother
    <2>3. Priced(TookAfter(RateBefore, Assets[seen.future].start, seen.futureDf), points, Assets)
        BY <1>6, <2>1 DEF StripInv, LastFuture
    <2>4. before = RateBefore /\ seen'.future = seen.future
        BY <2>2 DEF RateBefore
    <2> QED
        BY <2>3, <2>4, PricedStays
<1> QED
    BY <1>3, <1>4, <1>5, <1>6

LEMMA TakeSwapKeeps == ASSUME StripInv, Orderly(config), TakeSwap PROVE StripInv'
<1>1. /\ pc = "rates" /\ up <= Len(Assets) /\ Assets[up].found /\ Assets[up].kind = "swap"
      /\ config.builder # "cubic" /\ Strip(up) /\ up' = up + 1
      /\ UNCHANGED <<config, swaps, pc, knots>>
    BY DEF TakeSwap, Skipped, PutOff
<1>2. up \in Nat \ {0} /\ config \in Configs /\ up + 1 \in Nat \ {0}
    BY DEF StripInv, StripType
<1>3. up \in DOMAIN Assets /\ IsSwap(up, Assets[up])
    BY <1>1, <1>2, Configured DEF IsSwap
<1>4. /\ CurveReaches' /\ CubicImplies' /\ ImpliedBetween' /\ PricesKept'
      /\ taken' = [k \in DOMAIN Assets |-> taken'[k]] /\ Locals(seen')
      /\ seen'.rate = up /\ seen'.futureDf = seen.futureDf
      /\ seen'.future = IF config.builder = "spread" THEN up ELSE seen.future
      /\ ordered' => ordered /\ Holds(points, points')
    BY <1>1, <1>3, StripKeeps
<1>5. StripType'
    BY <1>1, <1>2, <1>4 DEF StripInv, StripType, Assets, SwapsFound
<1>6. LastPar'
    BY <1>1, <1>4 DEF LastPar, Assets
<1>7. LastFuture'
    <2>1. InOrderSoFar' => InOrderSoFar /\ Holds(points, points')
        BY <1>1, <1>4 DEF InOrderSoFar
    <2> QED
        BY <1>1, <1>3, <1>4, <2>1, FutureStays
<1> QED
    BY <1>4, <1>5, <1>6, <1>7 DEF StripInv

LEMMA SplineSwapKeeps == ASSUME StripInv, SplineSwap PROVE StripInv'
<1>1. /\ pc = "swaps" /\ config.builder = "day_count" /\ up <= Len(swaps) /\ Strip(swaps[up])
      /\ up' = up + 1 /\ UNCHANGED <<config, swaps, pc>>
    BY DEF SplineSwap
<1>2. /\ up \in Nat \ {0} /\ config \in Configs /\ up + 1 \in Nat \ {0}
      /\ swaps \in Seq(SwapsFound)
    BY DEF StripInv, StripType
<1>3. swaps[up] \in SwapsFound
    BY <1>1, <1>2
<1>4. IsSwap(swaps[up], Assets[swaps[up]])
    BY <1>2, <1>3 DEF IsSwap, SwapsFound
<1>5. /\ CurveReaches' /\ CubicImplies' /\ ImpliedBetween' /\ PricesKept'
      /\ taken' = [k \in DOMAIN Assets |-> taken'[k]] /\ Locals(seen')
    BY <1>1, <1>4, StripKeeps
<1>6. StripType'
    BY <1>1, <1>2, <1>5 DEF StripInv, StripType, Assets, SwapsFound
<1>7. LastPar' /\ LastFuture'
    BY <1>1 DEF LastPar, LastFuture
<1> QED
    BY <1>5, <1>6, <1>7 DEF StripInv

LEMMA TakeRateKeeps == ASSUME StripInv, Orderly(config), TakeRate PROVE StripInv'
<1> PICK x : x = Assets[up]
    OBVIOUS
<1> PICK g : g = Given(x)
    OBVIOUS
<1>1. /\ pc = "rates" /\ up <= Len(Assets) /\ x.found /\ x.kind # "swap"
      /\ points' = Put(points, g.day, OwnValue(up, g.day))
      /\ taken' = [taken EXCEPT ![up] = g.took]
      /\ seen' = NextLast(x, g.day) /\ ordered' = Extends(g.day)
      /\ up' = up + 1 /\ UNCHANGED <<config, swaps, pc, implied, knots>>
    BY DEF TakeRate, Skipped
<1>2. up \in Nat \ {0} /\ config \in Configs /\ up + 1 \in Nat \ {0} /\ Locals(seen)
    BY DEF StripInv, StripType
<1>3. up \in DOMAIN Assets
    BY <1>1, <1>2, Configured
<1>4. g.day \in Nat /\ OwnValue(up, g.day) \in Nat \X Nat
    BY <1>1, <1>2, <1>3, GivenDay, Own
<1>5. /\ seen'.rate = up /\ Locals(seen') /\ seen'.swap = seen.swap
      /\ seen'.df = IF x.kind \in {"discount", "par", "future"}
                    THEN <<"exact", OwnValue(up, g.day)>> ELSE seen.df
      /\ seen'.future = IF x.kind = "future" \/ config.builder = "spread" THEN up ELSE seen.future
      /\ seen'.futureDf = IF x.kind = "future" /\ config.future = "strip"
                          THEN <<"exact", OwnValue(up, g.day)>> ELSE seen.futureDf
    BY <1>1, <1>2 DEF NextLast, Locals
<1>6. ASSUME config.builder # "cubic"
      PROVE  points \in Tables /\ points' \in Tables /\ LastDate(points) <= LastDate(points')
    <2>1. points \in Tables
        BY <1>6 DEF StripInv, CurveReaches
    <2> QED
        BY <1>1, <1>4, <2>1, PutGrows DEF Tables
<1>7. CurveReaches'
    <2> SUFFICES ASSUME config.builder # "cubic"
                 PROVE  points' \in Tables /\ seen.swap.end \in Nat /\ seen.swap.end <= LastDate(points')
        BY <1>1, <1>5 DEF CurveReaches
    <2>1. seen.swap.end \in Nat /\ seen.swap.end <= LastDate(points)
        BY DEF StripInv, CurveReaches
    <2>2. LastDate(points) \in Nat /\ LastDate(points') \in Nat
        BY <1>6, PointRows DEF Tables
    <2> QED
        BY <1>6, <2>1, <2>2
<1>8. CubicImplies' /\ ImpliedBetween'
    BY <1>1 DEF StripInv, CubicImplies, ImpliedBetween
<1>9. ASSUME InOrderSoFar'
      PROVE  /\ InOrderSoFar /\ Holds(points, points')
             /\ Priced(TookAfter(up, g.day, <<"exact", OwnValue(up, g.day)>>), points', Assets)
             /\ \A u \in g.took : Priced(u, points', Assets)
    <2>1. InOrderSoFar /\ config.builder # "cubic" /\ g.day > LastDate(points)
        BY <1>1, <1>9 DEF InOrderSoFar, Extends
    <2>2. Holds(points, points')
        BY <1>1, <1>4, <1>6, <2>1, PutHolds DEF Tables
    <2>3. Priced(TookAfter(up, g.day, <<"exact", OwnValue(up, g.day)>>), points', Assets)
        BY <1>1, <1>2, <1>4, <1>6, <2>1, GiftIsPriced
    <2>4. \A u \in g.took : Priced(u, points, Assets)
        BY <1>1, <2>1, GivenPriced
    <2>5. \A u \in g.took : Priced(u, points', Assets)
        BY <2>2, <2>4, PricedStays
    <2> QED
        BY <2>1, <2>2, <2>3, <2>5
<1>10. PricesKept' /\ taken' = [k \in DOMAIN Assets |-> taken'[k]]
    BY <1>1, <1>3, <1>9, PricesStay
<1>11. StripType'
    BY <1>1, <1>2, <1>5, <1>10 DEF StripInv, StripType, Assets, SwapsFound
<1>12. LastPar'
    <2> SUFFICES ASSUME InOrderSoFar', Assets[up].kind = "par"
                 PROVE  Priced(TookAfter(up, Assets[up].end, seen'.df), points', Assets)
        BY <1>1, <1>5 DEF LastPar, Assets
    <2>1. g.day = Assets[up].end
        BY <1>2, <1>3, <1>1, GivenDay
    <2>2. seen'.df = <<"exact", OwnValue(up, g.day)>>
        BY <1>5
    <2> QED
        BY <1>9, <2>1, <2>2
<1>13. LastFuture'
    <2>1. CASE x.kind # "future"
        <3>1. seen'.futureDf = seen.futureDf /\ (config.builder # "spread" => seen'.future = seen.future)
            BY <1>5, <2>1
        <3> QED
            BY <1>1, <1>3, <1>9, <2>1, <3>1, FutureStays
    <2>2. CASE x.kind = "future" /\ config.future # "strip"
        <3>1. seen'.futureDf = seen.futureDf
            BY <1>5, <2>2
        <3>2. InOrderSoFar' => InOrderSoFar
            BY <1>9
        <3>3. InOrderSoFar => seen.futureDf = <<"none">>
            BY <1>1, <2>2 DEF StripInv, LastFuture
        <3> QED
            BY <3>1, <3>2, <3>3 DEF LastFuture
    <2>3. CASE x.kind = "future" /\ config.future = "strip"
        <3> SUFFICES ASSUME InOrderSoFar'
                     PROVE  /\ \E i \in DOMAIN Assets : i < up + 1 /\ FutureFound(i)
                            /\ Priced(TookAfter(up, Assets[up].start, seen'.futureDf), points', Assets)
            BY <1>1, <1>5, <2>3 DEF LastFuture, Assets, FutureFound, RateBefore
        <3>1. up < up + 1 /\ FutureFound(up)
            BY <1>1, <1>2, <2>3 DEF FutureFound
        <3>2. g.day = Assets[up].start
            BY <1>1, <1>2, <1>3, <2>3, GivenDay
        <3>3. seen'.futureDf = <<"exact", OwnValue(up, g.day)>>
            BY <1>5, <2>3
        <3> QED
            BY <1>3, <1>9, <3>1, <3>2, <3>3
    <2> QED
        BY <2>1, <2>2, <2>3
<1> QED
    BY <1>7, <1>8, <1>10, <1>11, <1>12, <1>13 DEF StripInv

LEMMA StripInvariance ==
    ASSUME \A c \in Configs : Orderly(c)
    PROVE  StripSpec => []StripInv
<1>1. StripInit => StripInv
    BY StripStart
<1>2. StripInv /\ [StripNext]_stripVars => StripInv'
    <2> SUFFICES ASSUME StripInv, [StripNext]_stripVars PROVE StripInv'
        OBVIOUS
    <2>1. Orderly(config)
        BY DEF StripInv, StripType
    <2>2. CASE StripNext
        BY <2>1, <2>2, SkipRateKeeps, TakeRateKeeps, TakeSwapKeeps, PutOffSwapKeeps, RatesDoneKeeps,
           SplineSwapKeeps, CubicSplineKeeps, ReturnKeeps DEF StripNext
    <2>3. CASE UNCHANGED stripVars
        <3>1. UNCHANGED <<config, up, points, seen, swaps, pc, taken, implied, knots, ordered>>
            BY <2>3 DEF stripVars
        <3>2. StripType'
            BY <3>1 DEF StripInv, StripType, Assets, SwapsFound, Locals
        <3>3. CurveReaches' /\ CubicImplies' /\ ImpliedBetween' /\ PricesKept'
            BY <3>1, SameCurve
        <3>4. LastPar' /\ LastFuture'
            BY <3>1 DEF StripInv, LastPar, LastFuture, InOrderSoFar, Assets, FutureFound, RateBefore
        <3> QED
            BY <3>2, <3>3, <3>4 DEF StripInv
    <2> QED
        BY <2>2, <2>3
<1> QED
    BY <1>1, <1>2, PTL DEF StripSpec
-----------------------------------------------------------------------------
(***************************************************************************)
(* The knots of the spline for one of the swaps that were put off.         *)
(***************************************************************************)
EndOf(k) == Assets[swaps[k]].end

\* A swap that is stripped, with others that meet it, and ends after the curve.
Splining(x, s) ==
    /\ s = Schedule(x) /\ config \in Configs /\ config.par = "spline"
    /\ points \in Tables /\ LastDate(points) < x.end
    /\ swaps \in Seq(SwapsFound) /\ swaps # << >> /\ SwapsAscend
    /\ \E i \in SwapsFound : x = Assets[i]
    /\ SwapsMeet(config)

LEMMA Splined ==
    ASSUME NEW x, NEW s, Splining(x, s)
    PROVE  /\ Len(s) \in Nat /\ Len(s) > 2 /\ Len(swaps) \in Nat \ {0}
           /\ s \in Seq(Nat) /\ s[Len(s)] = x.end
           /\ \A k \in 1..Len(s) : s[k] \in Nat /\ s[k] <= x.end
           /\ \A j, k \in 1..Len(s) : j < k => s[j] < s[k]
           /\ \A k \in 1..Len(swaps) :
                /\ EndOf(k) \in Nat /\ k \in DOMAIN swaps
                /\ EndOf(k) <= x.end => \E j \in 2..Len(s) : s[j] = EndOf(k)
<1>1. PICK i \in SwapsFound : x = Assets[i]
    BY DEF Splining
<1>2. IsSwap(i, x) /\ s = Schedule(x)
    BY <1>1 DEF Splining, SwapsFound, IsSwap
<1>3. /\ Len(s) \in Nat /\ s \in Seq(Nat) /\ x.end \in Nat
      /\ \A k \in 1..Len(s) : s[k] \in Nat /\ s[k] <= x.end
      /\ \A j, k \in 1..Len(s) : j < k => s[j] < s[k]
      /\ \A k \in 1..Len(s) : k < Len(s) => s[k] < x.end
    BY <1>2, SwapDates
<1>4. /\ Len(s) > 2
      /\ \A j \in SwapsFound : Assets[j].end <= x.end => \E k \in 2..Len(s) : s[k] = Assets[j].end
    BY <1>1, <1>2 DEF Splining, SwapsMeet, SwapsFound, Assets
<1>5. PICK k \in 2..Len(s) : s[k] = x.end
    BY <1>1, <1>3, <1>4
<1>6. k = Len(s)
    BY <1>3, <1>5
<1>7. Len(swaps) \in Nat \ {0} /\ DOMAIN swaps = 1..Len(swaps)
    BY DEF Splining
<1>8. ASSUME NEW j \in 1..Len(swaps)
      PROVE  /\ EndOf(j) \in Nat /\ j \in DOMAIN swaps
             /\ EndOf(j) <= x.end => \E l \in 2..Len(s) : s[l] = EndOf(j)
    <2>1. swaps[j] \in SwapsFound
        BY DEF Splining
    <2>2. IsSwap(swaps[j], Assets[swaps[j]])
        BY <2>1 DEF Splining, IsSwap, SwapsFound
    <2>3. EndOf(j) \in Nat
        BY <2>2, SwapDates DEF EndOf
    <2> QED
        BY <1>4, <1>7, <2>1, <2>3 DEF EndOf
<1> QED
    BY <1>3, <1>4, <1>5, <1>6, <1>7, <1>8

\* The payment dates the curve reaches are counted before the last one.
CountIsRight(s, m) ==
    /\ \A j \in 2..m : PaymentAt(s, j) <= LastDate(points)
    /\ m = MostKnots(s) \/ PaymentAt(s, m + 1) > LastDate(points)

LEMMA ReachedIs ==
    ASSUME NEW x, NEW s, Splining(x, s), NEW m, m = ReachedKnots(s, points)
    PROVE  m \in 1..Len(s) - 2
<1> DEFINE L == Len(s)
           most == MostKnots(s)
           Far == {j \in 2..L - 1 : PaymentAt(s, j) > LastDate(points)}
<1>1. L \in Nat /\ L > 2 /\ Len(swaps) \in Nat \ {0} /\ LastDate(points) \in Nat
    BY Splined, PointRows DEF Splining, Tables
<1>2. \A j \in 1..L - 1 : PaymentAt(s, j) = s[j+1] /\ PaymentAt(s, j) \in Nat
    <2> SUFFICES ASSUME NEW j \in 1..L - 1 PROVE PaymentAt(s, j) = s[j+1] /\ PaymentAt(s, j) \in Nat
        OBVIOUS
    <2>1. j + 1 <= L /\ j + 1 \in 1..L
        BY <1>1
    <2>2. s[j+1] \in Nat
        BY <2>1, Splined
    <2> QED
        BY <2>1, <2>2 DEF PaymentAt
<1>3. PaymentAt(s, L - 1) > LastDate(points)
    <2>1. L - 1 \in 1..L - 1 /\ (L - 1) + 1 = L
        BY <1>1
    <2>2. PaymentAt(s, L - 1) = x.end
        BY <1>2, <2>1, Splined
    <2>3. LastDate(points) < x.end
        BY DEF Splining
    <2> QED
        BY <1>1, <1>2, <2>1, <2>2, <2>3
<1>4. most = L - 2 + Len(swaps) /\ most \in Nat /\ L - 2 < most
    BY <1>1 DEF MostKnots
<1> HIDE DEF L, most
<1>5. \E k \in 1..most : CountIsRight(s, k)
    <2>1. L - 1 \in Far /\ Far \in SUBSET Nat
        BY <1>1, <1>3
    <2>2. PICK f \in Far : \A j \in Far : f <= j
        BY <2>1, LeastExists
    <2> HIDE DEF Far
    <2>3. f \in 2..L - 1 /\ PaymentAt(s, f) > LastDate(points)
        BY <2>2 DEF Far
    <2>4. f - 1 \in 1..most /\ (f - 1) + 1 = f
        BY <1>1, <1>4, <2>3
    <2>5. ASSUME NEW j \in 2..f - 1 PROVE PaymentAt(s, j) <= LastDate(points)
        <3>1. j \in 2..L - 1 /\ ~ (f <= j) /\ j \in 1..L - 1
            BY <1>1, <2>3
        <3>2. j \notin Far
            BY <2>2, <3>1
        <3>3. ~ (PaymentAt(s, j) > LastDate(points))
            BY <3>1, <3>2 DEF Far
        <3> QED
            BY <1>1, <1>2, <3>1, <3>3
    <2>6. CountIsRight(s, f - 1)
        BY <2>3, <2>4, <2>5 DEF CountIsRight
    <2> QED
        BY <2>4, <2>6
<1>6. m = CHOOSE k \in 1..most : CountIsRight(s, k)
    BY DEF ReachedKnots, CountIsRight, Splining, most
<1>7. m \in 1..most /\ CountIsRight(s, m)
    BY <1>5, <1>6
<1>8. ~ (m > L - 2)
    <2> SUFFICES ASSUME m > L - 2 PROVE FALSE
        OBVIOUS
    <2>1. L - 1 \in 2..m /\ L - 1 \in 1..L - 1
        BY <1>1, <1>4, <1>7
    <2>2. PaymentAt(s, L - 1) <= LastDate(points)
        BY <1>7, <2>1 DEF CountIsRight
    <2> QED
        BY <1>1, <1>2, <1>3, <2>1, <2>2
<1> QED
    BY <1>1, <1>4, <1>7, <1>8 DEF L

\* The first so many ends are knots behind the first m.
KnotBase(s, m) == [j \in 1..m |-> PaymentAt(s, j)]
Knotting(k, m, s, q) ==
    /\ q \in Seq(Nat) /\ Len(q) \in Nat /\ Len(q) >= 1 /\ Len(q) <= m + k
    /\ \A i, j \in 1..Len(q) : i < j => q[i] < q[j]
    /\ q[Len(q)] = s[m+1] \/ \E j \in 1..k : q[Len(q)] = EndOf(j)
    /\ \A j \in 1..m : s[j+1] \in Range(q)
    /\ \A j \in 1..k : EndOf(j) \in Range(q)

LEMMA KnotsBegin ==
    ASSUME NEW x, NEW s, Splining(x, s), NEW m \in 1..Len(s) - 2
    PROVE  Knotting(0, m, s, KnotBase(s, m))
<1> PICK q : q = KnotBase(s, m)
    OBVIOUS
<1>1. Len(s) \in Nat /\ m \in Nat /\ m >= 1
    BY Splined
<1>2. \A j \in 1..m : PaymentAt(s, j) = s[j+1] /\ j + 1 \in 1..Len(s) /\ s[j+1] \in Nat
    <2> SUFFICES ASSUME NEW j \in 1..m PROVE PaymentAt(s, j) = s[j+1] /\ j + 1 \in 1..Len(s) /\ s[j+1] \in Nat
        OBVIOUS
    <2>1. j + 1 <= Len(s) /\ j + 1 \in 1..Len(s)
        BY <1>1
    <2>2. s[j+1] \in Nat
        BY <2>1, Splined
    <2> QED
        BY <2>1, <2>2 DEF PaymentAt
<1>3. q = [j \in 1..m |-> s[j+1]]
    BY <1>2 DEF KnotBase
<1>4. q \in [1..m -> Nat]
    BY <1>2, <1>3
<1>5. q \in Seq(Nat) /\ Len(q) = m
    BY <1>1, <1>4, LenProperties, SeqDef
<1>6. \A j \in 1..m : q[j] = s[j+1]
    BY <1>3
<1>7. ASSUME NEW i \in 1..m, NEW j \in 1..m, i < j PROVE q[i] < q[j]
    <2>1. i + 1 \in 1..Len(s) /\ j + 1 \in 1..Len(s) /\ i + 1 < j + 1
        BY <1>2, <1>7
    <2>2. s[i+1] < s[j+1]
        BY <2>1, Splined
    <2> QED
        BY <1>6, <2>2
<1>8. \A j \in 1..m : s[j+1] \in Range(q)
    BY <1>3, <1>6 DEF Range
<1>9. \A j \in 1..0 : EndOf(j) \in Range(q)
    OBVIOUS
<1>10. q[m] = s[m+1]
    BY <1>1, <1>6
<1> QED
    BY <1>1, <1>5, <1>7, <1>8, <1>9, <1>10 DEF Knotting

KnotStep(s, q, k) == IF EndIsKnot(q, EndOf(k), MostKnots(s)) THEN Append(q, EndOf(k)) ELSE q

LEMMA KnotsGoOn ==
    ASSUME NEW x, NEW s, Splining(x, s), NEW m \in 1..Len(s) - 2,
           NEW k \in 1..Len(swaps), NEW q, Knotting(k - 1, m, s, q)
    PROVE  Knotting(k, m, s, KnotStep(s, q, k))
<1> DEFINE e == EndOf(k)
           n == Len(q)
<1>1. /\ Len(s) \in Nat /\ Len(s) > 2 /\ Len(swaps) \in Nat /\ m \in Nat /\ m >= 1 /\ k \in Nat
      /\ e \in Nat /\ k \in DOMAIN swaps
    BY Splined
<1>2. /\ q \in Seq(Nat) /\ n \in Nat /\ n >= 1 /\ n <= m + (k - 1)
      /\ \A i, j \in 1..n : i < j => q[i] < q[j]
      /\ q[n] = s[m+1] \/ \E j \in 1..k - 1 : q[n] = EndOf(j)
      /\ \A j \in 1..m : s[j+1] \in Range(q)
      /\ \A j \in 1..k - 1 : EndOf(j) \in Range(q)
    BY DEF Knotting
<1>3. n < MostKnots(s) /\ q # << >>
    BY <1>1, <1>2 DEF MostKnots
<1>4. \A i \in 1..n : q[i] \in Nat
    BY <1>2, SMTT(30)
<1>h. n \in 1..n
    BY <1>2
<1> HIDE DEF e, n
<1>5. CASE e > q[n]
    <2> PICK r : r = Append(q, e)
        OBVIOUS
    <2>1. KnotStep(s, q, k) = r
        BY <1>3, <1>5 DEF KnotStep, EndIsKnot, e, n
    <2>2. r \in Seq(Nat) /\ Len(r) = n + 1 /\ r[n+1] = e /\ \A i \in 1..n : r[i] = q[i]
        BY <1>1, <1>2 DEF n
    <2>3. ASSUME NEW i \in 1..n + 1, NEW j \in 1..n + 1, i < j PROVE r[i] < r[j]
        <3>1. i \in 1..n
            BY <1>2, <2>3
        <3>2. CASE j = n + 1
            <4>1. i = n \/ q[i] < q[n]
                BY <1>2, <1>h, <3>1
            <4>2. q[i] < e
                BY <1>1, <1>4, <1>5, <1>h, <3>1, <4>1, SMTT(30)
            <4> QED
                BY <2>2, <3>1, <3>2, <4>2
        <3>3. CASE j # n + 1
            <4>1. j \in 1..n
                BY <1>2, <3>3
            <4> QED
                BY <1>2, <2>2, <2>3, <3>1, <4>1
        <3> QED
            BY <3>2, <3>3
    <2>4. Range(q) \subseteq Range(r) /\ e \in Range(r)
        <3>1. DOMAIN q = 1..n /\ DOMAIN r = 1..n + 1 /\ 1..n \subseteq 1..n + 1 /\ n + 1 \in 1..n + 1
            BY <1>2, <2>2 DEF n
        <3> QED
            BY <2>2, <3>1 DEF Range
    <2>5. \A j \in 1..k : EndOf(j) \in Range(r)
        <3> SUFFICES ASSUME NEW j \in 1..k PROVE EndOf(j) \in Range(r)
            OBVIOUS
        <3>1. CASE j = k
            BY <2>4, <3>1 DEF e
        <3>2. CASE j # k
            <4>1. j \in 1..k - 1
                BY <1>1, <3>2
            <4> QED
                BY <1>2, <2>4, <4>1
        <3> QED
            BY <3>1, <3>2
    <2>6. Len(r) \in Nat /\ Len(r) >= 1 /\ Len(r) <= m + k
        BY <1>1, <1>2, <2>2
    <2>7. \E j \in 1..k : r[Len(r)] = EndOf(j)
        <3>1. k \in 1..k
            BY <1>1
        <3> QED
            BY <2>2, <3>1 DEF e
    <2>8. \A j \in 1..m : s[j+1] \in Range(r)
        BY <1>2, <2>4
    <2>9. \A i, j \in 1..Len(r) : i < j => r[i] < r[j]
        BY <2>2, <2>3
    <2> QED
        BY <2>1, <2>2, <2>5, <2>6, <2>7, <2>8, <2>9 DEF Knotting
<1>6. CASE ~ (e > q[n])
    <2>1. KnotStep(s, q, k) = q
        BY <1>3, <1>6 DEF KnotStep, EndIsKnot, e, n
    <2>2. e <= q[n] /\ q[n] \in Nat
        BY <1>1, <1>4, <1>6, <1>h
    <2>3. ~ \E j \in 1..k - 1 : q[n] = EndOf(j)
        <3> SUFFICES ASSUME NEW j \in 1..k - 1, q[n] = EndOf(j) PROVE FALSE
            OBVIOUS
        <3>1. j \in 1..Len(swaps) /\ j < k
            BY <1>1
        <3>2. j \in DOMAIN swaps
            BY <3>1, Splined
        <3>3. EndOf(j) < e
            BY <1>1, <3>1, <3>2 DEF Splining, SwapsAscend, EndOf, e
        <3> QED
            BY <1>1, <2>2, <3>3
    <2>4. q[n] = s[m+1]
        BY <1>2, <2>3
    <2>5. m + 1 \in 1..Len(s)
        BY <1>1
    <2>6. s[m+1] <= x.end /\ s[m+1] \in Nat
        BY <2>5, Splined
    <2>7. \E j \in 2..Len(s) : s[j] = e
        <3>1. x.end \in Nat
            <4>1. Len(s) \in 1..Len(s)
                BY <1>1
            <4> QED
                BY <4>1, Splined
        <3>2. e <= x.end
            BY <1>1, <2>2, <2>4, <2>6, <3>1
        <3>3. EndOf(k) <= x.end => \E j \in 2..Len(s) : s[j] = EndOf(k)
            BY Splined
        <3> QED
            BY <3>2, <3>3 DEF e
    <2>8. PICK j \in 2..Len(s) : s[j] = e
        BY <2>7
    <2>9. j <= m + 1
        <3> SUFFICES ASSUME m + 1 < j PROVE FALSE
            BY <1>1
        <3>1. j \in 1..Len(s)
            BY <1>1
        <3>2. s[m+1] < s[j]
            BY <2>5, <3>1, Splined
        <3> QED
            BY <1>1, <2>2, <2>4, <2>8, <3>2
    <2>10. e \in Range(q)
        <3>1. j - 1 \in 1..m /\ (j - 1) + 1 = j
            BY <1>1, <2>9
        <3> QED
            BY <1>2, <2>8, <3>1
    <2>11. \A l \in 1..k : l = k \/ l \in 1..k - 1
        BY <1>1
    <2>12. \A l \in 1..k : EndOf(l) \in Range(q)
        BY <1>2, <2>10, <2>11 DEF e
    <2>13. n <= m + k
        BY <1>1, <1>2
    <2> QED
        BY <1>2, <2>1, <2>4, <2>12, <2>13 DEF Knotting, n
<1> QED
    BY <1>5, <1>6

\* How the knots are collected, swap by swap.
Knotted(s, m, f) ==
    f = [k \in 0..Len(swaps) |-> IF k = 0 THEN KnotBase(s, m) ELSE KnotStep(s, f[k-1], k)]

LEMMA KnotsIs ==
    ASSUME NEW s
    PROVE  Knots(s, points) = (CHOOSE f : Knotted(s, ReachedKnots(s, points), f))[Len(swaps)]
BY DEF Knots, Knotted, KnotBase, KnotStep, EndOf

LEMMA KnotsAre ==
    ASSUME NEW x, NEW s, Splining(x, s)
    PROVE  \E m \in 1..Len(s) - 2 : Knotting(Len(swaps), m, s, Knots(s, points))
<1> PICK m : m = ReachedKnots(s, points)
    OBVIOUS
<1> DEFINE n == Len(swaps)
           step == [k \in 1..n |-> [q \in Seq(Nat) |-> KnotStep(s, q, k)]]
<1>1. m \in 1..Len(s) - 2 /\ n \in Nat
    BY ReachedIs, Splined
<1>2. KnotBase(s, m) \in Seq(Nat)
    BY <1>1, KnotsBegin DEF Knotting
<1>3. step \in [1..n -> [Seq(Nat) -> Seq(Nat)]]
    <2> SUFFICES ASSUME NEW k \in 1..n, NEW q \in Seq(Nat) PROVE KnotStep(s, q, k) \in Seq(Nat)
        OBVIOUS
    <2>1. EndOf(k) \in Nat
        BY Splined
    <2> QED
        BY <2>1 DEF KnotStep
<1>4. \A k \in 1..n, q \in Seq(Nat) : step[k][q] = KnotStep(s, q, k)
    OBVIOUS
<1> HIDE DEF step, n
<1>5. PICK g : Followed(g, Seq(Nat), KnotBase(s, m), step, n)
    BY <1>1, <1>2, <1>3, Follows
<1>6. /\ g \in [0..n -> Seq(Nat)] /\ g[0] = KnotBase(s, m)
      /\ \A k \in 1..n : g[k] = step[k][g[k-1]]
    BY <1>5 DEF Followed
<1>7. ASSUME NEW k \in 1..n PROVE g[k] = KnotStep(s, g[k-1], k)
    <2>1. k - 1 \in 0..n
        BY <1>1
    <2>2. g[k-1] \in Seq(Nat)
        BY ONLY <1>6, <2>1
    <2>3. step[k][g[k-1]] = KnotStep(s, g[k-1], k)
        BY ONLY <1>4, <2>2
    <2> QED
        BY ONLY <1>6, <2>3
<1>8. Knotted(s, m, g)
    <2>1. g = [k \in 0..n |-> g[k]]
        BY <1>6
    <2>2. \A k \in 0..n : g[k] = IF k = 0 THEN KnotBase(s, m) ELSE KnotStep(s, g[k-1], k)
        BY <1>1, <1>6, <1>7
    <2>3. g = [k \in 0..n |-> IF k = 0 THEN KnotBase(s, m) ELSE KnotStep(s, g[k-1], k)]
        BY ONLY <2>1, <2>2
    <2> QED
        BY <2>3 DEF Knotted, n
<1>9. PICK f : f = CHOOSE h : Knotted(s, m, h)
    OBVIOUS
<1>10. Knotted(s, m, f)
    BY <1>8, <1>9
<1>11. f[0] = KnotBase(s, m) /\ \A k \in 1..n : f[k] = KnotStep(s, f[k-1], k)
    <2>1. f = [k \in 0..n |-> IF k = 0 THEN KnotBase(s, m) ELSE KnotStep(s, f[k-1], k)]
        BY <1>10 DEF Knotted, n
    <2>2. \A k \in 0..n : f[k] = IF k = 0 THEN KnotBase(s, m) ELSE KnotStep(s, f[k-1], k)
        BY ONLY <2>1
    <2> QED
        BY <1>1, <2>2
<1> DEFINE S == {k \in 0..n : Knotting(k, m, s, f[k])}
<1>12. 0 \in S
    BY <1>1, <1>11, KnotsBegin
<1>13. ASSUME NEW k \in 1..n, k - 1 \in S PROVE k \in S
    <2>1. Knotting(k - 1, m, s, f[k-1])
        BY <1>13
    <2>2. Knotting(k, m, s, KnotStep(s, f[k-1], k))
        BY <1>1, <2>1, KnotsGoOn DEF n
    <2> QED
        BY <1>1, <1>11, <2>2
<1> HIDE DEF S
<1>14. 0..n \subseteq S
    BY <1>1, <1>12, <1>13, Upwards
<1>15. Knotting(n, m, s, f[n])
    BY <1>1, <1>14 DEF S
<1>16. Knots(s, points) = f[n]
    BY <1>9, KnotsIs DEF n
<1> QED
    BY <1>1, <1>15, <1>16 DEF n

\* The knots of a swap that ends after the curve are right.
LEMMA SplineIsRight ==
    ASSUME StripInv, Orderly(config), SplineSwap
    PROVE  KnotsRight'
<1>1. /\ config.builder = "day_count" /\ up <= Len(swaps) /\ Strip(swaps[up])
      /\ knots' = Knots(Schedule(Assets[swaps[up]]), points)
      /\ UNCHANGED <<config, swaps>>
    BY DEF SplineSwap
<1> PICK x : x = Assets[swaps[up]]
    OBVIOUS
<1> PICK s : s = Schedule(x)
    OBVIOUS
<1>2. /\ up \in Nat \ {0} /\ config \in Configs /\ swaps \in Seq(SwapsFound)
      /\ points \in Tables
    BY <1>1 DEF StripInv, StripType, CurveReaches
<1>3. swaps[up] \in SwapsFound /\ swaps # << >>
    BY <1>1, <1>2
<1>4. IsSwap(swaps[up], x)
    BY <1>2, <1>3 DEF IsSwap, SwapsFound
<1> SUFFICES ASSUME ordered', SwapsAscend, config.par = "spline"
             PROVE  /\ \A j, k \in DOMAIN knots' : j < k => knots'[j] < knots'[k]
                    /\ Unread \notin Range(knots')
                    /\ \A i \in Range(swaps) : Assets[i].end \in Range(knots')
    BY <1>1 DEF KnotsRight, SwapsAscend, Assets
<1>5. LastDate(points) < x.end
    <2>1. ordered' = Extends(x.end)
        BY <1>1 DEF Strip
    <2>2. x.end \in Nat /\ LastDate(points) \in Nat
        BY <1>2, <1>4, SwapDates, PointRows DEF Tables
    <2> QED
        BY <2>1, <2>2 DEF Extends
<1>6. Splining(x, s)
    BY <1>1, <1>2, <1>3, <1>5 DEF Splining, Orderly
<1>7. PICK m \in 1..Len(s) - 2 : Knotting(Len(swaps), m, s, Knots(s, points))
    BY <1>6, KnotsAre
<1>8. Knotting(Len(swaps), m, s, knots')
    BY <1>1, <1>7
<1>9. knots' \in Seq(Nat) /\ \A i, j \in 1..Len(knots') : i < j => knots'[i] < knots'[j]
    BY <1>8 DEF Knotting
<1>10. \A j, k \in DOMAIN knots' : j < k => knots'[j] < knots'[k]
    BY <1>9
<1>11. Unread \notin Range(knots')
    <2>1. \A j \in DOMAIN knots' : knots'[j] \in Nat
        BY <1>9
    <2> QED
        BY <2>1 DEF Range, Unread
<1>12. ASSUME NEW i \in Range(swaps) PROVE Assets[i].end \in Range(knots')
    <2>1. PICK k \in 1..Len(swaps) : swaps[k] = i
        BY <1>2 DEF Range
    <2> QED
        BY <1>8, <2>1 DEF Knotting, EndOf
<1> QED
    BY <1>10, <1>11, <1>12

LEMMA KnotsStay ==
    ASSUME StripInv, StripInv', KnotsRight, Orderly(config), [StripNext]_stripVars
    PROVE  KnotsRight'
<1>1. CASE SplineSwap
    BY <1>1, SplineIsRight
<1>2. CASE PutOffSwap
    <2>1. knots' = << >>
        BY <1>2 DEF PutOffSwap, StripInv, StripType
    <2> QED
        BY <2>1 DEF KnotsRight
<1>3. CASE SkipRate \/ RatesDone \/ CubicSpline \/ Return \/ UNCHANGED stripVars
    <2>1. UNCHANGED <<config, swaps, knots, ordered>>
        BY <1>3 DEF SkipRate, RatesDone, CubicSpline, Return, stripVars
    <2> QED
        BY <2>1 DEF KnotsRight, SwapsAscend, Assets
<1>4. CASE TakeRate
    <2>1. knots' = << >>
        BY <1>4 DEF TakeRate, StripInv, StripType
    <2> QED
        BY <2>1 DEF KnotsRight
<1>5. CASE TakeSwap
    <2>1. knots' = << >>
        BY <1>5 DEF TakeSwap, StripInv, StripType
    <2> QED
        BY <2>1 DEF KnotsRight
<1> QED
    BY <1>1, <1>2, <1>3, <1>4, <1>5 DEF StripNext
-----------------------------------------------------------------------------
(***************************************************************************)
(* The spreads of layers that have the same days.                          *)
(***************************************************************************)
LEMMA FoundIs ==
    ASSUME NEW layer \in Seq(SpreadRate), \A k \in DOMAIN layer : layer[k].found
    PROVE  Found(layer) = layer
<1> DEFINE n == Len(layer)
           Grown(q, k) == IF layer[k].found THEN Append(q, layer[k]) ELSE q
           Finding(f) == f = [k \in 0..n |-> IF k = 0 THEN << >> ELSE Grown(f[k-1], k)]
           g == [k \in 0..n |-> SubSeq(layer, 1, k)]
<1>1. n \in Nat /\ DOMAIN layer = 1..n
    OBVIOUS
<1>2. g[0] = << >> /\ g[n] = layer
    <2>1. 0 \in 0..n /\ n \in 0..n
        BY <1>1
    <2>2. g[0] = SubSeq(layer, 1, 0) /\ g[n] = SubSeq(layer, 1, n)
        BY ONLY <2>1
    <2> QED
        BY <2>2, SubSeqEmpty, SubSeqFull
<1>3. ASSUME NEW k \in 1..n PROVE g[k] = Grown(g[k-1], k)
    <2>1. k - 1 \in 0..n /\ k \in 0..n /\ k \in Nat /\ k >= 1 /\ 1 \in 1..n /\ k \in 1..n
        BY <1>1
    <2>2. SubSeq(layer, 1, k) = SubSeq(layer, 1, k - 1) \o << layer[k] >>
        BY <1>1, <2>1, SubSeqRecursiveSecond
    <2>3. SubSeq(layer, 1, k - 1) \in Seq(SpreadRate) /\ layer[k] \in SpreadRate /\ layer[k].found
        BY <1>1, <2>1
    <2>4. SubSeq(layer, 1, k) = Append(SubSeq(layer, 1, k - 1), layer[k])
        BY <2>2, <2>3, AppendIsConcat
    <2>5. g[k] = SubSeq(layer, 1, k) /\ g[k-1] = SubSeq(layer, 1, k - 1)
        BY <2>1
    <2> QED
        BY ONLY <2>3, <2>4, <2>5
<1> HIDE DEF n, Grown
<1>4. g = [k \in 0..n |-> g[k]]
    OBVIOUS
<1> HIDE DEF g
<1>5. Finding(g)
    <2>1. \A k \in 0..n : g[k] = IF k = 0 THEN << >> ELSE Grown(g[k-1], k)
        BY <1>1, <1>2, <1>3
    <2> QED
        BY ONLY <1>4, <2>1
<1> PICK f : f = CHOOSE h : Finding(h)
    OBVIOUS
<1>6. Finding(f)
    BY <1>5
<1>7. \A k \in 0..n : f[k] = IF k = 0 THEN << >> ELSE Grown(f[k-1], k)
    BY ONLY <1>6
<1> DEFINE S == {k \in 0..n : f[k] = g[k]}
<1>8. 0 \in S
    BY <1>1, <1>2, <1>7
<1>9. ASSUME NEW k \in 1..n, k - 1 \in S PROVE k \in S
    <2>1. k \in 0..n /\ k # 0 /\ f[k-1] = g[k-1]
        BY <1>1, <1>9
    <2>2. f[k] = Grown(f[k-1], k)
        BY ONLY <1>7, <2>1
    <2> QED
        BY <1>3, <2>1, <2>2
<1> HIDE DEF S
<1>10. 0..n \subseteq S
    BY <1>1, <1>8, <1>9, Upwards
<1>11. f[n] = g[n]
    BY <1>1, <1>10 DEF S
<1>12. Found(layer) = f[n]
    BY DEF Found, n, Grown
<1> QED
    BY <1>2, <1>11, <1>12

\* The layers of a spread curve whose days are common.
Layered(N) ==
    /\ config.layers \in Seq(Seq(SpreadRate)) /\ Len(config.layers) \in Nat \ {0} /\ N \in Nat
    /\ \A l \in 1..Len(config.layers) :
         config.layers[l] \in Seq(SpreadRate) /\ Len(config.layers[l]) = N
    /\ \A l \in 1..Len(config.layers), k \in 1..N :
         /\ config.layers[l][k] \in SpreadRate /\ config.layers[l][k].found
         /\ config.layers[l][k].day = config.layers[1][k].day

LEMMA LayeredIs ==
    ASSUME config \in Configs, config.builder = "spread", CommonDays,
           NEW d \in DOMAIN Head(config.layers)
    PROVE  /\ Layered(Len(config.layers[1])) /\ Head(config.layers) = config.layers[1]
           /\ d \in 1..Len(config.layers[1])
<1> DEFINE L == config.layers
           N == Len(L[1])
<1>1. L \in Seq(Seq(SpreadRate)) /\ L # << >>
    BY StripConstants
<1>2. Len(L) \in Nat \ {0} /\ DOMAIN L = 1..Len(L) /\ Head(L) = L[1] /\ 1 \in 1..Len(L)
    BY <1>1
<1>3. \A l \in 1..Len(L) : L[l] \in Seq(SpreadRate)
    BY <1>1
<1>4. N \in Nat /\ DOMAIN L[1] = 1..N /\ d \in 1..N
    BY <1>2, <1>3
<1>5. \A l \in 1..Len(L) : Len(L[l]) = N
    BY <1>2, <1>4 DEF CommonDays
<1>6. ASSUME NEW l \in 1..Len(L), NEW k \in 1..N
      PROVE  L[l][k] \in SpreadRate /\ L[l][k].found /\ L[l][k].day = L[1][k].day
    <2>1. L[l][k] \in SpreadRate
        BY <1>3, <1>5
    <2> QED
        BY <1>2, <1>4, <2>1 DEF CommonDays
<1> QED
    BY <1>1, <1>2, <1>3, <1>4, <1>5, <1>6 DEF Layered

\* The sum of the spreads of index k, layer by layer.
Summing(k, f) ==
    f = [l \in 0..Len(config.layers) |-> IF l = 0 THEN 0 ELSE f[l-1] + config.layers[l][k].spread]
Sums(k) == CHOOSE f : Summing(k, f)

LEMMA SumsAre ==
    ASSUME NEW N, Layered(N), NEW k \in 1..N
    PROVE  /\ SpreadSum(k) = Sums(k)[Len(config.layers)] /\ Sums(k)[0] = 0
           /\ \A l \in 0..Len(config.layers) : Sums(k)[l] \in Int
           /\ \A l \in 1..Len(config.layers) : Sums(k)[l] = Sums(k)[l-1] + config.layers[l][k].spread
<1> DEFINE n == Len(config.layers)
           s(l) == config.layers[l][k].spread
           step == [l \in 1..n |-> [v \in Int |-> v + s(l)]]
<1>1. n \in Nat /\ \A l \in 1..n : s(l) \in Int
    BY DEF Layered, SpreadRate
<1> HIDE DEF s, n
<1>2. step \in [1..n -> [Int -> Int]]
    BY <1>1
<1>3. \A l \in 1..n, v \in Int : step[l][v] = v + s(l)
    OBVIOUS
<1> HIDE DEF step
<1>z. 0 \in Int
    OBVIOUS
<1>4. PICK g : Followed(g, Int, 0, step, n)
    BY ONLY <1>1, <1>2, <1>z, Follows
<1>5. g \in [0..n -> Int] /\ g[0] = 0 /\ \A l \in 1..n : g[l] = step[l][g[l-1]]
    BY <1>4 DEF Followed
<1>6. ASSUME NEW l \in 1..n PROVE g[l] = g[l-1] + s(l)
    <2>1. l - 1 \in 0..n
        BY <1>1
    <2>2. g[l-1] \in Int
        BY ONLY <1>5, <2>1
    <2>3. step[l][g[l-1]] = g[l-1] + s(l)
        BY ONLY <1>3, <2>2
    <2> QED
        BY ONLY <1>5, <2>3
<1>7. Summing(k, g)
    <2>1. g = [l \in 0..n |-> g[l]]
        BY <1>5
    <2>2. \A l \in 0..n : g[l] = IF l = 0 THEN 0 ELSE g[l-1] + s(l)
        BY <1>1, <1>5, <1>6
    <2>3. g = [l \in 0..n |-> IF l = 0 THEN 0 ELSE g[l-1] + s(l)]
        BY ONLY <2>1, <2>2
    <2> QED
        BY <2>3 DEF Summing, n, s
<1> PICK f : f = Sums(k)
    OBVIOUS
<1>8. Summing(k, f)
    BY <1>7 DEF Sums
<1>9. f[0] = 0 /\ \A l \in 1..n : f[l] = f[l-1] + s(l)
    <2>1. f = [l \in 0..n |-> IF l = 0 THEN 0 ELSE f[l-1] + s(l)]
        BY <1>8 DEF Summing, n, s
    <2>2. \A l \in 0..n : f[l] = IF l = 0 THEN 0 ELSE f[l-1] + s(l)
        BY ONLY <2>1
    <2> QED
        BY <1>1, <2>2
<1> DEFINE S == {l \in 0..n : f[l] \in Int}
<1>10. 0 \in S
    BY <1>1, <1>9
<1>11. ASSUME NEW l \in 1..n, l - 1 \in S PROVE l \in S
    BY <1>1, <1>9, <1>11
<1> HIDE DEF S
<1>12. 0..n \subseteq S
    BY <1>1, <1>10, <1>11, Upwards
<1>13. \A l \in 0..n : f[l] \in Int
    BY <1>12 DEF S
<1>14. SpreadSum(k) = f[n]
    BY DEF SpreadSum, Sums, Summing, n
<1> QED
    BY <1>9, <1>13, <1>14 DEF n, s

\* The net spreads after so many layers.
NetRow(l, k) == [day |-> config.layers[1][k].day, spread |-> Sums(k)[l], found |-> config.layers[1][k].found]
NetStep(net, l) == [k \in DOMAIN net |-> WithBelow(net[k], k, Found(config.layers[l]))]
Netting(f) ==
    f = [l \in 1..Len(config.layers) |-> IF l = 1 THEN Found(config.layers[1]) ELSE NetStep(f[l-1], l)]

LEMMA NetIs ==
    NetSpreads(config.layers) =
      [net |-> (CHOOSE f : Netting(f))[Len(config.layers)],
       count |-> Len(Found(config.layers[Len(config.layers)]))]
BY DEF NetSpreads, Netting, NetStep

LEMMA FirstNet ==
    ASSUME NEW N, Layered(N)
    PROVE  Found(config.layers[1]) = [k \in 1..N |-> NetRow(1, k)]
<1> DEFINE layer == config.layers[1]
<1>1. 1 \in 1..Len(config.layers) /\ layer \in Seq(SpreadRate) /\ Len(layer) = N /\ N \in Nat
    BY DEF Layered
<1>2. DOMAIN layer = 1..N /\ \A k \in 1..N : layer[k] \in SpreadRate /\ layer[k].found
    BY <1>1 DEF Layered
<1>3. Found(layer) = layer
    BY <1>1, <1>2, FoundIs
<1>4. ASSUME NEW k \in 1..N PROVE layer[k] = NetRow(1, k)
    <2>1. Sums(k)[1] = Sums(k)[1-1] + layer[k].spread /\ Sums(k)[0] = 0
        BY <1>1, SumsAre
    <2>2. layer[k].spread \in Int /\ layer[k] = [day |-> layer[k].day, spread |-> layer[k].spread, found |-> layer[k].found]
        BY <1>2 DEF SpreadRate
    <2>3. Sums(k)[1] = layer[k].spread
        BY <2>1, <2>2
    <2> HIDE DEF layer
    <2> QED
        BY <2>2, <2>3 DEF NetRow, layer
<1>5. layer = [k \in 1..N |-> layer[k]]
    BY <1>1, <1>2
<1> QED
    BY ONLY <1>3, <1>4, <1>5

LEMMA NextNet ==
    ASSUME NEW N, Layered(N), NEW l \in 2..Len(config.layers)
    PROVE  NetStep([k \in 1..N |-> NetRow(l - 1, k)], l) = [k \in 1..N |-> NetRow(l, k)]
<1> DEFINE layer == config.layers[l]
<1>1. l \in 1..Len(config.layers) /\ layer \in Seq(SpreadRate) /\ Len(layer) = N /\ N \in Nat
    BY DEF Layered
<1>2. DOMAIN layer = 1..N /\ \A k \in 1..N : /\ layer[k] \in SpreadRate /\ layer[k].found
                                             /\ layer[k].day = config.layers[1][k].day
    BY <1>1 DEF Layered
<1>3. Found(layer) = layer
    BY <1>1, <1>2, FoundIs
<1>4. ASSUME NEW k \in 1..N PROVE WithBelow(NetRow(l - 1, k), k, layer) = NetRow(l, k)
    <2>1. Sums(k)[l] = Sums(k)[l-1] + layer[k].spread
        BY <1>1, SumsAre
    <2>2. k \in DOMAIN layer /\ layer[k].day = NetRow(l - 1, k).day
        BY <1>2 DEF NetRow
    <2>3. WithBelow(NetRow(l - 1, k), k, layer) =
            [NetRow(l - 1, k) EXCEPT !.spread = NetRow(l - 1, k).spread + layer[k].spread]
        BY <2>2 DEF WithBelow
    <2> HIDE DEF layer
    <2>4. NetRow(l - 1, k) = [day |-> config.layers[1][k].day, spread |-> Sums(k)[l-1], found |-> config.layers[1][k].found]
        BY DEF NetRow
    <2>5. [NetRow(l - 1, k) EXCEPT !.spread = NetRow(l - 1, k).spread + layer[k].spread] =
            [day |-> config.layers[1][k].day, spread |-> Sums(k)[l-1] + layer[k].spread, found |-> config.layers[1][k].found]
        <3>1. NetRow(l - 1, k).spread = Sums(k)[l-1]
            BY ONLY <2>4
        <3>2. ASSUME NEW a, NEW b, NEW c, NEW f
              PROVE  [[day |-> a, spread |-> b, found |-> f] EXCEPT !.spread = c] =
                       [day |-> a, spread |-> c, found |-> f]
            OBVIOUS
        <3> QED
            BY ONLY <2>4, <3>1, <3>2
    <2> QED
        BY ONLY <2>1, <2>3, <2>5 DEF NetRow
<1> PICK net : net = [k \in 1..N |-> NetRow(l - 1, k)]
    OBVIOUS
<1>5. DOMAIN net = 1..N /\ \A k \in 1..N : net[k] = NetRow(l - 1, k)
    OBVIOUS
<1>6. NetStep(net, l) = [k \in 1..N |-> WithBelow(net[k], k, layer)]
    BY <1>3, <1>5 DEF NetStep
<1>7. \A k \in 1..N : WithBelow(net[k], k, layer) = NetRow(l, k)
    BY <1>4, <1>5
<1>8. NetStep(net, l) = [k \in 1..N |-> NetRow(l, k)]
    BY ONLY <1>6, <1>7
<1> QED
    BY <1>8

LEMMA NetSums ==
    ASSUME NEW N, Layered(N)
    PROVE  NetSpreads(config.layers) = [net |-> [k \in 1..N |-> NetRow(Len(config.layers), k)], count |-> N]
<1> DEFINE n == Len(config.layers)
           At(l) == [k \in 1..N |-> NetRow(l, k)]
           g == [l \in 1..n |-> At(l)]
<1>1. n \in Nat \ {0} /\ N \in Nat
    BY DEF Layered
<1>2. At(1) = Found(config.layers[1])
    BY FirstNet
<1>3. ASSUME NEW l \in 2..n PROVE At(l) = NetStep(At(l - 1), l)
    BY NextNet
<1>c. Len(Found(config.layers[n])) = N
    <2>1. n \in 1..n
        BY <1>1
    <2>2. config.layers[n] \in Seq(SpreadRate) /\ Len(config.layers[n]) = N
        BY <2>1 DEF Layered
    <2>3. \A k \in DOMAIN config.layers[n] : config.layers[n][k].found
        BY <2>1, <2>2 DEF Layered
    <2> QED
        BY <2>2, <2>3, FoundIs
<1> HIDE DEF At, n
<1>4. Netting(g)
    <2>1. \A l \in 1..n : At(l) = IF l = 1 THEN Found(config.layers[1]) ELSE NetStep(g[l-1], l)
        <3> SUFFICES ASSUME NEW l \in 1..n, l # 1 PROVE At(l) = NetStep(g[l-1], l)
            BY <1>2
        <3>1. l \in 2..n /\ l - 1 \in 1..n
            BY <1>1
        <3>2. g[l-1] = At(l - 1)
            BY <3>1
        <3> QED
            BY <1>3, <3>1, <3>2
    <2>2. g = [l \in 1..n |-> IF l = 1 THEN Found(config.layers[1]) ELSE NetStep(g[l-1], l)]
        BY ONLY <2>1
    <2> HIDE DEF g
    <2> QED
        BY <2>2 DEF Netting, n
<1> PICK f : f = CHOOSE h : Netting(h)
    OBVIOUS
<1>5. Netting(f)
    BY <1>4
<1>6. \A l \in 1..n : f[l] = IF l = 1 THEN Found(config.layers[1]) ELSE NetStep(f[l-1], l)
    <2>1. f = [l \in 1..n |-> IF l = 1 THEN Found(config.layers[1]) ELSE NetStep(f[l-1], l)]
        BY <1>5 DEF Netting, n
    <2> QED
        BY ONLY <2>1
<1> DEFINE S == {l \in 0..n : l # 0 => f[l] = At(l)}
<1>7. 0 \in S
    BY <1>1
<1>8. ASSUME NEW l \in 1..n, l - 1 \in S PROVE l \in S
    <2>1. CASE l = 1
        BY <1>1, <1>2, <1>6, <2>1
    <2>2. CASE l # 1
        <3>1. l \in 2..n /\ l - 1 # 0 /\ l \in 0..n
            BY <1>1, <2>2
        <3>2. f[l-1] = At(l - 1)
            BY <1>8, <3>1
        <3>3. f[l] = NetStep(f[l-1], l)
            BY <1>6, <2>2
        <3> QED
            BY <1>3, <3>1, <3>2, <3>3
    <2> QED
        BY <2>1, <2>2
<1> HIDE DEF S
<1>9. 0..n \subseteq S
    BY <1>1, <1>7, <1>8, Upwards
<1>10. f[n] = At(n)
    BY <1>1, <1>9 DEF S
<1> QED
    BY <1>10, <1>c, NetIs DEF n, At

\* The spread of a rate on a day the layers have is their sum.
LEMMA SpreadIsSum ==
    ASSUME config \in Configs, config.builder = "spread", Orderly(config), CommonDays,
           NEW k \in DOMAIN Head(config.layers)
    PROVE  SpreadAt(Head(config.layers)[k].day) = <<"at", SpreadSum(k)>>
<1> PICK N : N = Len(config.layers[1])
    OBVIOUS
<1>1. Layered(N) /\ Head(config.layers) = config.layers[1] /\ k \in 1..N
    BY LayeredIs
<1> DEFINE d == config.layers[1][k].day
           n == Len(config.layers)
           net == [j \in 1..N |-> NetRow(n, j)]
           later == {j \in 1..N : j \in DOMAIN net => net[j].day >= d}
<1>2. \A j \in 1..N : net[j].day = config.layers[1][j].day /\ config.layers[1][j].day \in Nat
    <2> SUFFICES ASSUME NEW j \in 1..N
                 PROVE  net[j].day = config.layers[1][j].day /\ config.layers[1][j].day \in Nat
        OBVIOUS
    <2>1. 1 \in 1..Len(config.layers)
        BY <1>1 DEF Layered
    <2>2. config.layers[1][j] \in SpreadRate
        BY <1>1, <2>1 DEF Layered
    <2> QED
        BY <2>2 DEF NetRow, SpreadRate
<1>3. \A i, j \in 1..N : i < j => config.layers[1][i].day < config.layers[1][j].day
    <2>1. 1 \in 1..Len(config.layers)
        BY <1>1 DEF Layered
    <2>2. DOMAIN config.layers[1] = 1..N
        BY <1>1, <2>1 DEF Layered
    <2> QED
        BY <2>2 DEF Orderly, SpreadsAscend
<1>4. NetSpreads(config.layers) = [net |-> net, count |-> N]
    BY <1>1, NetSums
<1>5. DOMAIN net = 1..N /\ N \in Nat
    BY <1>1 DEF Layered
<1>6. net[k].spread = SpreadSum(k) /\ net[k].day = d
    <2>1. net[k] = NetRow(n, k)
        BY <1>1
    <2>2. Sums(k)[n] = SpreadSum(k)
        BY <1>1, SumsAre
    <2> QED
        BY <2>1, <2>2 DEF NetRow
<1> HIDE DEF net, n
<1>7. k \in later
    BY <1>1, <1>2, <1>6
<1>8. ASSUME NEW m \in later PROVE k <= m
    <2>1. m \in 1..N /\ net[m].day >= d
        BY <1>5
    <2>2. m < k => FALSE
        <3> SUFFICES ASSUME m < k PROVE FALSE
            OBVIOUS
        <3>1. config.layers[1][m].day < d /\ k \in 1..N
            BY <1>1, <1>3, <2>1
        <3>2. net[m].day = config.layers[1][m].day /\ config.layers[1][m].day \in Nat /\ d \in Nat
            BY <1>2, <2>1, <3>1
        <3> QED
            BY ONLY <2>1, <3>1, <3>2
    <2> QED
        BY <1>1, <2>1, <2>2
<1> HIDE DEF later
<1> PICK j : j = CHOOSE i \in later : \A m \in later : i <= m
    OBVIOUS
<1>9. j = k
    <2>1. j \in later /\ \A m \in later : j <= m
        BY <1>7, <1>8
    <2>2. j \in 1..N /\ j <= k /\ k <= j
        BY <1>7, <1>8, <2>1 DEF later
    <2> QED
        BY <1>1, <2>2
<1>10. SpreadAt(d) = <<"at", net[j].spread>>
    <2>1. later # {} /\ j \in DOMAIN net /\ net[j].day = d
        BY <1>1, <1>5, <1>6, <1>7, <1>9
    <2>2. later = {i \in 1..NetSpreads(config.layers).count :
                     i \in DOMAIN NetSpreads(config.layers).net => NetSpreads(config.layers).net[i].day >= d}
        BY <1>4 DEF later
    <2>3. NetSpreads(config.layers).net = net
        BY <1>4
    <2> HIDE DEF d
    <2> QED
        BY <2>1, <2>2, <2>3 DEF SpreadAt
<1> QED
    BY <1>1, <1>6, <1>9, <1>10

\* Each rate of a spread curve got the spread of the end of its asset.
Gives == \A i \in DOMAIN added : config.builder = "spread" /\ added[i] = SpreadAt(Assets[i].end)

LEMMA GivesStays ==
    ASSUME Gives, UNCHANGED config, \/ UNCHANGED added \/ TakeSpread(Assets[up])
    PROVE  Gives'
<1>1. Assets' = Assets /\ \A d : SpreadAt(d)' = SpreadAt(d)
    BY DEF Assets, SpreadAt
<1>2. CASE UNCHANGED added
    BY <1>1, <1>2 DEF Gives
<1>3. CASE TakeSpread(Assets[up]) /\ config.builder = "spread"
    <2>1. added' = [i \in DOMAIN added \cup {up} |-> IF i = up THEN SpreadAt(Assets[up].end) ELSE added[i]]
        BY <1>3 DEF TakeSpread
    <2>2. \A i \in DOMAIN added' :
            added'[i] = SpreadAt(Assets[i].end)
        BY <2>1 DEF Gives
    <2> QED
        BY <1>1, <1>3, <2>2 DEF Gives
<1>4. CASE TakeSpread(Assets[up]) /\ config.builder # "spread"
    BY <1>1, <1>4 DEF TakeSpread, Gives
<1> QED
    BY <1>2, <1>3, <1>4

LEMMA AddedRight ==
    ASSUME config \in Configs, Orderly(config), Gives
    PROVE  SpreadsAdd
<1> SUFFICES ASSUME NEW i \in DOMAIN added, CommonDays, NEW k \in DOMAIN Head(config.layers),
                    Head(config.layers)[k].day = Assets[i].end
             PROVE  added[i] = <<"at", SpreadSum(k)>>
    BY DEF SpreadsAdd
<1>1. config.builder = "spread" /\ added[i] = SpreadAt(Assets[i].end)
    BY DEF Gives
<1> QED
    BY <1>1, SpreadIsSum
-----------------------------------------------------------------------------
\* A par rate that a bootstrap implies lies between the two it is made of; as long as the
\* rates come in the order of their ends, no later instrument changes a discount factor an
\* earlier one was stripped with, and what goes on from the rate before goes on from what
\* that rate gave, unless it has no asset; the knots of the par rate splines ascend and have the
\* ends of the swaps; and the spreads of common days add up: from any list of rates, if
\* the swaps of a spline meet and a spread curve's rates and spreads are in order.
THEOREM StripKeepsPrices ==
    ASSUME \A c \in Configs : Orderly(c)
    PROVE  StripSpec => []StripsRight
<1>1. StripInit => KnotsRight /\ Gives
    BY DEF StripInit, KnotsRight, Gives
<1>2. StripInv /\ StripInv' /\ KnotsRight /\ Gives /\ [StripNext]_stripVars => KnotsRight' /\ Gives'
    <2> SUFFICES ASSUME StripInv, StripInv', KnotsRight, Gives, [StripNext]_stripVars
                 PROVE  KnotsRight' /\ Gives'
        OBVIOUS
    <2>1. Orderly(config)
        BY DEF StripInv, StripType
    <2>2. KnotsRight'
        BY <2>1, KnotsStay
    <2>3. UNCHANGED config /\ (UNCHANGED added \/ TakeSpread(Assets[up]))
        BY DEF StripNext, SkipRate, TakeRate, TakeSwap, PutOffSwap, RatesDone, SplineSwap,
               CubicSpline, Return, stripVars
    <2> QED
        BY <2>2, <2>3, GivesStays
<1>3. StripInv /\ KnotsRight /\ Gives => StripsRight
    <2> SUFFICES ASSUME StripInv, KnotsRight, Gives PROVE StripsRight
        OBVIOUS
    <2>1. config \in Configs /\ Orderly(config)
        BY DEF StripInv, StripType
    <2>2. SpreadsAdd
        BY <2>1, AddedRight
    <2>3. Reprices
        BY DEF StripInv, Reprices, PricesKept, InOrderSoFar, Priced, Honest, Bereft
    <2> QED
        BY <2>2, <2>3 DEF StripsRight
<1>4. StripSpec => []StripInv
    BY StripInvariance
<1> QED
    BY <1>1, <1>2, <1>3, <1>4, PTL DEF StripSpec
=============================================================================
