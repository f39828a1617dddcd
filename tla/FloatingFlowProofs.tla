------------------------- MODULE FloatingFlowProofs -------------------------
(***************************************************************************)
(* Theorems about the flows of FloatingFlow, for every set of curves,      *)
(* templates, strikes and days.                                            *)
(***************************************************************************)
EXTENDS FloatingFlow, FiniteSetTheorems, TLAPS

-----------------------------------------------------------------------------
(* Induction over the natural numbers, for a set: if m were missing, one   *)
(* more would map the members below m into those that are not 0.           *)
LEMMA SetInduction ==
  ASSUME NEW K, 0 \in K, \A n \in Nat : n \in K => n + 1 \in K
  PROVE  \A m \in Nat : m \in K
<1> SUFFICES ASSUME NEW m \in Nat, m \notin K PROVE FALSE
  OBVIOUS
<1> DEFINE A == {k \in 0..m : k \in K}
           B == A \ {0}
           next == [k \in A |-> k + 1]
<1>1. IsFiniteSet(A)
  <2>1. A \in SUBSET (0..m) /\ IsFiniteSet(0..m)
    BY FS_Interval
  <2> HIDE DEF A
  <2> QED BY <2>1, FS_Subset
<1>2. IsFiniteSet(B) /\ Cardinality(B) = Cardinality(A) - 1 /\ 0 \in A
  BY <1>1, FS_RemoveElement, 0 \in A
<1>3. next \in [A -> B]
  <2>1. ASSUME NEW k \in A PROVE k + 1 \in B
    BY k # m
  <2> QED BY <2>1
<1>4. Cardinality(A) \in Nat /\ Cardinality(B) < Cardinality(A)
  BY <1>1, <1>2, FS_CardinalityType
<1>5. PICK a, b \in A : a # b /\ next[a] = next[b]
  <2> HIDE DEF A, B, next
  <2> QED BY <1>1, <1>2, <1>3, <1>4, FS_PigeonHole
<1> QED BY <1>5

(* A set of whole numbers that has 1 and its products. *)
Closed(S) == S \subseteq Int /\ 1 \in S /\ \A a, b \in S : a * b \in S

(* The growth of x in S by factors in S is defined, and is in S.           *)
LEMMA GrownType ==
  ASSUME NEW S, Closed(S), NEW x \in S, NEW g, \A d \in DOMAIN g : g[d] \in S,
         NEW s \in Int, NEW e \in Int
  PROVE  Grown(g, x, s, e) \in S
<1> DEFINE W(d) == IF d - 1 \in DOMAIN g THEN g[d - 1] ELSE 1
           Step(f, d) == IF d = s THEN x ELSE f[d - 1] * W(d)
           P == CHOOSE f : f = [d \in s..e |-> Step(f, d)]
<1>1. \A d : W(d) \in S
  BY DEF Closed
<1>2. CASE e <= s
  BY <1>2 DEF Grown
<1>3. CASE e > s
  <2> HIDE DEF W
  <2> DEFINE Fits(m) == \E f \in [s..(s + m) -> S] : f = [d \in s..(s + m) |-> Step(f, d)]
             K == {m \in Nat : Fits(m)}
  <2>1. 0 \in K
    <3> DEFINE f == [d \in s..(s + 0) |-> x]
    <3>1. f \in [s..(s + 0) -> S] /\ f = [d \in s..(s + 0) |-> Step(f, d)]
      OBVIOUS
    <3> HIDE DEF f, Step
    <3> QED BY <3>1
  <2>2. ASSUME NEW m \in Nat, m \in K PROVE m + 1 \in K
    <3>1. PICK f \in [s..(s + m) -> S] : f = [d \in s..(s + m) |-> Step(f, d)]
      BY <2>2
    <3> DEFINE h == [d \in s..(s + (m + 1)) |-> IF d = s + m + 1 THEN f[s + m] * W(d) ELSE f[d]]
    <3>2. f[s + m] * W(s + m + 1) \in S
      <4>1. f[s + m] \in S /\ W(s + m + 1) \in S
        BY <1>1, s + m \in s..(s + m)
      <4> QED BY <4>1 DEF Closed
    <3>3. h \in [s..(s + (m + 1)) -> S]
      BY <3>2
    <3>4. ASSUME NEW d \in s..(s + (m + 1)) PROVE h[d] = Step(h, d)
      <4>1. CASE d = s + m + 1
        BY <4>1
      <4>2. CASE d # s + m + 1
        <5>1. d \in s..(s + m) /\ h[d] = f[d] /\ f[d] = Step(f, d)
          BY <4>2, <3>1
        <5>2. d # s => d - 1 \in s..(s + m) /\ h[d - 1] = f[d - 1]
          BY <5>1
        <5> QED BY <5>1, <5>2
      <4> QED BY <4>1, <4>2
    <3>5. h = [d \in s..(s + (m + 1)) |-> Step(h, d)]
      <4> HIDE DEF Step
      <4> QED BY <3>4
    <3>6. Fits(m + 1)
      <4> HIDE DEF h, Step
      <4> QED BY <3>3, <3>5
    <3> QED BY <3>6
  <2>3. e - s \in K
    <3> HIDE DEF K
    <3> QED BY <1>3, <2>1, <2>2, SetInduction
  <2>4. \E f : f = [d \in s..e |-> Step(f, d)]
    <3>1. s + (e - s) = e
      OBVIOUS
    <3> HIDE DEF Step
    <3> QED BY <2>3, <3>1
  <2>5. P = [d \in s..e |-> Step(P, d)]
    <3> HIDE DEF Step
    <3> QED BY <2>4
  <2>6. P[e] \in S
    <3> DEFINE L == {m \in Nat : s + m <= e => P[s + m] \in S}
    <3> HIDE DEF P
    <3>1. 0 \in L
      BY <2>5, <1>3
    <3>2. ASSUME NEW m \in Nat, m \in L PROVE m + 1 \in L
      <4> SUFFICES ASSUME s + (m + 1) <= e PROVE P[s + (m + 1)] \in S
        OBVIOUS
      <4>1. P[s + m] \in S
        BY <3>2
      <4>2. P[s + (m + 1)] = P[s + m] * W(s + (m + 1))
        <5>1. s + (m + 1) \in s..e /\ s + (m + 1) # s /\ (s + (m + 1)) - 1 = s + m
          OBVIOUS
        <5> QED BY <2>5, <5>1
      <4> QED BY <4>1, <4>2, <1>1 DEF Closed
    <3>3. e - s \in L
      <4> HIDE DEF L
      <4> QED BY <1>3, <3>1, <3>2, SetInduction
    <3> QED BY <3>3, <1>3
  <2>7. Grown(g, x, s, e) = P[e]
    BY <1>3 DEF Grown, P, Step, W
  <2> QED BY <2>6, <2>7
<1> QED BY <1>2, <1>3

-----------------------------------------------------------------------------
Growths == Nat \ {0}

FlowType ==
  [type : Types, kind : {"ir", "fx", "fixed"},
   status : SUBSET {"rate", "cap", "floor", "spread", "fixing_spread"},
   pay : {"pay", "receive"}, payDate : Int, rate : Int, notional : Int, payment : Int,
   hasRate : BOOLEAN, fixing : Nat, start : Int, end : Int, accStart : Int, accEnd : Int,
   observed : Nat, mult : Int, spread : Int, fixSpread : Int, cap : Int, floor : Int]

(* No rate has been observed later than its fixing date, and no period is  *)
(* empty, which is what makes every rate a whole number.                   *)
Flows ==
  {f \in FlowType : f.observed <= f.fixing /\ f.start < f.end /\ f.accStart < f.accEnd}

TypeInv ==
  /\ today \in Nat \ {0} /\ edits \in Nat
  /\ curve \in [Days -> Growths] /\ realized \in [Days -> Growths]
  /\ list \in Seq(Flows)

-----------------------------------------------------------------------------
LEMMA ClosedSets == Closed(Int) /\ Closed(Growths)
<1>1. \A a, b \in Growths : a * b \in Growths
  <2> SUFFICES ASSUME NEW a \in Int, NEW b \in Int, a > 0, b > 0 PROVE a * b > 0
    BY DEF Growths
  <2> QED OBVIOUS
<1> QED BY <1>1 DEF Closed, Growths

LEMMA ProductType ==
  ASSUME NEW g, DOMAIN g \subseteq Int, \A d \in DOMAIN g : g[d] \in Growths,
         NEW s \in Int, NEW e \in Int
  PROVE  Product(g, s, e) \in Growths
<1>1. 1 \in Growths
  BY DEF Growths
<1> QED BY <1>1, ClosedSets, GrownType DEF Product

LEMMA GrowthType ==
  ASSUME TypeInv, NEW g \in [Days -> Growths], NEW s \in Int, NEW e \in Int
  PROVE  Growth(g, s, e) \in Growths
<1>1. Later(s) \in Int
  BY DEF Later, TypeInv
<1>2. DOMAIN g \subseteq Int /\ \A d \in DOMAIN g : g[d] \in Growths
  BY DEF Days
<1> QED BY <1>1, <1>2, ProductType DEF Growth

LEMMA ForwardType ==
  ASSUME TypeInv, NEW kind, NEW s \in Int, NEW e \in Int, s < e
  PROVE  Forward(kind, s, e) \in Int
<1> DEFINE G == Growth(curve, s, e)
           F == Growth(Foreign, s, e)
<1>1. G \in Growths /\ F \in Growths
  BY GrowthType, FlowConstants DEF TypeInv, Growths
<1>2. Spot \in Int /\ Year \in Nat \ {0}
  BY FlowConstants
<1> HIDE DEF G, F
<1>3. (Spot * F) \div G \in Int
  <2>1. Spot * F \in Int /\ G \in Int /\ G > 0
    BY <1>1, <1>2 DEF Growths
  <2> QED BY <2>1
<1>4. ((G - 1) * Year) \div (e - s) \in Int
  <2>1. (G - 1) * Year \in Int /\ e - s \in Int /\ e - s > 0
    BY <1>1, <1>2 DEF Growths
  <2> QED BY <2>1
<1> QED BY <1>2, <1>3, <1>4 DEF Forward, G, F

(* A growth gained over a period that is not empty is a rate.              *)
LEMMA RateType ==
  ASSUME NEW h \in Int, NEW n \in Int, n > 0
  PROVE  ((h - 1) * Year) \div n \in Int
<1>1. (h - 1) * Year \in Int
  BY FlowConstants
<1> QED BY <1>1

LEMMA AheadType ==
  ASSUME TypeInv, NEW f \in Flows, NEW h \in Int
  PROVE  Ahead(f, h) \in Int
<1> DEFINE shift == IF h = 0 /\ f.start < today THEN today - f.start ELSE 0
<1>1. f.start \in Int /\ f.end \in Int /\ f.start < f.end /\ today \in Int
  BY DEF Flows, FlowType, TypeInv
<1>2. shift \in Int
  BY <1>1
<1> HIDE DEF shift
<1> DEFINE s == f.start + shift
           e == f.end + shift
<1>3. s \in Int /\ e \in Int /\ s < e /\ e - s \in Int /\ e - s > 0
  BY <1>1, <1>2
<1> HIDE DEF s, e
<1>4. Forward(f.kind, s, e) \in Int
  BY <1>3, ForwardType
<1>5. ((h - 1) * Year) \div (e - s) \in Int
  BY <1>3, RateType
<1>6. Ahead(f, h) =
        Forward(f.kind, s, e) + (IF h = 0 THEN 0 ELSE ((h - 1) * Year) \div (e - s))
  BY DEF Ahead, shift, s, e
<1> QED BY <1>4, <1>5, <1>6

LEMMA OvernightType ==
  ASSUME TypeInv, NEW f \in Flows, NEW h \in Int
  PROVE  Overnight(f, h) \in Int
<1> DEFINE from == Later(f.accStart)
           Daily == [d \in from..(f.accEnd - 1) |->
                       Growth(curve, d, d + (f.end - f.start)) + f.fixSpread \div Year]
           x == IF h # 0 THEN h ELSE 1
<1>1. /\ f.start \in Int /\ f.end \in Int /\ f.accStart \in Int /\ f.accEnd \in Int
      /\ f.accStart < f.accEnd /\ f.fixSpread \in Int /\ today \in Int
  BY DEF Flows, FlowType, TypeInv
<1>2. from \in Int /\ x \in Int
  BY <1>1 DEF Later
<1>3. ASSUME NEW d \in Int PROVE Growth(curve, d, d + (f.end - f.start)) + f.fixSpread \div Year \in Int
  <2>1. Growth(curve, d, d + (f.end - f.start)) \in Int
    <3>1. d + (f.end - f.start) \in Int /\ curve \in [Days -> Growths]
      BY <1>1 DEF TypeInv
    <3> QED BY <3>1, GrowthType DEF Growths
  <2>2. f.fixSpread \div Year \in Int
    BY <1>1, FlowConstants
  <2> QED BY <2>1, <2>2
<1>4. \A d \in DOMAIN Daily : Daily[d] \in Int
  BY <1>2, <1>3
<1> HIDE DEF Daily, from, x
<1>5. Grown(Daily, x, from, f.accEnd) \in Int
  BY <1>1, <1>2, <1>4, ClosedSets, GrownType
<1>6. Compounded(f, h) = Grown(Daily, x, from, f.accEnd)
  BY DEF Compounded, Daily, from, x
<1> QED BY <1>1, <1>5, <1>6, RateType DEF Overnight

LEMMA MissedType ==
  ASSUME TypeInv, NEW f \in Flows, NEW h \in Int, f.observed < f.fixing, f.fixing < today
  PROVE  Missed(f, h) \in Int
<1> DEFINE r == Forward(f.kind, today + (f.start - f.fixing), today + (f.end - f.fixing))
<1>1. /\ f.start \in Int /\ f.end \in Int /\ f.start < f.end /\ today \in Int
      /\ f.fixing \in Int /\ f.observed \in Int /\ f.rate \in Int
  BY DEF Flows, FlowType, TypeInv
<1>2. r \in Int
  <2>1. /\ today + (f.start - f.fixing) \in Int /\ today + (f.end - f.fixing) \in Int
        /\ today + (f.start - f.fixing) < today + (f.end - f.fixing)
    BY <1>1
  <2> QED BY <2>1, ForwardType
<1> HIDE DEF r
<1>3. Linear(f.fixing, f.observed, f.rate, today, r) \in Int
  <2>1. f.rate * (today - f.fixing) + r * (f.fixing - f.observed) \in Int
    BY <1>1, <1>2
  <2>2. today - f.observed \in Int /\ today - f.observed > 0
    BY <1>1
  <2> QED BY <1>1, <2>1, <2>2 DEF Linear
<1> QED BY <1>2, <1>3 DEF Missed, r

-----------------------------------------------------------------------------
(* Every operation on one flow keeps it sound.                             *)
LEMMA SetFromCurveType ==
  ASSUME TypeInv, NEW f \in Flows, NEW h \in Int, NEW reset
  PROVE  SetFromCurve(f, h, reset) \in Flows
<1>1. f \in FlowType /\ f.observed \in Nat /\ f.fixing \in Nat /\ today \in Nat
  BY DEF Flows, FlowType, TypeInv
<1>2. CASE f.type \notin RateSetTypes \/ "rate" \in f.status
  BY <1>2 DEF SetFromCurve
<1>3. CASE f.type \in RateSetTypes /\ "rate" \notin f.status /\ f.fixing >= today
  <2> DEFINE r == IF reset = 1 /\ f.start # f.end THEN Overnight(f, h) ELSE Ahead(f, h)
             st == f.status \cup (IF f.fixing = today THEN {"rate"} ELSE {})
  <2>1. r \in Int
    BY AheadType, OvernightType
  <2>2. st \in SUBSET {"rate", "cap", "floor", "spread", "fixing_spread"}
    BY <1>1 DEF FlowType
  <2>3. SetFromCurve(f, h, reset) = [f EXCEPT !.rate = r, !.observed = today, !.status = st]
    BY <1>3 DEF SetFromCurve
  <2> HIDE DEF r, st
  <2> QED BY <1>1, <1>3, <2>1, <2>2, <2>3, ZenonT(60) DEF Flows, FlowType
<1>4. CASE f.type \in RateSetTypes /\ "rate" \notin f.status /\ f.fixing < today
  <2>1. CASE f.observed < f.fixing
    <3> DEFINE r == Missed(f, h)
               st == f.status \cup {"rate"}
    <3>1. r \in Int
      BY <1>4, <2>1, MissedType
    <3>2. st \in SUBSET {"rate", "cap", "floor", "spread", "fixing_spread"}
      BY <1>1 DEF FlowType
    <3>3. SetFromCurve(f, h, reset) =
            [f EXCEPT !.rate = r, !.observed = f.fixing, !.status = st]
      BY <1>1, <1>4, <2>1 DEF SetFromCurve
    <3> HIDE DEF r, st
    <3>4. f.fixing <= f.fixing
      BY <1>1
    <3> QED BY <1>1, <3>1, <3>2, <3>3, <3>4, ZenonT(60) DEF Flows, FlowType
  <2>2. CASE ~ (f.observed < f.fixing)
    BY <1>1, <1>4, <2>2 DEF SetFromCurve
  <2> QED BY <2>1, <2>2
<1> QED BY <1>1, <1>2, <1>3, <1>4

LEMMA TypedType ==
  ASSUME NEW t \in Templates
  PROVE  Typed(t) \in Flows
<1>1. /\ t.type \in Types /\ t.kind \in {"ir", "fx", "fixed"} /\ t.pay \in {"pay", "receive"}
      /\ t.payDate \in Int /\ t.rate \in Int /\ t.notional \in Int /\ t.amount \in Int
      /\ t.mult \in Int /\ t.fixing \in Nat /\ t.start \in Int /\ t.end \in Int
      /\ t.accStart \in Int /\ t.accEnd \in Int /\ t.start < t.end /\ t.accStart < t.accEnd
  BY FlowConstants
<1>2. /\ t.notional * (t.accEnd - t.accStart) \in Int
      /\ t.notional * (t.accEnd - t.accStart) * t.rate \in Int
  BY <1>1
<1> DEFINE n == IF t.type \in {"floating", "fixed"} THEN t.notional * (t.accEnd - t.accStart) ELSE 0
           p == CASE t.type = "static" -> t.amount
                  [] t.type = "fixed" -> t.notional * (t.accEnd - t.accStart) * t.rate
                  [] OTHER -> 0
           r == IF t.type = "fixed" THEN t.rate ELSE 0
           q == t.type \in {"floating", "rate_set", "average"}
           m == IF t.type = "floating" THEN t.mult ELSE 1
<1>3. n \in Int /\ p \in Int /\ r \in Int /\ m \in Int
  BY <1>1, <1>2
<1>4. q \in BOOLEAN
  OBVIOUS
<1>5. Typed(t) =
  [type |-> t.type, kind |-> t.kind, status |-> {}, pay |-> t.pay,
   payDate |-> t.payDate, rate |-> r, notional |-> n, payment |-> p, hasRate |-> q,
   fixing |-> t.fixing, start |-> t.start, end |-> t.end,
   accStart |-> t.accStart, accEnd |-> t.accEnd, observed |-> 0,
   mult |-> m, spread |-> 0, fixSpread |-> 0, cap |-> 0, floor |-> 0]
  BY DEF Typed
<1> HIDE DEF n, p, r, q, m
<1> QED BY <1>1, <1>3, <1>4, <1>5 DEF Flows, FlowType

(* The floor: the greater of the rate and the strike.                      *)
LEMMA FlooredRight ==
  ASSUME NEW f \in FlowType, NEW k \in Int
  PROVE  Floored(f, k) = IF Plain(f) >= k THEN Plain(f) ELSE k
<1>1. f.rate \in Int /\ f.mult \in Int /\ f.spread \in Int
  BY DEF FlowType
<1> DEFINE x == f.rate * f.mult
<1>2. x \in Int
  BY <1>1
<1>3. Plain(f) = x + f.spread
  BY DEF Plain
<1>4. Floored(f, k) = k + Option(Sign(f) = 1, Sign(f) * x, Sign(f) * (k - f.spread))
  BY DEF Floored
<1> HIDE DEF x
<1>5. CASE f.mult < 0
  <2>1. Sign(f) = -1
    BY <1>5 DEF Sign
  <2>2. /\ (Sign(f) = 1) = FALSE /\ Sign(f) * x = -x
        /\ Sign(f) * (k - f.spread) = -(k - f.spread)
    BY <1>1, <1>2, <2>1
  <2>3. Floored(f, k) = k + Option(FALSE, -x, -(k - f.spread))
    BY <1>4, <2>2, Zenon
  <2> QED BY <1>1, <1>2, <1>3, <2>3 DEF Option
<1>6. CASE ~ (f.mult < 0)
  <2>1. Sign(f) = 1
    BY <1>6 DEF Sign
  <2>2. Sign(f) * x = x /\ Sign(f) * (k - f.spread) = k - f.spread
    BY <1>1, <1>2, <2>1
  <2>3. Floored(f, k) = k + Option(TRUE, x, k - f.spread)
    BY <1>4, <2>1, <2>2, Zenon
  <2> QED BY <1>1, <1>2, <1>3, <2>3 DEF Option
<1> QED BY <1>5, <1>6

(* Less the call at the cap, a rate is the cap where it exceeds it.        *)
LEMMA Parity ==
  ASSUME NEW x \in Int, NEW l \in Int, NEW c \in Int
  PROVE  /\ x - ((IF x >= c THEN x ELSE c) - c) = IF x > c THEN c ELSE x
         /\ l <= c => (IF x >= l THEN x ELSE l) - ((IF x >= c THEN x ELSE c) - c)
                        = IF (IF x < l THEN l ELSE x) > c THEN c
                          ELSE IF x < l THEN l ELSE x
         /\ (IF x >= l THEN x ELSE l) = IF x < l THEN l ELSE x
OBVIOUS

LEMMA EffectiveRight ==
  ASSUME NEW f \in FlowType, f.hasRate,
         {"cap", "floor"} \subseteq f.status => f.floor <= f.cap
  PROVE  Effective(f, TRUE) = Clamped(f)
<1>1. f.rate \in Int /\ f.mult \in Int /\ f.spread \in Int /\ f.cap \in Int /\ f.floor \in Int
  BY DEF FlowType
<1>2. Plain(f) \in Int /\ Plain(f) = f.rate * f.mult + f.spread
  BY <1>1 DEF Plain
<1>3. /\ Floored(f, f.cap) = IF Plain(f) >= f.cap THEN Plain(f) ELSE f.cap
      /\ Floored(f, f.floor) = IF Plain(f) >= f.floor THEN Plain(f) ELSE f.floor
  BY <1>1, FlooredRight
<1>4. Effective(f, TRUE) =
        LET over == IF "floor" \in f.status THEN Floored(f, f.floor) ELSE Plain(f)
        IN  IF "cap" \in f.status THEN over - (Floored(f, f.cap) - f.cap) ELSE over
  BY <1>2 DEF Effective
<1>5. Clamped(f) =
        LET r == IF "floor" \in f.status /\ Plain(f) < f.floor THEN f.floor ELSE Plain(f)
        IN  IF "cap" \in f.status /\ r > f.cap THEN f.cap ELSE r
  BY DEF Clamped, Raised
<1> DEFINE x == Plain(f)
           a == Floored(f, f.floor)
           b == Floored(f, f.cap)
<1>6. /\ x - (b - f.cap) = IF x > f.cap THEN f.cap ELSE x
      /\ f.floor <= f.cap =>
            a - (b - f.cap) = IF (IF x < f.floor THEN f.floor ELSE x) > f.cap THEN f.cap
                              ELSE IF x < f.floor THEN f.floor ELSE x
      /\ a = IF x < f.floor THEN f.floor ELSE x
  BY <1>1, <1>2, <1>3, Parity
<1> HIDE DEF x, a, b
<1>7. Effective(f, TRUE) =
        LET over == IF "floor" \in f.status THEN a ELSE x
        IN  IF "cap" \in f.status THEN over - (b - f.cap) ELSE over
  BY <1>4 DEF x, a, b
<1>8. Clamped(f) =
        LET r == IF "floor" \in f.status /\ x < f.floor THEN f.floor ELSE x
        IN  IF "cap" \in f.status /\ r > f.cap THEN f.cap ELSE r
  BY <1>5 DEF x
<1> DEFINE r == IF x < f.floor THEN f.floor ELSE x
<1>9. CASE "floor" \notin f.status
  <2>1. Effective(f, TRUE) = IF "cap" \in f.status THEN x - (b - f.cap) ELSE x
    BY <1>7, <1>9
  <2>2. Clamped(f) = IF "cap" \in f.status /\ x > f.cap THEN f.cap ELSE x
    BY <1>8, <1>9
  <2>3. CASE "cap" \in f.status
    BY <1>6, <2>1, <2>2, <2>3
  <2>4. CASE "cap" \notin f.status
    BY <2>1, <2>2, <2>4
  <2> QED BY <2>3, <2>4
<1>10. CASE "floor" \in f.status
  <2>1. Effective(f, TRUE) = IF "cap" \in f.status THEN a - (b - f.cap) ELSE a
    BY <1>7, <1>10
  <2>2. Clamped(f) = IF "cap" \in f.status /\ r > f.cap THEN f.cap ELSE r
    BY <1>8, <1>10
  <2>3. CASE "cap" \in f.status
    <3>1. f.floor <= f.cap
      BY <1>10, <2>3
    <3>2. a - (b - f.cap) = IF r > f.cap THEN f.cap ELSE r
      BY <1>6, <3>1
    <3> QED BY <2>1, <2>2, <2>3, <3>2
  <2>4. CASE "cap" \notin f.status
    <3>1. Effective(f, TRUE) = a /\ a = r
      BY <1>6, <2>1, <2>4
    <3>2. Clamped(f) = r
      BY <2>2, <2>4
    <3> QED BY <3>1, <3>2
  <2> QED BY <2>3, <2>4
<1> QED BY <1>9, <1>10

LEMMA EffectiveType ==
  ASSUME NEW f \in FlowType, NEW market
  PROVE  Effective(f, market) \in Int
<1>1. f.rate \in Int /\ f.mult \in Int /\ f.spread \in Int /\ f.cap \in Int /\ f.floor \in Int
  BY DEF FlowType
<1>2. Plain(f) \in Int /\ Plain(f) = f.rate * f.mult + f.spread
  BY <1>1 DEF Plain
<1>3. Floored(f, f.cap) \in Int /\ Floored(f, f.floor) \in Int
  BY <1>1, <1>2, FlooredRight
<1> QED BY <1>1, <1>2, <1>3 DEF Effective

LEMMA PaidType ==
  ASSUME NEW f \in Flows, NEW market
  PROVE  Paid(f, market) \in Flows
<1>1. f \in FlowType /\ f.notional \in Int
  BY DEF Flows, FlowType
<1>2. f.notional * Effective(f, market) \in Int
  BY <1>1, EffectiveType
<1> QED BY <1>1, <1>2 DEF Paid, Flows, FlowType

-----------------------------------------------------------------------------
(* The list after a change of one of its flows.                            *)
LEMMA AlterType ==
  ASSUME TypeInv, NEW i, NEW g \in Flows, Alter(i, g)
  PROVE  list' \in Seq(Flows)
BY DEF Alter, Positions, TypeInv

LEMMA FlowAt ==
  ASSUME TypeInv, NEW i \in Positions
  PROVE  list[i] \in Flows
BY DEF TypeInv, Positions

LEMMA HistoryType ==
  ASSUME TypeInv, NEW f \in Flows, NEW h \in Histories(f)
  PROVE  h \in Int
<1>1. f.start \in Int /\ today \in Int
  BY DEF Flows, FlowType, TypeInv
<1>2. DOMAIN realized \subseteq Int /\ \A d \in DOMAIN realized : realized[d] \in Growths
  BY DEF TypeInv, Days
<1>3. Product(realized, f.start, today) \in Growths
  BY <1>1, <1>2, ProductType
<1> QED BY <1>3 DEF Histories, Growths

LEMMA CloneFromType ==
  ASSUME TypeInv, NEW d \in Days, CloneFrom(d)
  PROVE  list' \in Seq(Flows)
<1>1. PICK kept \in [1..Cardinality(PaidFrom(d)) -> PaidFrom(d)] :
        list' = [a \in DOMAIN kept |-> list[kept[a]]]
  BY DEF CloneFrom
<1>2. Cardinality(PaidFrom(d)) \in Nat
  <2>1. IsFiniteSet(Positions)
    BY FS_Interval DEF Positions, TypeInv
  <2>2. PaidFrom(d) \in SUBSET Positions
    BY DEF PaidFrom
  <2> QED BY <2>1, <2>2, FS_Subset, FS_CardinalityType
<1>3. \A a \in 1..Cardinality(PaidFrom(d)) : list[kept[a]] \in Flows
  BY <1>1, FlowAt DEF PaidFrom
<1> QED BY <1>1, <1>2, <1>3

LEMMA StepType ==
  ASSUME TypeInv, Next
  PROVE  TypeInv'
<1>1. ASSUME NEW t \in Templates, Add(t) PROVE TypeInv'
  BY <1>1, TypedType DEF Add, Quiet, TypeInv
<1>2. ASSUME NEW i \in Positions, NEW t \in Templates, Retype(i, t) PROVE TypeInv'
  <2>1. list' \in Seq(Flows)
    BY <1>2, TypedType, AlterType DEF Retype
  <2> QED BY <1>2, <2>1 DEF Retype, Edit, Quiet, TypeInv
<1>3. ASSUME NEW i \in Positions, NEW h \in Histories(list[i]), NEW reset \in {0, 1},
             Value(i, h, reset)
      PROVE  TypeInv'
  <2>1. list[i] \in Flows
    BY <1>3, FlowAt DEF Value
  <2>2. SetFromCurve(list[i], h, reset) \in Flows
    BY <2>1, HistoryType, SetFromCurveType
  <2>3. list' \in Seq(Flows)
    BY <1>3, <2>2, AlterType DEF Value
  <2> QED BY <1>3, <2>3 DEF Value, Quiet, TypeInv
<1>4. ASSUME NEW i \in Positions, NEW r \in HandRates, SetByHand(i, r) PROVE TypeInv'
  <2>1. list[i] \in Flows
    BY <1>4, FlowAt DEF SetByHand
  <2>2. [list[i] EXCEPT !.rate = r, !.status = @ \cup {"rate"}] \in Flows
    BY <2>1, FlowConstants DEF Flows, FlowType
  <2>3. list' \in Seq(Flows)
    BY <1>4, <2>2, AlterType DEF SetByHand
  <2> QED BY <1>4, <2>3 DEF SetByHand, Edit, Quiet, TypeInv
<1>5. ASSUME NEW i \in Positions, NEW which \in {"cap", "floor"}, NEW k \in Strikes,
             SetStrike(i, which, k)
      PROVE  TypeInv'
  <2>1. list[i] \in Flows
    BY <1>5, FlowAt DEF SetStrike
  <2>2. /\ [list[i] EXCEPT !.cap = k, !.status = @ \cup {which}] \in Flows
        /\ [list[i] EXCEPT !.floor = k, !.status = @ \cup {which}] \in Flows
    BY <2>1, FlowConstants DEF Flows, FlowType
  <2>3. list' \in Seq(Flows)
    BY <1>5, <2>2, AlterType DEF SetStrike
  <2> QED BY <1>5, <2>3 DEF SetStrike, Edit, Quiet, TypeInv
<1>6. ASSUME NEW i \in Positions, NEW which \in {"spread", "fixing_spread"},
             NEW x \in Spreads, SetSpread(i, which, x)
      PROVE  TypeInv'
  <2>1. list[i] \in Flows
    BY <1>6, FlowAt DEF SetSpread
  <2>2. x \in Int /\ x * Year \in Int
    BY FlowConstants
  <2>3. /\ [list[i] EXCEPT !.spread = x, !.status = @ \cup {which}] \in Flows
        /\ [list[i] EXCEPT !.fixSpread = x * Year, !.status = @ \cup {which}] \in Flows
    BY <2>1, <2>2 DEF Flows, FlowType
  <2>4. list' \in Seq(Flows)
    BY <1>6, <2>3, AlterType DEF SetSpread
  <2> QED BY <1>6, <2>4 DEF SetSpread, Edit, Quiet, TypeInv
<1>7. ASSUME NEW i \in Positions, NEW market \in BOOLEAN, SetPayment(i, market)
      PROVE  TypeInv'
  <2>1. list[i] \in Flows
    BY <1>7, FlowAt DEF SetPayment
  <2>2. list' \in Seq(Flows)
    BY <1>7, <2>1, PaidType, AlterType DEF SetPayment
  <2> QED BY <1>7, <2>2 DEF SetPayment, Quiet, TypeInv
<1>8. ASSUME Revert PROVE TypeInv'
  <2>1. \A i \in Positions : [list[i] EXCEPT !.status = @ \ {"rate"}] \in Flows
    BY FlowAt DEF Flows, FlowType
  <2>2. list' \in Seq(Flows)
    <3>1. list' = [i \in Positions |-> [list[i] EXCEPT !.status = @ \ {"rate"}]]
      BY <1>8 DEF Revert
    <3>2. Len(list) \in Nat /\ Positions = 1..Len(list)
      BY DEF Positions, TypeInv
    <3> QED BY <2>1, <3>1, <3>2
  <2> QED BY <1>8, <2>2 DEF Revert, Edit, Quiet, TypeInv
<1>9. ASSUME InvertPayReceive PROVE TypeInv'
  <2>1. \A i \in Positions :
          [list[i] EXCEPT !.pay = IF @ = "pay" THEN "receive" ELSE "pay"] \in Flows
    BY FlowAt DEF Flows, FlowType
  <2>2. list' \in Seq(Flows)
    BY <1>9, <2>1 DEF InvertPayReceive, Positions, TypeInv
  <2> QED BY <1>9, <2>2 DEF InvertPayReceive, Edit, Quiet, TypeInv
<1>10. ASSUME NEW d \in Days, CloneFrom(d) PROVE TypeInv'
  <2>1. list' \in Seq(Flows)
    BY <1>10, CloneFromType
  <2>2. Edit /\ Quiet
    BY <1>10 DEF CloneFrom
  <2> QED BY <2>1, <2>2 DEF Edit, Quiet, TypeInv
<1>11. ASSUME NEW c \in Curves, NextDay(c) PROVE TypeInv'
  <2>1. realized' \in [Days -> Growths]
    <3>1. today \in Days
      BY <1>11, FlowConstants DEF NextDay, TypeInv, Days
    <3> QED BY <1>11, <3>1 DEF NextDay, TypeInv
  <2> QED BY <1>11, <2>1, FlowConstants DEF NextDay, TypeInv, Growths
<1> QED BY <1>1, <1>2, <1>3, <1>4, <1>5, <1>6, <1>7, <1>8, <1>9, <1>10, <1>11, Zenon DEF Next

LEMMA InitType ==
  ASSUME Init
  PROVE  TypeInv
BY FlowConstants DEF Init, TypeInv, Growths

(***************************************************************************)
(* Every number of a flow stays a whole one, and no rate is observed later *)
(* than its fixing date (rq_floating_flow_set_floating_rate_from_curve_and_*)
(* historic), whatever the curves, the templates and the order of calls.   *)
(***************************************************************************)
THEOREM Sound == Spec => []TypeInv
<1>1. TypeInv /\ [Next]_vars => TypeInv'
  <2> SUFFICES ASSUME TypeInv, [Next]_vars PROVE TypeInv'
    OBVIOUS
  <2>1. CASE Next
    BY <2>1, StepType
  <2>2. CASE UNCHANGED vars
    BY <2>2 DEF TypeInv, vars
  <2> QED BY <2>1, <2>2
<1> QED BY <1>1, InitType, PTL DEF Spec

(***************************************************************************)
(* Valued with the market at hand, a capped or floored rate is the plain   *)
(* rate clamped to the strikes (rq_floating_flow_get_effective_rate,       *)
(* rq_floating_flow_price_floor).                                          *)
(***************************************************************************)
THEOREM CollaredTheorem == Spec => []Collared
<1>1. TypeInv => Collared
  <2> SUFFICES ASSUME TypeInv, NEW i \in Positions, list[i].hasRate,
                      {"cap", "floor"} \subseteq list[i].status =>
                        list[i].floor <= list[i].cap
               PROVE  Effective(list[i], TRUE) = Clamped(list[i])
    BY DEF Collared
  <2> QED BY FlowAt, EffectiveRight DEF Flows
<1> QED BY <1>1, Sound, PTL

(***************************************************************************)
(* A rate is settled by the first valuation on or after its fixing date    *)
(* and no later valuation changes it (rq_floating_flow_set_floating_rate_  *)
(* from_curve_and_historic, rq_floating_flow_list_revert).                 *)
(***************************************************************************)
THEOREM FixedOnceTheorem == Spec => FixedOnce
<1>1. ASSUME TypeInv, [Next]_vars, NEW i \in Positions, NEW h \in Histories(list[i]),
             NEW reset \in {0, 1}, Value(i, h, reset), list[i].type \in RateSetTypes
      PROVE  /\ today >= list[i].fixing => Settled(list'[i])
             /\ today > list[i].fixing /\ Settled(list[i]) => list'[i].rate = list[i].rate
  <2> DEFINE f == list[i]
  <2>1. /\ f \in FlowType /\ f.observed \in Nat /\ f.fixing \in Nat
        /\ f.observed <= f.fixing /\ today \in Nat
    BY <1>1, FlowAt DEF Flows, FlowType, TypeInv
  <2>2. list'[i] = SetFromCurve(f, h, reset)
    BY <1>1 DEF Value, Alter, Positions, TypeInv
  <2> HIDE DEF f
  <2>3. CASE "rate" \in f.status
    BY <1>1, <2>2, <2>3 DEF SetFromCurve, Settled, f
  <2>4. CASE "rate" \notin f.status /\ today = f.fixing
    <3>1. SetFromCurve(f, h, reset) =
            [f EXCEPT !.rate = IF reset = 1 /\ f.start # f.end THEN Overnight(f, h)
                               ELSE Ahead(f, h),
                      !.observed = today,
                      !.status = @ \cup (IF f.fixing = today THEN {"rate"} ELSE {})]
      BY <1>1, <2>1, <2>4 DEF SetFromCurve, f
    <3>2. SetFromCurve(f, h, reset).observed = f.fixing
          /\ SetFromCurve(f, h, reset).fixing = f.fixing
      BY <2>1, <2>4, <3>1 DEF FlowType
    <3> QED BY <2>1, <2>2, <2>4, <3>2 DEF Settled, f
  <2>5. CASE "rate" \notin f.status /\ today > f.fixing /\ f.observed < f.fixing
    <3>1. SetFromCurve(f, h, reset) =
            [f EXCEPT !.rate = Missed(f, h), !.observed = f.fixing,
                      !.status = @ \cup {"rate"}]
      BY <1>1, <2>1, <2>5 DEF SetFromCurve, f
    <3>2. SetFromCurve(f, h, reset).observed = f.fixing
          /\ SetFromCurve(f, h, reset).fixing = f.fixing
      BY <2>1, <3>1 DEF FlowType
    <3> QED BY <2>1, <2>2, <2>5, <3>2 DEF Settled, f
  <2>6. CASE "rate" \notin f.status /\ today > f.fixing /\ f.observed = f.fixing
    BY <2>1, <2>2, <2>6 DEF SetFromCurve, Settled, f
  <2>7. CASE today < f.fixing
    BY <2>1, <2>7 DEF f
  <2> QED BY <2>1, <2>3, <2>4, <2>5, <2>6, <2>7
<1>2. TypeInv /\ [Next]_vars =>
        [\A i \in Positions : \A h \in Histories(list[i]), reset \in {0, 1} :
           LET f == list[i] IN
           Value(i, h, reset) /\ f.type \in RateSetTypes =>
             /\ today >= f.fixing => Settled(list'[i])
             /\ today > f.fixing /\ Settled(f) => list'[i].rate = f.rate]_vars
  BY <1>1
<1> QED BY <1>2, Sound, PTL DEF Spec, FixedOnce
=============================================================================
