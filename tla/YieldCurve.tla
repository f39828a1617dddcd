----------------------------- MODULE YieldCurve -----------------------------
(***************************************************************************)
(* Yield curves (rq_yield_curve.c): tables of discount factors, composite  *)
(* curves that answer from a base and a spread curve, factors that shift   *)
(* the rates of a curve, and the cache of the first days, which is turned  *)
(* on when a curve has been built and is never cleared.                    *)
(*                                                                         *)
(* A discount factor is told by its zero rate, which is what the curves    *)
(* interpolate, shift and add: all curves here interpolate linearly on     *)
(* zero rates and share zero method, day count and start date, so that     *)
(* turning a factor into a rate and back changes nothing.  Rates are whole *)
(* numbers of a unit small enough (Unit) for every quotient to be exact.   *)
(***************************************************************************)
EXTENDS DiscountTable, FiniteSets

CONSTANTS Curves,      \* the curves a client has, numbered
          EntryDays,   \* the days entries are set at
          Days,        \* the days curves are asked for
          Rates,       \* the zero rates of the entries
          Shifts,      \* additive factors, 0 among them
          Scales,      \* multiplicative factors, 0 and 1 mean none
          CacheSize,   \* RQ_FACTOR_CACHE_SIZE
          MaxFactors,  \* the entries a new table has room for
          None,        \* no rate, no curve: an empty slot of the cache
          NaN,         \* the rate of a factor over no time
          MaxSteps     \* bound of the model: how often curves are changed

ASSUME YieldConstants ==
  /\ Curves \subseteq Nat /\ EntryDays \subseteq Nat /\ Days \subseteq Nat
  /\ {Rates, Shifts, Scales} \subseteq SUBSET Int
  /\ 0 \in Shifts /\ 1 \in Scales
  /\ CacheSize \in Nat /\ MaxFactors \in Nat \ {0} /\ MaxSteps \in Nat

VARIABLES curve,    \* each curve's record, or Null where there is none
          told,     \* history: the rate last set at each day and not removed
          built,    \* history: the curves whose cache was turned on
          stale,    \* history: those of them that were altered after it
          steps     \* how many changes there have been

vars == <<curve, told, built, stale, steps>>

ASSUME NoRate == {None, NaN} \cap Int = {} /\ None # NaN

Null == [alive |-> FALSE]

Starts == {"last_zero", "linear_zero", "linear_zero_zero"}
Ends == {"last_zero", "linear_zero"}
Alive == {c \in Curves : curve[c].alive}

(* Slip: the cache is on from the start. *)
NewCurve_Cached(start, end) ==
  [alive |-> TRUE, tab |-> << >>, max |-> MaxFactors, composite |-> FALSE,
   base |-> None, spread |-> None, add |-> 0, mult |-> 0,
   start |-> start, end |-> end,
   cacheSize |-> CacheSize, cache |-> [d \in 0..CacheSize - 1 |-> None]]

(* rq_yield_curve_alloc and rq_yield_curve_init: the cache is disabled.    *)
NewCurve(start, end) ==
  [alive |-> TRUE, tab |-> << >>, max |-> MaxFactors, composite |-> FALSE,
   base |-> None, spread |-> None, add |-> 0, mult |-> 0,
   start |-> start, end |-> end,
   cacheSize |-> 0, cache |-> [d \in 0..CacheSize - 1 |-> None]]

-----------------------------------------------------------------------------
(* rq_interpolate_linear. *)
Linear(x, x1, y1, x2, y2) ==
  IF x1 = x2 THEN y1 ELSE y1 + ((y2 - y1) * (x - x1)) \div (x2 - x1)

(* rq_rate_discount_to_zero over no time at all is 0.0 / 0.0. *)
ZeroOf(e) == IF e.day = 0 THEN NaN ELSE e.value

(* The line through two entries, unless it starts in a rate that is none.  *)
Along(d, e1, e2) ==
  IF NaN \in {ZeroOf(e1), ZeroOf(e2)} THEN NaN
  ELSE Linear(d, e1.day, ZeroOf(e1), e2.day, ZeroOf(e2))

(***************************************************************************)
(* The rate of day d out of the table of curve record y, before factors:   *)
(* the branches for interpolation and for extrapolation at either end.     *)
(***************************************************************************)
RateFrom(y, d, s) ==
  CASE s.how = "none" -> 0
    [] s.how = "exact" -> ZeroOf(s.lo)
    [] s.how = "between" ->
         IF s.lo.day = 0 THEN ZeroOf(s.hi) ELSE Along(d, s.lo, s.hi)
    [] s.how = "before" ->
         IF y.start = "linear_zero_zero"
         THEN Linear(d, 0, 0, s.lo.day, ZeroOf(s.lo)) ELSE ZeroOf(s.lo)
    [] s.how = "last" -> ZeroOf(s.lo)
    [] s.how = "after" ->
         IF y.end = "linear_zero" THEN Along(d, s.lo, s.hi) ELSE ZeroOf(s.hi)
    [] OTHER -> NaN

TableRate(y, d) == RateFrom(y, d, Spot(y.tab, d))

Scaled(y) == y.mult \notin {0, 1}
Factored(y) == y.add # 0 \/ Scaled(y)

ApplyFactors(y, rate) ==
  IF rate = NaN THEN NaN
  ELSE (rate + y.add) * (IF Scaled(y) THEN y.mult ELSE 1)

TableFactors(y, rate) == IF rate # NaN /\ rate > 0 THEN ApplyFactors(y, rate) ELSE rate

(***************************************************************************)
(* rq_yield_curve_get_discount_factor in the state cs.  A slot of the      *)
(* cache is used when the cache is on, covers the day, is filled and the   *)
(* curve has no factors.  The factors of a table apply only to a discount  *)
(* factor below 1, those of a composite always; a composite without a base *)
(* has rate zero, and its spread curve counts only beside a base.          *)
(***************************************************************************)
Cached(y, d) ==
  /\ d < y.cacheSize /\ ~ Factored(y) /\ y.cache[d] # None

Sum(a, b) == IF NaN \in {a, b} THEN NaN ELSE a + b

Composed(y, rateOf) ==
  IF y.base = None THEN 0
  ELSE IF y.spread = None THEN rateOf[y.base]
  ELSE Sum(rateOf[y.base], rateOf[y.spread])

RatesAt(cs, d) ==
  LET R[c \in Curves] ==
        LET y == cs[c]
        IN  IF ~ y.alive \/ d = 0 THEN 0
            ELSE IF Cached(y, d) THEN y.cache[d]
            ELSE IF y.composite
                 THEN ApplyFactors(y, Composed(y, [b \in {y.base, y.spread} \ {None} |-> R[b]]))
            ELSE TableFactors(y, TableRate(y, d))
  IN  R

Rate(cs, c, d) == RatesAt(cs, d)[c]

Parts(y) == IF y.alive /\ y.composite /\ y.base # None THEN {y.base, y.spread} \ {None} ELSE {}

(* The curves whose code runs when curve c is asked: those a filled cache  *)
(* does not stop at.                                                       *)
Asked(cs, c, d) ==
  LET A[x \in Curves] ==
        IF ~ cs[x].alive \/ d = 0 \/ Cached(cs[x], d) THEN {x}
        ELSE {x} \cup UNION {A[b] : b \in Parts(cs[x])}
  IN  A[c]

(* Slip: every curve on the way keeps the answer of the one asked. *)
AfterGet_Outer(cs, c, d) ==
  [x \in Curves |->
     IF cs[x].alive /\ d # 0 /\ x \in Asked(cs, c, d)
        /\ d < cs[x].cacheSize /\ ~ Factored(cs[x])
     THEN [cs[x] EXCEPT !.cache[d] = Rate(cs, c, d)] ELSE cs[x]]

(* Each of them keeps its answer if its cache covers the day and it has no *)
(* factors.                                                                *)
AfterGet(cs, c, d) ==
  [x \in Curves |->
     IF cs[x].alive /\ d # 0 /\ x \in Asked(cs, c, d)
        /\ d < cs[x].cacheSize /\ ~ Factored(cs[x])
     THEN [cs[x] EXCEPT !.cache[d] = Rate(cs, x, d)] ELSE cs[x]]
-----------------------------------------------------------------------------
(* The curves an answer of curve c can come from. *)
Reach(cs, c) ==
  LET A[x \in Curves] == {x} \cup UNION {A[b] : b \in Parts(cs[x])}
  IN  A[c]

(* A change of curve c is one of every curve over it; for those that are   *)
(* built already it breaks "the yield curve must not be altered after      *)
(* this" (rq_bootstrap_adapter.c).                                         *)
Altered(c) == {x \in built : c \in Reach(curve, x)}
Change(c, y) ==
  /\ steps < MaxSteps /\ steps' = steps + 1
  /\ curve' = [curve EXCEPT ![c] = y]

Init ==
  /\ curve = [c \in Curves |-> Null]
  /\ told = [c \in Curves |-> [d \in EntryDays |-> None]]
  /\ built = {} /\ stale = {} /\ steps = 0

New(c, start, end) ==
  /\ ~ curve[c].alive
  /\ Change(c, NewCurve(start, end))
  /\ UNCHANGED <<told, built, stale>>

SetDiscountFactor(c, d, r) ==
  /\ c \in Alive
  /\ Change(c, [curve[c] EXCEPT !.tab = Put(@, d, r), !.max = Room(curve[c].tab, @)])
  /\ told' = [told EXCEPT ![c][d] = r]
  /\ stale' = stale \cup Altered(c)
  /\ UNCHANGED built

RemoveElementRange(c, i, j) ==
  /\ c \in Alive /\ i <= j /\ j <= Len(curve[c].tab)
  /\ Change(c, [curve[c] EXCEPT !.tab = RemoveRange(@, i, j)])
  /\ told' = [told EXCEPT ![c] = [d \in EntryDays |->
                IF \E k \in i..j : curve[c].tab[k].day = d THEN None ELSE @[d]]]
  /\ stale' = stale \cup Altered(c)
  /\ UNCHANGED built

(* rq_yield_curve_set_composite, or set_base_curve and set_spread_curve of *)
(* a composite curve; a curve is made over curves that are there before.   *)
SetComposite(c, base, spread) ==
  /\ c \in Alive /\ {base, spread} \subseteq (Alive \cap 0..c - 1) \cup {None}
  /\ Change(c, [curve[c] EXCEPT !.composite = TRUE, !.base = base, !.spread = spread])
  /\ stale' = stale \cup Altered(c)
  /\ UNCHANGED <<told, built>>

(* A curve's own factors pass its cache by, so setting them leaves it in   *)
(* order; the curves over it know nothing of them.                         *)
SetFactors(c, add, mult) ==
  /\ c \in Alive
  /\ Change(c, [curve[c] EXCEPT !.add = add, !.mult = mult])
  /\ stale' = stale \cup (Altered(c) \ {c})
  /\ UNCHANGED <<told, built>>

CacheEnable(c) ==
  /\ c \in Alive \ built
  /\ Change(c, [curve[c] EXCEPT !.cacheSize = CacheSize])
  /\ built' = built \cup {c}
  /\ UNCHANGED <<told, stale>>

GetDiscountFactor(c, d) ==
  /\ c \in Alive
  /\ curve' = AfterGet(curve, c, d)
  /\ UNCHANGED <<told, built, stale, steps>>

(* rq_yield_curve_clone: the copy has neither the curves below a composite *)
(* nor a cache.                                                            *)
CloneOf(y) ==
  [NewCurve(y.start, y.end) EXCEPT !.tab = y.tab, !.max = y.max,
     !.composite = y.composite, !.add = y.add, !.mult = y.mult]

Clone(c, k) ==
  /\ c \in Alive /\ ~ curve[k].alive
  /\ Change(k, CloneOf(curve[c]))
  /\ told' = [told EXCEPT ![k] = told[c]]
  /\ UNCHANGED <<built, stale>>

(* A composite keeps pointers: its owner frees it before the curves below. *)
Free(c) ==
  /\ c \in Alive /\ \A x \in Alive : c \notin {curve[x].base, curve[x].spread}
  /\ Change(c, Null)
  /\ told' = [told EXCEPT ![c] = [d \in EntryDays |-> None]]
  /\ built' = built \ {c} /\ stale' = stale \ {c}

Next ==
  \E c \in Curves :
    \/ \E s \in Starts, e \in Ends : New(c, s, e)
    \/ \E d \in EntryDays, r \in Rates : SetDiscountFactor(c, d, r)
    \/ \E i, j \in 1..Cardinality(EntryDays) : RemoveElementRange(c, i, j)
    \/ \E b, s \in Curves \cup {None} : SetComposite(c, b, s)
    \/ \E a \in Shifts, m \in Scales : SetFactors(c, a, m)
    \/ CacheEnable(c)
    \/ \E d \in Days : GetDiscountFactor(c, d)
    \/ \E k \in Curves : Clone(c, k)
    \/ Free(c)

Spec == Init /\ [][Next]_vars
-----------------------------------------------------------------------------
(***************************************************************************)
(* What the curves should answer, from what they were told: nothing of     *)
(* tables and caches.                                                      *)
(***************************************************************************)
Points(what) == {d \in EntryDays : what[d] # None}
Greatest(S) == CHOOSE x \in S : \A y \in S : y <= x
Least(S) == CHOOSE x \in S : \A y \in S : x <= y

Line(what, d, d1, d2) ==
  what[d1] + ((what[d2] - what[d1]) * (d - d1)) \div (d2 - d1)

(* The rate of day d, drawn through what was told of a curve. *)
Drawn(y, what, d) ==
  LET P == Points(what) \ {0}
      L == {x \in P : x <= d}
      U == {x \in P : x >= d}
  IN  IF P = {} THEN 0
      ELSE IF d \in P THEN what[d]
      ELSE IF L = {} THEN
        IF y.start = "linear_zero_zero" /\ 0 \notin Points(what)
        THEN (what[Least(P)] * d) \div Least(P) ELSE what[Least(P)]
      ELSE IF U # {} THEN Line(what, d, Greatest(L), Least(U))
      ELSE IF y.end = "last_zero" \/ P = {Greatest(P)} THEN what[Greatest(P)]
      ELSE Line(what, d, Greatest(P \ {Greatest(P)}), Greatest(P))

(* The same of a composite, from what the curves below it should answer.   *)
Raw(y, what, rateOf, d) ==
  IF ~ y.composite THEN Drawn(y, what, d)
  ELSE IF y.base = None THEN 0
  ELSE rateOf[y.base][d] + (IF y.spread = None THEN 0 ELSE rateOf[y.spread][d])

True(cs, ts) ==
  LET T[c \in Curves] ==
        LET y == cs[c]
            m == IF y.mult = 0 THEN 1 ELSE y.mult
        IN  [d \in Days |->
               IF ~ y.alive \/ d = 0 THEN 0
               ELSE LET raw == Raw(y, ts[c], T, d)
                    IN  IF y.composite \/ raw > 0 THEN (raw + y.add) * m ELSE raw]
  IN  T

(* A factor of 1 set at the start date gives no rate; past the last entry  *)
(* the code would use one.                                                 *)
HasRate(cs, ts, c) ==
  \A x \in Reach(cs, c) :
     0 \in Points(ts[x]) => Cardinality(Points(ts[x]) \ {0}) > 1

(***************************************************************************)
(* Whatever is asked in whatever order, before the cache is on and after,  *)
(* with factors set and taken back, a curve answers the rate drawn through *)
(* what it was told -- as long as nobody alters it, or a curve it stands   *)
(* on, after its cache is on (rq_yield_curve_get_discount_factor, and      *)
(* rq_bootstrap_adapter_build, which turns the cache on).                  *)
(***************************************************************************)
AnswersTrue ==
  \A c \in Alive, d \in Days :
     Reach(curve, c) \cap stale = {} /\ HasRate(curve, told, c)
       => Rate(curve, c, d) = True(curve, told)[c][d]

(***************************************************************************)
(* Asking changes no answer: a cache that has gone stale stays as wrong as *)
(* it is, whichever curve and day is asked for (the slot of the cache that *)
(* rq_yield_curve_get_discount_factor fills).                              *)
(***************************************************************************)
AskingIsQuiet ==
  [][UNCHANGED steps =>
       \A d \in Days : RatesAt(curve', d) = RatesAt(curve, d)]_vars

(***************************************************************************)
(* The table of a curve has what was last set at each day and not removed, *)
(* nothing else, in the order of the days, each once, inside its array     *)
(* (rq_yield_curve_set_discount_factor, rq_yield_curve_remove_element_     *)
(* range, rq_yield_curve_clone).                                           *)
(***************************************************************************)
InOrder(t) == \A i, j \in 1..Len(t) : i < j => t[i].day < t[j].day
Says(t, what) ==
  /\ \A i \in 1..Len(t) : what[t[i].day] = t[i].value
  /\ \A d \in EntryDays : what[d] # None => \E i \in 1..Len(t) : t[i].day = d

TablesKept ==
  \A c \in Alive : LET t == curve[c].tab IN
     InOrder(t) /\ Says(t, told[c]) /\ Len(t) <= curve[c].max
=============================================================================
