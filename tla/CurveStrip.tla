----------------------------- MODULE CurveStrip -----------------------------
(***************************************************************************)
(* How a yield curve is bootstrapped: the rates of its configuration are   *)
(* taken in their order, each gives the curve a discount factor at the end *)
(* of its instrument, and a swap also one at each payment date the curve   *)
(* does not reach yet.  The four builders are those of                     *)
(* rq_bootstrap_yield_curve_{simple,day_count,spread,cubic_spline}.c; what *)
(* they share is in rq_bootstrap_yield_curve.c and in processSwapsDCF.     *)
(*                                                                         *)
(* A discount factor is told by who gave it: the entry an instrument puts  *)
(* on day d has the value <<instrument, d>>.  What an instrument read is   *)
(* told by the entries it was read from.  Days count from the curve's.     *)
(* Tenors are whole numbers of payment periods and no calendar moves a     *)
(* date (that is module DateRoll's).                                       *)
(***************************************************************************)
EXTENDS DiscountTable, FiniteSets

CONSTANTS Configs   \* the configurations: see Config below

(***************************************************************************)
(* An instrument is the asset of a rate.  kind: "deposit" (a currency, an  *)
(* overnight or a credit spread asset: its factor depends on its rate      *)
(* alone), "discount", "par" (a discount asset whose rate is a par rate),  *)
(* "future", "swap" or "bond"; start and end are its days, every the days  *)
(* between payments, quoted whether its rate is there and found whether    *)
(* its asset is there as well.                                             *)
(***************************************************************************)
Kinds == {"deposit", "discount", "par", "future", "swap", "bond"}
Instrument == [kind : Kinds, start : Nat, end : Nat, every : Nat, quoted : BOOLEAN, found : BOOLEAN]

(***************************************************************************)
(* builder: which of the four; future: how a bill future ends, at the next *)
(* one ("strip") or after its own tenor; par: how the par rates between    *)
(* swaps are found; even: whether the year fractions of a swap's periods   *)
(* are all the same; junk: what the uninitialised splineX[0] holds; layers *)
(* the spreads of a spread curve and of the spread curves it stands on.    *)
(***************************************************************************)
Builders == {"simple", "day_count", "spread", "cubic"}
SpreadRate == [day : Nat, spread : Int, found : BOOLEAN]

ASSUME StripConstants ==
  \A c \in Configs :
    /\ c.builder \in Builders /\ c.future \in {"strip", "tenor"}
    /\ c.par \in {"linear", "spline", "swaps_only"}
    /\ c.even \in BOOLEAN /\ c.junk \in Nat
    /\ c.rates \in Seq(Instrument)
    /\ \A i \in DOMAIN c.rates : /\ c.rates[i].kind \in {"swap", "bond"} => c.rates[i].every > 0
                                 /\ c.rates[i].found => c.rates[i].quoted
    /\ c.layers \in Seq(Seq(SpreadRate))
    /\ c.builder = "spread" => c.layers # << >>

VARIABLES config,   \* what is built
          up,     \* the rate that is up next
          points,   \* the curve so far
          seen,     \* the locals that tell a rate of the ones before it
          swaps,    \* the swaps put off to the end
          pc,       \* "rates", "swaps", "built" or "null"
          taken,    \* history: what each instrument took for which day
          implied,  \* history: the par rates found between two others
          knots,    \* history: the days of the last spline
          added,    \* history: the spread added to each rate
          ordered   \* history: each instrument so far ended after the curve

stripVars == <<config, up, points, seen, swaps, pc, taken, implied, knots, added, ordered>>

Assets == config.rates
NoInstrument == 0
OwnValue(i, d) == <<i, d>>
-----------------------------------------------------------------------------
(* rq_yield_curve_get_discount_factor for the table of a curve that is     *)
(* being built (no cache, no factors).                                     *)
FactorOf(s) ==
  CASE s.how = "exact" -> <<"exact", s.lo.value>>
    [] s.how \in {"none", "outside"} -> <<s.how>>
    [] OTHER -> <<s.how, s.lo.value, s.hi.value>>

FactorOn(t, d) == IF d = 0 THEN <<"one">> ELSE FactorOf(Spot(t, d))

Guessed == {"after", "last", "none"}   \* read past the end of the curve
Took(d, v) == [day |-> d, value |-> v, by |-> NoInstrument]

\* The factor v of day d, with which the instrument goes on from rate i.
TookAfter(i, d, v) == [day |-> d, value |-> v, by |-> i]

(* rq_date_roll_generate_dates for whole periods: the start and the dates. *)
Schedule(x) == [k \in 1..(x.end - x.start) \div x.every + 1 |-> x.start + (k - 1) * x.every]

(***************************************************************************)
(* What the instruments other than swaps give the curve: the day, and what *)
(* the discount factor was computed from.                                  *)
(***************************************************************************)
Deposit(x) == [day |-> x.end, took |-> {}]

(* bootstrapAssetIRDiscount: from its start, if that is after the curve's. *)
Discount(x) ==
  [day |-> x.end, took |-> IF x.start > 0 THEN {Took(x.start, FactorOn(points, x.start))} ELSE {}]

(* bootstrapParDCF: from the end of the rate before, if that is a par rate, *)
(* with the discount factor of the last discount or future.                *)
Par(x) ==
  LET follows == seen.rate # NoInstrument /\ Assets[seen.rate].kind = "par"
  IN  [day |-> x.end, took |-> IF follows THEN {TookAfter(seen.rate, Assets[seen.rate].end, seen.df)}
                                          ELSE {}]

(* bootstrapAssetIRFutureStrip: the first future is read off the curve;    *)
(* each further one goes on from the settlement of the asset before, with  *)
(* the rate before, which need not be that asset's in a spread curve.      *)
FutureStrip(x) ==
  LET by == IF config.builder = "spread" THEN seen.rate ELSE seen.future
  IN  [day |-> x.start,
       took |-> IF seen.futureDf = <<"none">> THEN {}
                ELSE {TookAfter(by, Assets[seen.future].start, seen.futureDf)}]

(* bootstrapAssetIRFutureTenor. *)
FutureTenor(x) == [day |-> x.end, took |-> {Took(x.start, FactorOn(points, x.start))}]

(* bootstrapAssetIRBond: every date but the last, the first one included.  *)
Bond(x) ==
  [day |-> x.end,
   took |-> {Took(d, FactorOn(points, d)) : d \in Range(Schedule(x)) \ {x.end}}]

Given(x) ==
  CASE x.kind = "deposit" -> Deposit(x)
    [] x.kind = "discount" -> Discount(x)
    [] x.kind = "par" -> IF config.builder = "day_count" THEN Par(x) ELSE Discount(x)
    [] x.kind = "future" -> IF config.future = "strip" THEN FutureStrip(x) ELSE FutureTenor(x)
    [] x.kind = "bond" -> Bond(x)
-----------------------------------------------------------------------------
(***************************************************************************)
(* rq_generate_swap_splines: the knots of the spline of par rates are the  *)
(* payment dates the curve reaches ("spline" only, and at least the first) *)
(* and then the ends of the swaps, one that is not after the knot before   *)
(* it left out.  The dates are read until one is past the curve, whether   *)
(* there are so many or not.                                               *)
(***************************************************************************)
Unread == -1    \* what is read past the dates that were generated

PaymentAt(dates, j) == IF j + 1 <= Len(dates) THEN dates[j + 1] ELSE Unread
MostKnots(dates) == Len(dates) - 2 + Len(swaps)

ReachedKnots(dates, t) ==
  IF config.par # "spline" THEN 0
  ELSE CHOOSE m \in 1..MostKnots(dates) :
         /\ \A j \in 2..m : PaymentAt(dates, j) <= LastDate(t)
         /\ m = MostKnots(dates) \/ PaymentAt(dates, m + 1) > LastDate(t)

(* Slip: a swap's end is a knot wherever it lies. *)
EndIsKnot_Anywhere(x, d, most) == Len(x) < most
EndIsKnot(x, d, most) ==
  Len(x) < most /\ d > (IF x = << >> THEN config.junk ELSE x[Len(x)])

Knots(dates, t) ==
  LET knot[k \in 0..Len(swaps)] ==
        IF k = 0 THEN [j \in 1..ReachedKnots(dates, t) |-> PaymentAt(dates, j)]
        ELSE IF EndIsKnot(knot[k - 1], Assets[swaps[k]].end, MostKnots(dates))
             THEN Append(knot[k - 1], Assets[swaps[k]].end)
             ELSE knot[k - 1]
  IN  knot[Len(swaps)]

(* Slip: the curve's last day counts as past it. *)
Within_Before(d) == d < LastDate(points)
Within(d) == d <= LastDate(points)

(***************************************************************************)
(* processSwapsDCF for swap i.  Payment dates the curve reaches are read   *)
(* from it; for each one beyond it, a par rate is found between the par    *)
(* rate of an earlier day and the swap's own, and gives the curve an entry *)
(* (Filled: the curve then).  On an empty curve the swap's rate serves for *)
(* all its dates and its start.                                            *)
(***************************************************************************)
Between(x) == 2..Len(Schedule(x)) - 1
Beyond(x) == {j \in Between(x) : ~ Within(Schedule(x)[j])}
Opens(x) == points = << >> /\ x.start > 0 /\ Between(x) # {}

Filled(i) ==
  LET x == Assets[i]
      filled[j \in 0..Len(Schedule(x))] ==
        IF j = 0 THEN IF Opens(x) THEN Put(points, x.start, OwnValue(i, x.start)) ELSE points
        ELSE IF j \in Beyond(x)
             THEN Put(filled[j - 1], Schedule(x)[j], OwnValue(i, Schedule(x)[j]))
             ELSE filled[j - 1]
  IN  filled[Len(Schedule(x))]

Implied(x) ==
  LET rateKnown == seen.swap.every = x.every /\ config.even
      From(j) == IF rateKnown THEN seen.swap.end ELSE Schedule(x)[j - 1]
  IN  IF points = << >> THEN {}
      ELSE {[from |-> From(j), at |-> Schedule(x)[j], to |-> x.end] : j \in Beyond(x)}

SwapTook(i) ==
  LET x == Assets[i]
      Own(d) == Took(d, <<"exact", OwnValue(i, d)>>)
      Curve(d) == Took(d, FactorOn(points, d))
  IN  {IF Opens(x) THEN Own(x.start) ELSE Curve(x.start)} \cup
      {IF j \in Beyond(x) THEN Own(Schedule(x)[j]) ELSE Curve(Schedule(x)[j]) : j \in Between(x)}

(***************************************************************************)
(* processSwaps of the cubic spline builder: the first swap's dates tell   *)
(* how many the curve reaches, and from there on the last swap's dates get *)
(* an entry each, as long as they are before its end.                      *)
(***************************************************************************)
CubicSwaps ==
  LET Dates(i) == Schedule([Assets[i] EXCEPT !.start = 0])
      first == Dates(Head(swaps))
      all == Dates(Last(swaps))
      Past(j) == first[j + 1] >= seen.day /\ first[j + 1] < Assets[Head(swaps)].end
      inner == 0..Len(first) - 3
      from == Max({0} \cup {j \in inner : \A k \in 0..j : ~ Past(k)})
  IN  FoldLeft(LAMBDA t, d : Put(t, d, OwnValue(Last(swaps), d)), points,
               SelectSeq(SubSeq(all, from + 1, Len(all)), LAMBDA d : d < Assets[Last(swaps)].end))
-----------------------------------------------------------------------------
(***************************************************************************)
(* rq_build_net_yield_curve_spreads: the spreads of the outermost layer    *)
(* fill the arrays, those of the layers below are added at the same index, *)
(* if the day there is theirs; the number of spreads is the last layer's.  *)
(***************************************************************************)
Found(layer) ==
  LET found[k \in 0..Len(layer)] ==
        IF k = 0 THEN << >>
        ELSE IF layer[k].found THEN Append(found[k - 1], layer[k]) ELSE found[k - 1]
  IN  found[Len(layer)]

(* Slip: the index goes on from layer to layer. *)
NetSpreads_NoReset(layers) ==
  LET outer == Found(layers[1])
  IN  [net |-> outer, count |-> Len(outer) + Len(Found(layers[Len(layers)]))]

(* A spread with that of the same index of the layer below, if it is one of its day. *)
WithBelow(r, k, below) ==
  IF k \in DOMAIN below /\ below[k].day = r.day
  THEN [r EXCEPT !.spread = @ + below[k].spread] ELSE r

NetSpreads(layers) ==
  LET net[l \in 1..Len(layers)] ==
        IF l = 1 THEN Found(layers[1])
        ELSE [k \in DOMAIN net[l - 1] |-> WithBelow(net[l - 1][k], k, Found(layers[l]))]
  IN  [net |-> net[Len(layers)], count |-> Len(Found(layers[Len(layers)]))]

(* The spread of a rate whose value date is d: the one of that day, or     *)
(* between two, or between none today and the first; none after the last.  *)
SpreadAt(d) ==
  LET s == NetSpreads(config.layers)
      net == s.net
      later == {j \in 1..s.count : j \in DOMAIN net => net[j].day >= d}
      j == CHOOSE k \in later : \A m \in later : k <= m
  IN  IF later = {} THEN <<"none">>
      ELSE IF j \notin DOMAIN net THEN <<"unread">>
      ELSE IF net[j].day = d THEN <<"at", net[j].spread>>
      ELSE IF j > 1 THEN <<"between", net[j - 1].spread, net[j].spread>>
      ELSE <<"from", net[j].spread>>
-----------------------------------------------------------------------------
StripInit ==
  /\ config \in Configs
  /\ up = 1 /\ points = << >> /\ swaps = << >> /\ pc = "rates"
  /\ seen = [rate |-> NoInstrument, df |-> <<"none">>, future |-> NoInstrument, futureDf |-> <<"none">>,
             swap |-> [end |-> 0, every |-> 0], day |-> 0]
  /\ taken = [i \in DOMAIN Assets |-> {}]
  /\ implied = {} /\ knots = << >> /\ added = << >> /\ ordered = TRUE

Extends(d) == ordered /\ d > LastDate(points)

(* A rate that is not there, or whose asset is not, or whose kind of asset *)
(* the builder does not know, gives the curve nothing.                     *)
Skipped(x) == ~ x.found \/ (config.builder = "cubic" /\ x.kind = "bond")

TakeSpread(x) ==
  added' = IF config.builder # "spread" THEN added
           ELSE [i \in DOMAIN added \cup {up} |-> IF i = up THEN SpreadAt(x.end) ELSE added[i]]

(* If only its asset is missing it is still the rate before the next one,  *)
(* and is raised by its spread.                                            *)
SkipRate ==
  /\ pc = "rates" /\ up <= Len(Assets) /\ Skipped(Assets[up])
  /\ IF Assets[up].quoted
     THEN seen' = [seen EXCEPT !.rate = up] /\ TakeSpread(Assets[up])
     ELSE UNCHANGED <<seen, added>>
  /\ up' = up + 1
  /\ UNCHANGED <<config, points, swaps, pc, taken, implied, knots, ordered>>

(***************************************************************************)
(* One pass of the builder's loop for an instrument that is not a swap.    *)
(* The spread builder hands the asset and the rate before this one to a    *)
(* future, whatever they are of; the others those of the future before.    *)
(***************************************************************************)
NextLast(x, day) ==
  LET own == <<"exact", OwnValue(up, day)>>
  IN  [seen EXCEPT
         !.rate = up, !.day = day,
         !.df = IF x.kind \in {"discount", "par", "future"} THEN own ELSE @,
         !.future = IF x.kind = "future" \/ config.builder = "spread" THEN up ELSE @,
         !.futureDf = IF x.kind = "future" /\ config.future = "strip" THEN own ELSE @]

TakeRate ==
  /\ pc = "rates" /\ up <= Len(Assets)
  /\ LET x == Assets[up]
         g == Given(x)
     IN  /\ ~ Skipped(x) /\ x.kind # "swap"
         /\ points' = Put(points, g.day, OwnValue(up, g.day))
         /\ taken' = [taken EXCEPT ![up] = g.took]
         /\ seen' = NextLast(x, g.day)
         /\ ordered' = Extends(g.day)
         /\ TakeSpread(x)
  /\ up' = up + 1
  /\ UNCHANGED <<config, swaps, pc, implied, knots>>

(* The locals after processSwapsDCF has returned. *)
AfterSwap(i) ==
  [seen EXCEPT !.rate = i, !.day = Assets[i].end,
     !.future = IF config.builder = "spread" THEN i ELSE @,
     !.swap = [end |-> Assets[i].end, every |-> Assets[i].every]]

Strip(i) ==
  LET x == Assets[i]
  IN  /\ points' = Put(Filled(i), x.end, OwnValue(i, x.end))
      /\ taken' = [taken EXCEPT ![i] = SwapTook(i)]
      /\ implied' = implied \cup Implied(x)
      /\ seen' = AfterSwap(i)
      /\ ordered' = Extends(x.end)

PutOff(x) == x.kind = "swap" /\ (config.builder = "cubic" \/
               (config.builder = "day_count" /\ config.par # "linear"))

TakeSwap ==
  /\ pc = "rates" /\ up <= Len(Assets)
  /\ ~ Skipped(Assets[up]) /\ Assets[up].kind = "swap" /\ ~ PutOff(Assets[up])
  /\ Strip(up) /\ TakeSpread(Assets[up])
  /\ up' = up + 1
  /\ UNCHANGED <<config, swaps, pc, knots>>

PutOffSwap ==
  /\ pc = "rates" /\ up <= Len(Assets) /\ ~ Skipped(Assets[up]) /\ PutOff(Assets[up])
  /\ swaps' = Append(swaps, up)
  /\ seen' = [seen EXCEPT !.rate = up]
  /\ up' = up + 1
  /\ UNCHANGED <<config, points, pc, taken, implied, knots, added, ordered>>

RatesDone ==
  /\ pc = "rates" /\ up > Len(Assets)
  /\ pc' = "swaps" /\ up' = 1
  /\ UNCHANGED <<config, points, seen, swaps, taken, implied, knots, added, ordered>>

SplineSwap ==
  /\ pc = "swaps" /\ config.builder = "day_count" /\ up <= Len(swaps)
  /\ Strip(swaps[up])
  /\ knots' = Knots(Schedule(Assets[swaps[up]]), points)
  /\ up' = up + 1
  /\ UNCHANGED <<config, swaps, pc, added>>

CubicSpline ==
  /\ pc = "swaps" /\ config.builder = "cubic" /\ up = 1 /\ swaps # << >>
  /\ points' = CubicSwaps
  /\ up' = Len(swaps) + 1
  /\ UNCHANGED <<config, seen, swaps, pc, taken, implied, knots, added, ordered>>

(* A curve without a factor is freed, but for a spread curve. *)
Return ==
  /\ pc = "swaps" /\ up > Len(swaps)
  /\ pc' = IF points = << >> /\ config.builder # "spread" THEN "null" ELSE "built"
  /\ UNCHANGED <<config, up, points, seen, swaps, taken, implied, knots, added, ordered>>

StripNext ==
  \/ SkipRate \/ TakeRate \/ TakeSwap \/ PutOffSwap \/ RatesDone
  \/ SplineSwap \/ CubicSpline \/ Return

StripSpec == StripInit /\ [][StripNext]_stripVars
-----------------------------------------------------------------------------
(***************************************************************************)
(* A par rate for a payment date is found between two known ones, never    *)
(* past them, whatever the order of the instruments, and never between     *)
(* two of the same day (rq_interpolate_linear in processSwapsDCF).         *)
(***************************************************************************)
ImpliedBetween == \A p \in implied : p.from < p.at /\ p.at < p.to

(***************************************************************************)
(* An instrument has the price it was quoted at as long as the curve gives *)
(* the discount factors it was stripped with.  If the rates come in the    *)
(* order of their ends, no later instrument changes a factor an earlier    *)
(* one read from the curve or gave to it, guesses past the end of the      *)
(* curve of that moment left aside, and what it implied lies between known *)
(* rates (processSwapsDCF, bootstrapAssetIRDiscount,                       *)
(* bootstrapAssetIRFuture...).  What goes on from the rate before goes on  *)
(* from the factor that rate gave (bootstrapParDCF,                        *)
(* bootstrapAssetIRFutureStrip) - unless that rate has no asset and gave   *)
(* none (Bereft): it is then priced from a day with the factor of another  *)
(* one, and nothing is said of it.  The cubic spline builder strips the    *)
(* last date the curve reaches once more, or the day the curve starts, and *)
(* is left out of the first part.                                          *)
(***************************************************************************)
Bereft(u) == u.by # NoInstrument /\ ~ Assets[u.by].found
GoesOn(u) == u.by # NoInstrument => u.value = <<"exact", OwnValue(u.by, u.day)>>

Reprices ==
  /\ ImpliedBetween
  /\ ordered /\ config.builder # "cubic" => \A i \in DOMAIN Assets : \A u \in taken[i] :
       ~ Bereft(u) => /\ GoesOn(u)
                      /\ u.value[1] \notin Guessed => FactorOn(points, u.day) = u.value

(***************************************************************************)
(* The knots of the par rate spline ascend, reach to the last swap's end,  *)
(* have every swap's end, and none is read past the generated dates, if    *)
(* the rates come in the order of their ends (rq_generate_swap_splines).   *)
(* swaps_only compares its first knot with an uninitialised number.        *)
(***************************************************************************)
SwapsAscend == \A j, k \in DOMAIN swaps : j < k => Assets[swaps[j]].end < Assets[swaps[k]].end

KnotsRight ==
  ordered /\ SwapsAscend /\ knots # << >> /\ config.par = "spline" =>
    /\ \A j, k \in DOMAIN knots : j < k => knots[j] < knots[k]
    /\ Unread \notin Range(knots)
    /\ \A i \in Range(swaps) : Assets[i].end \in Range(knots)

(***************************************************************************)
(* On a day that every layer has a spread for, a rate gets the sum of them *)
(* (rq_build_net_yield_curve_spreads, which assumes that all levels share  *)
(* common dates).                                                          *)
(***************************************************************************)
CommonDays ==
  \A l \in DOMAIN config.layers, k \in DOMAIN Head(config.layers) :
    /\ Len(config.layers[l]) = Len(Head(config.layers))
    /\ config.layers[l][k].found /\ config.layers[l][k].day = Head(config.layers)[k].day

SpreadSum(k) ==
  LET sum[l \in 0..Len(config.layers)] ==
        IF l = 0 THEN 0 ELSE sum[l - 1] + config.layers[l][k].spread
  IN  sum[Len(config.layers)]

SpreadsAdd ==
  \A i \in DOMAIN added :
    CommonDays => \A k \in DOMAIN Head(config.layers) :
      Head(config.layers)[k].day = Assets[i].end => added[i] = <<"at", SpreadSum(k)>>

\* What the configurations of curves are like that are stripped as one would expect.
\* Swaps have more than one period, and pay on the day each shorter one ends, as they
\* do in whole periods of the same dates (else a spline misses the end of a swap, or
\* has a knot from past the dates).
SwapsMeet(c) ==
  LET swapAt == {i \in DOMAIN c.rates : c.rates[i].found /\ c.rates[i].kind = "swap"}
  IN  \A j \in swapAt :
        LET dates == Schedule(c.rates[j])
        IN  /\ Len(dates) > 2
            /\ \A i \in swapAt : c.rates[i].end <= c.rates[j].end =>
                 \E k \in 2..Len(dates) : dates[k] = c.rates[i].end

\* The futures of a strip are next to one another (a spread curve goes on from the
\* rate before, whatever it is of).
FuturesTogether(c) ==
  \A i, j, k \in DOMAIN c.rates :
    /\ i < j /\ j < k /\ c.rates[i].kind = "future" /\ c.rates[k].kind = "future"
    /\ c.rates[i].found /\ c.rates[j].found /\ c.rates[k].found
    => c.rates[j].kind = "future"

\* The spreads come in the order of their days.
SpreadsAscend(c) ==
  \A j, k \in DOMAIN c.layers[1] : j < k => c.layers[1][j].day < c.layers[1][k].day

Orderly(c) ==
  /\ c.builder = "day_count" /\ c.par = "spline" => SwapsMeet(c)
  /\ c.builder = "spread" => SpreadsAscend(c) /\ (c.future = "strip" => FuturesTogether(c))

\* A curve that is being bootstrapped keeps the prices of the instruments it was
\* stripped from, its splines have their knots, and its layers of spreads add up.
StripsRight == Reprices /\ KnotsRight /\ SpreadsAdd
=============================================================================
