---------------------------- MODULE FloatingFlow ----------------------------
(***************************************************************************)
(* Cash flows whose rate is fixed off a curve (rq_floating_flow.c) and the *)
(* list that a leg of a swap is (rq_floating_flow_list.c).  The client     *)
(* values the flows on the days it likes, with the curve of the day; a     *)
(* rate that is fixed between two valuations is drawn between what the two *)
(* curves said.                                                            *)
(*                                                                         *)
(* A curve tells by how much one unit grows in each day that is ahead.     *)
(* Rates are whole numbers: Year, the days of a year, is a multiple of the *)
(* lengths of all periods, so that every quotient is exact.  A notional    *)
(* fraction is notional times days, not divided by Year.                   *)
(***************************************************************************)
EXTENDS Integers, Sequences, FiniteSets

CONSTANTS Year,        \* the days of a year
          Last,        \* the last day somebody values the flows
          Horizon,     \* the last day the curves know
          Curves,      \* the curves a day may bring: growth by day
          Foreign,     \* the second curve of a currency pair
          Spot,        \* its exchange rate, and the rate of a fixed rate set
          Templates,   \* the ways a client sets up a flow
          Strikes,     \* cap and floor rates
          Spreads,     \* spreads over the rate
          HandRates,   \* rates set by hand
          MaxFlows,    \* bound of the model: the flows of the list
          MaxEdits     \* bound of the model: changes the client makes

Days == 1..Horizon
RateSetTypes == {"floating", "rate_set"}
Interest == {"floating", "fixed", "average"}
Types == RateSetTypes \cup Interest \cup {"static"}

ASSUME FlowConstants ==
  /\ {Year, Last, Horizon, MaxFlows, MaxEdits} \subseteq Nat \ {0}
  /\ Last <= Horizon
  /\ Curves \subseteq [Days -> Nat \ {0}] /\ Foreign \in [Days -> Nat \ {0}]
  /\ Templates \subseteq
       [type : Types, kind : {"ir", "fx", "fixed"}, pay : {"pay", "receive"},
        payDate : Int, rate : Int, notional : Int, amount : Int, mult : Int,
        fixing : Nat, start : Int, end : Int, accStart : Int, accEnd : Int]
  /\ \A t \in Templates : t.start < t.end /\ t.accStart < t.accEnd
  /\ Spot \in Nat /\ Strikes \cup Spreads \cup HandRates \subseteq Int

VARIABLES today,     \* the start date of the curve at hand
          curve,     \* the curve at hand
          realized,  \* history: the growth of the days that have passed
          list,      \* the flows
          edits      \* how many changes the client has made

vars == <<today, curve, realized, list, edits>>

-----------------------------------------------------------------------------
(* What x grows to from day s to day e: by g on each day that g knows. *)
Grown(g, x, s, e) ==
  LET P[d \in s..e] ==
        IF d = s THEN x
        ELSE P[d - 1] * (IF d - 1 \in DOMAIN g THEN g[d - 1] ELSE 1)
  IN  IF e <= s THEN x ELSE P[e]

Product(g, s, e) == Grown(g, 1, s, e)

(* Nothing grows before today. *)
Later(s) == IF s > today THEN s ELSE today
Growth(g, s, e) == Product(g, Later(s), e)

(* rq_rateset_get_forward_rate: one curve, two curves, or none. *)
Forward(kind, s, e) ==
  CASE kind = "fixed" -> Spot
    [] kind = "fx" -> (Spot * Growth(Foreign, s, e)) \div Growth(curve, s, e)
    [] OTHER -> ((Growth(curve, s, e) - 1) * Year) \div (e - s)

(* rq_interpolate_linear. *)
Linear(x, x1, y1, x2, y2) ==
  IF x1 = x2 THEN y1 ELSE (y1 * (x2 - x) + y2 * (x - x1)) \div (x2 - x1)

(***************************************************************************)
(* What rq_floating_flow_set_type_... makes of a flow, whatever it was.    *)
(* Status flags, observation and rate start anew; an average is given no   *)
(* year fraction, and only floating flows, rate sets and averages have a   *)
(* floating rate part.                                                     *)
(***************************************************************************)
Typed(t) ==
  [type |-> t.type, kind |-> t.kind, status |-> {}, pay |-> t.pay,
   payDate |-> t.payDate,
   rate |-> IF t.type = "fixed" THEN t.rate ELSE 0,
   notional |-> IF t.type \in {"floating", "fixed"}
                THEN t.notional * (t.accEnd - t.accStart) ELSE 0,
   payment |-> CASE t.type = "static" -> t.amount
                 [] t.type = "fixed" -> t.notional * (t.accEnd - t.accStart) * t.rate
                 [] OTHER -> 0,
   hasRate |-> t.type \in {"floating", "rate_set", "average"},
   fixing |-> t.fixing, start |-> t.start, end |-> t.end,
   accStart |-> t.accStart, accEnd |-> t.accEnd, observed |-> 0,
   mult |-> IF t.type = "floating" THEN t.mult ELSE 1,
   spread |-> 0, fixSpread |-> 0, cap |-> 0, floor |-> 0]

-----------------------------------------------------------------------------
(***************************************************************************)
(* Daily compounding: from the later of today and the start of the accrual *)
(* period one day after the other, the growth of tenor days counted for    *)
(* each, on top of what the past has brought.                              *)
(***************************************************************************)
Compounded(f, h) ==
  LET from == Later(f.accStart)
      Daily == [d \in from..(f.accEnd - 1) |->
                  Growth(curve, d, d + (f.end - f.start)) + f.fixSpread \div Year]
  IN  Grown(Daily, IF h # 0 THEN h ELSE 1, from, f.accEnd)

Overnight(f, h) ==
  ((Compounded(f, h) - 1) * Year) \div (f.accEnd - f.accStart)

(* Slip: a period that has begun is read whole. *)
Ahead_Stub(f, h) ==
  Forward(f.kind, f.start, f.end)
  + (IF h = 0 THEN 0 ELSE ((h - 1) * Year) \div (f.end - f.start))

(* A fixing ahead: a period that has begun is moved to start today, unless *)
(* what it has earned so far is known and added to the rest.               *)
Ahead(f, h) ==
  LET shift == IF h = 0 /\ f.start < today THEN today - f.start ELSE 0
      s == f.start + shift
      e == f.end + shift
  IN  Forward(f.kind, s, e) + (IF h = 0 THEN 0 ELSE ((h - 1) * Year) \div (e - s))

(* A fixing that was missed. *)
Missed(f, h) ==
  LET r == Forward(f.kind, today + (f.start - f.fixing), today + (f.end - f.fixing))
  IN  IF f.observed # 0 THEN Linear(f.fixing, f.observed, f.rate, today, r)
      ELSE IF h = 0 THEN r ELSE h

(* Slip: a fixing that was missed is not noted. *)
SetFromCurve_Forgets(f, h, reset) ==
  IF f.type \notin RateSetTypes \/ "rate" \in f.status THEN f
  ELSE IF f.fixing >= today
    THEN [f EXCEPT !.rate = IF reset = 1 /\ f.start # f.end THEN Overnight(f, h) ELSE Ahead(f, h),
                   !.observed = today,
                   !.status = @ \cup (IF f.fixing = today THEN {"rate"} ELSE {})]
  ELSE IF f.observed < f.fixing THEN [f EXCEPT !.rate = Missed(f, h)]
  ELSE f

(***************************************************************************)
(* rq_floating_flow_set_floating_rate_from_curve_and_historic: h is the    *)
(* growth the period has had so far, 0 when it is not known, and reset 1   *)
(* asks for daily compounding.  The rate is fixed on the fixing date, or   *)
(* at the first valuation after it.                                        *)
(***************************************************************************)
SetFromCurve(f, h, reset) ==
  IF f.type \notin RateSetTypes \/ "rate" \in f.status THEN f
  ELSE IF f.fixing >= today
    THEN [f EXCEPT !.rate = IF reset = 1 /\ f.start # f.end THEN Overnight(f, h) ELSE Ahead(f, h),
                   !.observed = today,
                   !.status = @ \cup (IF f.fixing = today THEN {"rate"} ELSE {})]
  ELSE IF f.observed < f.fixing
    THEN [f EXCEPT !.rate = Missed(f, h), !.observed = f.fixing,
                   !.status = @ \cup {"rate"}]
  ELSE f

-----------------------------------------------------------------------------
(* A call, or a put, without volatility. *)
Option(call, forward, strike) ==
  LET gain == IF call THEN forward - strike ELSE strike - forward
  IN  IF gain > 0 THEN gain ELSE 0

Sign(f) == IF f.mult < 0 THEN -1 ELSE 1

(* Slip: the strike is not freed of the spread. *)
Floored_Spread(f, k) ==
  k + Option(Sign(f) = 1, Sign(f) * (f.rate * f.mult), Sign(f) * k)

(***************************************************************************)
(* rq_floating_flow_price_floor without volatility, as rq_pricing_         *)
(* garmankhol answers then: k and an option on the rate struck at k less   *)
(* the spread, a put on the opposite of both for a reverse floater.        *)
(***************************************************************************)
Floored(f, k) ==
  k + Option(Sign(f) = 1, Sign(f) * (f.rate * f.mult), Sign(f) * (k - f.spread))

(* rq_floating_flow_get_effective_rate, with a rate set at hand or without. *)
Effective(f, market) ==
  IF ~ f.hasRate THEN f.rate
  ELSE LET plain == f.rate * f.mult + f.spread
           over == IF market /\ "floor" \in f.status THEN Floored(f, f.floor) ELSE plain
       IN  IF market /\ "cap" \in f.status THEN over - (Floored(f, f.cap) - f.cap) ELSE over

(* rq_floating_flow_set_payment. *)
Paid(f, market) ==
  IF f.type \in Interest THEN [f EXCEPT !.payment = f.notional * Effective(f, market)] ELSE f
-----------------------------------------------------------------------------
Positions == 1..Len(list)
Edit == edits < MaxEdits /\ edits' = edits + 1
Quiet == UNCHANGED <<today, curve, realized>>
Alter(i, f) == i \in Positions /\ list' = [list EXCEPT ![i] = f]

Init ==
  /\ today = 1 /\ curve \in Curves /\ realized = [d \in Days |-> 1]
  /\ list = << >> /\ edits = 0

(* rq_floating_flow_alloc, a type, and rq_floating_flow_list_add. *)
Add(t) ==
  /\ Len(list) < MaxFlows /\ list' = Append(list, Typed(t))
  /\ Quiet /\ UNCHANGED edits

Retype(i, t) == Edit /\ Alter(i, Typed(t)) /\ Quiet

(* The growth the rate period has had, or 0 for one that is not known. *)
Histories(f) == {0} \cup {Product(realized, f.start, today)}

Value(i, h, reset) ==
  /\ i \in Positions /\ h \in Histories(list[i])
  /\ reset = 1 => list[i].type = "floating" /\ list[i].kind = "ir"
  /\ Alter(i, SetFromCurve(list[i], h, reset))
  /\ Quiet /\ UNCHANGED edits

SetByHand(i, r) ==
  /\ Edit /\ i \in Positions
  /\ Alter(i, [list[i] EXCEPT !.rate = r, !.status = @ \cup {"rate"}]) /\ Quiet

SetStrike(i, which, k) ==
  /\ Edit /\ i \in Positions /\ list[i].hasRate
  /\ Alter(i, IF which = "cap" THEN [list[i] EXCEPT !.cap = k, !.status = @ \cup {which}]
              ELSE [list[i] EXCEPT !.floor = k, !.status = @ \cup {which}])
  /\ Quiet

SetSpread(i, which, x) ==
  /\ Edit /\ i \in Positions /\ list[i].hasRate
  /\ Alter(i, IF which = "spread" THEN [list[i] EXCEPT !.spread = x, !.status = @ \cup {which}]
              ELSE [list[i] EXCEPT !.fixSpread = x * Year, !.status = @ \cup {which}])
  /\ Quiet

SetPayment(i, market) ==
  /\ i \in Positions /\ Alter(i, Paid(list[i], market))
  /\ Quiet /\ UNCHANGED edits

(* rq_floating_flow_list_revert. *)
Revert ==
  /\ Edit /\ Quiet
  /\ list' = [i \in Positions |-> [list[i] EXCEPT !.status = @ \ {"rate"}]]

InvertPayReceive ==
  /\ Edit /\ Quiet
  /\ list' = [i \in Positions |->
                [list[i] EXCEPT !.pay = IF @ = "pay" THEN "receive" ELSE "pay"]]

PaidFrom(d) == {i \in Positions : list[i].payDate >= d}

(* rq_floating_flow_list_clone_from, after which the client frees the list. *)
CloneFrom(d) ==
  /\ Edit /\ Quiet
  /\ \E kept \in [1..Cardinality(PaidFrom(d)) -> PaidFrom(d)] :
       /\ \A a, b \in DOMAIN kept : a < b => kept[a] < kept[b]
       /\ list' = [a \in DOMAIN kept |-> list[kept[a]]]

(* The next day brings another curve. *)
NextDay(c) ==
  /\ today < Last /\ today' = today + 1 /\ curve' = c
  /\ realized' = [realized EXCEPT ![today] = curve[today]]
  /\ UNCHANGED <<list, edits>>

Next ==
  \/ \E t \in Templates : Add(t)
  \/ \E i \in Positions :
       \/ \E t \in Templates : Retype(i, t)
       \/ \E h \in Histories(list[i]), reset \in {0, 1} : Value(i, h, reset)
       \/ \E r \in HandRates : SetByHand(i, r)
       \/ \E which \in {"cap", "floor"}, k \in Strikes : SetStrike(i, which, k)
       \/ \E which \in {"spread", "fixing_spread"}, x \in Spreads : SetSpread(i, which, x)
       \/ \E market \in BOOLEAN : SetPayment(i, market)
  \/ Revert \/ InvertPayReceive
  \/ \E d \in Days : CloneFrom(d)
  \/ \E c \in Curves : NextDay(c)

Spec == Init /\ [][Next]_vars

ValueSome(i) ==
  i \in Positions /\ \E h \in Histories(list[i]), reset \in {0, 1} : Value(i, h, reset)

(* The client goes on valuing its flows as the days go by. *)
Fairness ==
  /\ WF_vars(\E c \in Curves : NextDay(c))
  /\ \A i \in 1..MaxFlows : WF_vars(ValueSome(i))

FairSpec == Spec /\ Fairness
-----------------------------------------------------------------------------
(* The rate of a flow is settled when it was set by hand, or from a curve  *)
(* on its fixing date or once that had passed.                             *)
Settled(f) == "rate" \in f.status \/ f.observed = f.fixing

(***************************************************************************)
(* A rate is fixed once: a valuation on the fixing date or later settles   *)
(* the rate, and no valuation on a later day changes it again, even if the *)
(* list has been reverted in between, which takes back the flag but not    *)
(* the date of the observation (the guards on flow_status and on           *)
(* date_observed in rq_floating_flow_set_floating_rate_from_curve_and_     *)
(* historic; rq_floating_flow_list_revert).                                *)
(***************************************************************************)
FixedOnce ==
  [][\A i \in Positions : \A h \in Histories(list[i]), reset \in {0, 1} :
       LET f == list[i] IN
       Value(i, h, reset) /\ f.type \in RateSetTypes =>
         /\ today >= f.fixing => Settled(list'[i])
         /\ today > f.fixing /\ Settled(f) => list'[i].rate = f.rate]_vars

(* What a valuation has to come to, from what the curve and the past say.  *)
Length(f) == f.end - f.start
Accrual(f) == f.accEnd - f.accStart

AheadRight(f, h, rate) ==
  IF h = 0
  THEN rate * Length(f) = (Growth(curve, Later(f.start), Later(f.start) + Length(f)) - 1) * Year
  ELSE rate * Length(f) = (Product(realized, f.start, today) - 1
                           + Growth(curve, f.start, f.end) - 1) * Year

OvernightRight(f, h, rate) ==
  rate * Accrual(f) =
    ((IF h = 0 THEN 1 ELSE Product(realized, f.accStart, today))
     * Growth(curve, f.accStart, f.accEnd) - 1) * Year

Between(x, a, b) == (a <= x /\ x <= b) \/ (b <= x /\ x <= a)

(***************************************************************************)
(* A valuation ahead of the fixing reads a period of the flow's length     *)
(* that does not begin before today, or adds what the period has earned to *)
(* what the curve says of the rest; compounded day by day from what was    *)
(* earned, a flow comes to what the curve says of the whole period; and a  *)
(* fixing that was missed lies between what was observed before it and     *)
(* what is observed after, nearer to what lies nearer in time (rq_floating_*)
(* flow_set_floating_rate_from_curve_and_historic, rq_rateset_get_forward_ *)
(* rate, rq_interpolate_linear).                                           *)
(***************************************************************************)
FixingsRight ==
  [][\A i \in Positions : \A h \in Histories(list[i]), reset \in {0, 1} :
       LET f == list[i]
           rate == list'[i].rate
           late == today - f.fixing
           new == Forward(f.kind, f.start + late, f.end + late)
       IN  Value(i, h, reset) /\ f.type \in RateSetTypes /\ "rate" \notin f.status
             /\ f.kind = "ir" =>
         /\ f.fixing >= today /\ reset = 0 => AheadRight(f, h, rate)
         /\ f.fixing >= today /\ reset = 1 /\ Length(f) = 1 /\ f.fixSpread = 0
              => OvernightRight(f, h, rate)
         /\ f.fixing < today /\ f.observed \in 1..f.fixing - 1
              => /\ Between(rate, f.rate, new)
                 /\ (rate - f.rate) * late = (new - rate) * (f.fixing - f.observed)]_vars

(***************************************************************************)
(* Valued with the market at hand, a flow with a floor, a cap or both pays *)
(* a rate within them, and the plain rate where that is within, be it a    *)
(* floater or a reverse floater (rq_floating_flow_get_effective_rate,      *)
(* rq_floating_flow_price_floor).                                          *)
(***************************************************************************)
Plain(f) == f.rate * f.mult + f.spread
Raised(f, x) == IF "floor" \in f.status /\ x < f.floor THEN f.floor ELSE x
Clamped(f) ==
  LET x == Raised(f, Plain(f))
  IN  IF "cap" \in f.status /\ x > f.cap THEN f.cap ELSE x

Collared ==
  \A i \in Positions :
     LET f == list[i] IN
     f.hasRate /\ ({"cap", "floor"} \subseteq f.status => f.floor <= f.cap)
       => Effective(f, TRUE) = Clamped(f)

(***************************************************************************)
(* If the client goes on valuing, every rate whose fixing date comes is    *)
(* settled in the end, whatever was reverted or set up anew before.        *)
(***************************************************************************)
EventuallyFixed ==
  <>[](\A i \in Positions :
         list[i].type \in RateSetTypes /\ list[i].fixing <= Last => Settled(list[i]))
=============================================================================
