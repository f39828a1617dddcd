---------------------------- MODULE MCYieldCurve ----------------------------
(***************************************************************************)
(* Two curves and one over them.  The quotients of the interpolation have  *)
(* divisors up to 4, so the rates are multiples of 12 (a negative one, and *)
(* a line that falls below zero, among them); day 4 is past the cache.     *)
(* Behaviours start where New, SetDiscountFactor and SetComposite have     *)
(* built some curves, so that the few steps go to what is hard.            *)
(*                                                                         *)
(* In the other behaviours a curve is bootstrapped from its rates: they    *)
(* are those of CurveStrip, over the configurations of MCCurveStrip.       *)
(***************************************************************************)
EXTENDS YieldCurve, CurveStrip

VARIABLE using     \* what this behaviour is about: "curves" or "strip"

Cases == INSTANCE MCCurveStrip
StripConfigs == Cases!MCConfigs
ASSUME OrderlyConfigs == \A c \in Configs : Orderly(c)

MCRates == {24}
MCShifts == {0, 24}
MCScales == {1, 2}

Table(rows) == FoldLeft(LAMBDA t, p : Put(t, p[1], p[2]), << >>, rows)

Methods == {<<"last_zero", "linear_zero">>, <<"linear_zero_zero", "last_zero">>}

Built(rows, m) == [NewCurve(m[1], m[2]) EXCEPT !.tab = Table(rows), !.max = 2]

Over(b, s, m) ==
  [NewCurve(m[1], m[2]) EXCEPT !.composite = TRUE, !.base = b, !.spread = s]

Starting ==
  {<<Built(<< <<0, 12>>, <<3, 12>> >>, m), Null, Null>> : m \in Methods} \cup
  {<<Built(p[1], p[2]), Built(<< <<1, 24>> >>, p[2]), Over(1, 2, p[2])>> :
     p \in {<<<< <<1, 36>>, <<3, 12>> >>, <<"last_zero", "linear_zero">>>>,
            <<<< <<3, -12>>, <<1, -36>> >>, <<"linear_zero_zero", "last_zero">>>>}}

CurvesInit ==
  /\ curve \in Starting
  /\ told = [c \in Curves |-> [d \in EntryDays |->
       LET t == IF curve[c].alive THEN curve[c].tab ELSE << >>
       IN  IF \E i \in DOMAIN t : t[i].day = d
           THEN t[CHOOSE i \in DOMAIN t : t[i].day = d].value ELSE None]]
  /\ built = {} /\ stale = {} /\ steps = 0

NoStrip ==
  /\ config = CHOOSE c \in Configs : c.rates = << >>
  /\ up = 1 /\ points = << >> /\ seen = << >> /\ swaps = << >> /\ pc = "null"
  /\ taken = << >> /\ implied = {} /\ knots = << >> /\ added = << >> /\ ordered = TRUE

MCInit ==
  \/ using = "curves" /\ CurvesInit /\ NoStrip
  \/ using = "strip" /\ StripInit /\ Init

MCNext ==
  /\ UNCHANGED using
  /\ \/ using = "curves" /\ Next /\ UNCHANGED stripVars
     \/ using = "strip" /\ StripNext /\ UNCHANGED vars

MCSpec == MCInit /\ [][MCNext]_<<using, vars, stripVars>>
=============================================================================
