---------------------------- MODULE ExchangeRates ----------------------------
(***************************************************************************)
(* rq_exchange_rate_mgr: the exchange rates of a market, and the list of   *)
(* currencies through which missing ones are crossed.                      *)
(*                                                                         *)
(* A rate is modelled by its logarithm, an integer: rates are multiplied   *)
(* by adding them, and inverted by changing the sign.  On each date each   *)
(* currency is worth something, and all that the curves of currency pairs  *)
(* say follows from that.  A read that changes nothing is an operator; it  *)
(* is a step only if it does not return.                                   *)
(***************************************************************************)
EXTENDS Integers, Sequences, FiniteSets

CONSTANTS
    Ccy,
    Usd,        \* the currency of an empty list
    Asset,      \* the pairs of currencies <<c1, c2>> that are assets
    Per1,       \* those that are quoted 2PER1, the others are 1PER2
    Thin,       \* those whose curve may have no rates
    Date,
    Worth,      \* of each currency on each date
    Lists,      \* the lists of currencies that may be added
    MaxCrosses, \* bound: no list is added to as many currencies
    MaxRates,   \* bound: nothing is published or implied beside as many rates
    None, Overflow

ASSUME CcyAssumption == Usd \in Ccy /\ IsFiniteSet(Ccy)
ASSUME AssetAssumption == Per1 \cup Thin \subseteq Asset /\ Asset \subseteq Ccy \X Ccy
ASSUME WorthAssumption == Worth \in [Date -> [Ccy -> Int]]
ASSUME ListsAssumption == Lists \subseteq Seq(Ccy)
ASSUME BoundsAssumption == MaxCrosses \in Nat /\ MaxRates \in Nat
ASSUME NoneAssumption == {None, Overflow} \cap Int = {} /\ None # Overflow

VARIABLES
    rates,    \* the tree of rates, by currencies <<from, to>>
    crosses,  \* the list of cross_thru_nodes
    curve,    \* the market's forward curves: None, "empty" or with "rates"
    pc        \* "running", or "overflow" of the C stack

vars == <<rates, crosses, curve, pc>>

Route == Ccy \X Ccy
Product(a, b) == IF Overflow \in {a, b} THEN Overflow
                 ELSE IF None \in {a, b} THEN None ELSE a + b
True(r, d) == Worth[d][r[1]] - Worth[d][r[2]]
-----------------------------------------------------------------------------
\* A currency that is neither of the two can be crossed through.
Usable(x, r) == x # r[1] /\ x # r[2]

\* The first such currency from position i on, or 0.
FirstUsable(X, i, r) ==
    LET J == {j \in i..Len(X) : Usable(X[j], r)}
    IN IF J = {} THEN 0 ELSE CHOOSE j \in J : \A k \in J : j <= k

\* rq_asset_ccypair_find: the asset of the two currencies, in either order.
FindPair(r) == CASE r \in Asset -> r
                 [] <<r[2], r[1]>> \in Asset -> <<r[2], r[1]>>
                 [] OTHER -> None

\* rq_forward_curve_get_rate, for a curve that has rates.
CurveRate(a, d) == IF a \in Per1 THEN True(a, d) ELSE True(<<a[2], a[1]>>, d)

\* Slip: the convention is not looked at.
Direct_From(r, a) == r[1] = a[1]

\* The curve's rate needs no inversion.
Direct(r, a) == \/ r[1] = a[1] /\ a \in Per1
                \/ r[1] = a[2] /\ a \notin Per1

\* lookup_exchange_rate: the rates by the forward curves.  A pair without a curve
\* is crossed through the first usable currency, and its legs through those that
\* follow in the list; the legs of a pair that is no asset are not crossed.
Lookup(d) ==
    LET X == crosses
        null == Len(X) + 1
        from[i \in 1..null] == [r \in Route |->   \* with the list from i on
            LET a == FindPair(r)
                j == FirstUsable(X, i, r)
                next == IF a = None THEN null ELSE j + 1
            IN CASE r[1] = r[2] -> 0
                 [] r[1] # r[2] /\ a # None /\ curve[a] = "rates" ->
                        IF Direct(r, a) THEN CurveRate(a, d) ELSE -CurveRate(a, d)
                 [] r[1] # r[2] /\ a # None /\ curve[a] = "empty" -> None
                 [] OTHER ->
                        IF j = 0 THEN None
                        ELSE LET legs == from[next]
                             IN Product(legs[<<r[1], X[j]>>], legs[<<X[j], r[2]>>])]
    IN from[1]

\* Slip: the second leg is taken the wrong way.
Get_LegReversed(R, X) ==
    LET within[n \in 0..Cardinality(Route)] ==
            IF n = 0 THEN [r \in Route |-> Overflow]
            ELSE LET deeper == within[n-1] IN [r \in Route |->
                    LET j == FirstUsable(X, 1, r) IN
                    CASE r[1] = r[2] -> 0
                      [] r[1] # r[2] /\ R[r] # None -> R[r]
                      [] OTHER -> IF j = 0 THEN None
                                  ELSE Product(deeper[<<r[1], X[j]>>], deeper[<<r[2], X[j]>>])]
    IN within[Cardinality(Route)]

\* rq_exchange_rate_mgr_get: the rates by the tree, and through the first usable
\* currency, for which it calls itself.  A route that comes again comes for ever,
\* so that the calls overflow the stack if they are as many as the routes.
Get(R, X) ==
    LET within[n \in 0..Cardinality(Route)] ==
            IF n = 0 THEN [r \in Route |-> Overflow]
            ELSE LET deeper == within[n-1] IN [r \in Route |->
                    LET j == FirstUsable(X, 1, r) IN
                    CASE r[1] = r[2] -> 0
                      [] r[1] # r[2] /\ R[r] # None -> R[r]
                      [] OTHER -> IF j = 0 THEN None
                                  ELSE Product(deeper[<<r[1], X[j]>>], deeper[<<X[j], r[2]>>])]
    IN within[Cardinality(Route)]
-----------------------------------------------------------------------------
Init ==
    /\ rates = [r \in Route |-> None]
    /\ crosses = <<>>
    /\ curve = [a \in Asset |-> None]
    /\ pc = "running"

Running == pc = "running"
RoomForRates == Cardinality({r \in Route : rates[r] # None}) < MaxRates

\* A rate is stored, and then its inverse the other way.
BothRates(f, t, rate) == [rates EXCEPT ![<<f, t>>] = rate, ![<<t, f>>] = -rate]

\* An adapter makes the curve of a pair; if that has rates it adds the one of the
\* spot date, in the direction in which it is quoted, to the exchange rates.
BootstrapCurve(a, shape, spot) ==
    /\ Running /\ RoomForRates
    /\ curve' = [curve EXCEPT ![a] = shape]
    /\ rates' = IF shape = "empty" THEN rates
                ELSE IF a \in Per1 THEN BothRates(a[1], a[2], CurveRate(a, spot))
                ELSE BothRates(a[2], a[1], CurveRate(a, spot))
    /\ UNCHANGED <<crosses, pc>>

\* The client adds the curve of a pair itself: rq_forward_curve_mgr_add.
AddCurve(a, shape) ==
    /\ Running
    /\ curve' = [curve EXCEPT ![a] = shape]
    /\ UNCHANGED <<rates, crosses, pc>>

\* rq_exchange_rate_mgr_get_or_imply, when it caches what it found.
GetOrImply(d) ==
    LET found == Lookup(d) IN
    /\ Running /\ RoomForRates
    /\ \E r \in Route :
        /\ rates[r] = None /\ found[r] # None
        /\ rates' = BothRates(r[1], r[2], found[r])
    /\ UNCHANGED <<crosses, curve, pc>>

\* Slip: the new currencies go in front.
Appended_InFront(list) == (IF list = <<>> THEN <<Usd>> ELSE list) \o crosses

\* The list with more currencies at its end, with US dollars if none are named.
Appended(list) == crosses \o (IF list = <<>> THEN <<Usd>> ELSE list)

\* rq_exchange_rate_mgr_add_cross_thru_ccy_codes.
AddCrosses(list) ==
    /\ Running /\ Len(crosses) < MaxCrosses
    /\ crosses' = Appended(list)
    /\ UNCHANGED <<rates, curve, pc>>

\* rq_exchange_rate_mgr_get, when it does not return.
GetOverflows ==
    LET got == Get(rates, crosses) IN
    /\ Running /\ \E r \in Route : got[r] = Overflow
    /\ pc' = "overflow"
    /\ UNCHANGED <<rates, crosses, curve>>

\* rq_exchange_rate_mgr_clear: the list goes too.
Clear ==
    /\ Running
    /\ rates' = [r \in Route |-> None]
    /\ crosses' = <<>>
    /\ UNCHANGED <<curve, pc>>

Next == \/ \E a \in Asset, shape \in {"empty", "rates"} :
                /\ shape = "empty" => a \in Thin
                /\ AddCurve(a, shape) \/ \E spot \in Date : BootstrapCurve(a, shape, spot)
        \/ \E d \in Date : GetOrImply(d)
        \/ GetOverflows
        \/ \E list \in Lists : AddCrosses(list)
        \/ Clear

Spec == Init /\ [][Next]_vars
-----------------------------------------------------------------------------
(***************************************************************************)
(* Properties                                                              *)
(***************************************************************************)
\* Every rate that is stored is the true one of some date, whether an adapter
\* published it or a lookup crossed it through one or two currencies.
RatesAreTrue == \A r \in Route : rates[r] # None => \E d \in Date : rates[r] = True(r, d)

\* Every rate that is stored is the inverse of the one the other way: two rates of
\* one pair never come from different dates.
BothWays == \A r \in Route : rates[r] # None => /\ rates[<<r[2], r[1]>>] # None
                                                /\ rates[r] = -rates[<<r[2], r[1]>>]

\* As long as the stored rates are of one date, so is every rate the manager
\* answers, however many currencies it crosses.
CrossesRight ==
    LET got == Get(rates, crosses) IN
    \A d \in Date :
        (\A r \in Route : rates[r] \in {None, True(r, d)}) =>
            \A r \in Route : got[r] \in {None, Overflow, True(r, d)}

\* The manager calls itself for ever only if the list has two currencies and the
\* rate between one of them and another currency is missing.
OverflowCause ==
    pc = "overflow" =>
        \E i, j \in DOMAIN crosses :
            /\ crosses[i] # crosses[j]
            /\ \E c \in Ccy \ {crosses[i]} : rates[<<c, crosses[i]>>] = None

\* What is stored, and what is answered from it.
StoredRight == RatesAreTrue /\ BothWays
AnsweredRight == CrossesRight /\ OverflowCause

\* A rate that the manager can answer it can answer until it is cleared, whatever
\* rates and currencies are added.
KeepsAnswers ==
    [][LET before == Get(rates, crosses)
           after == Get(rates', crosses')
       IN Clear \/ \A r \in Route : before[r] \notin {None, Overflow} =>
                                    after[r] \notin {None, Overflow}]_<<rates, crosses>>
=============================================================================
