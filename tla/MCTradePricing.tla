---------------------------- MODULE MCTradePricing ----------------------------
(***************************************************************************)
(* Trades priced over wrong configurations (cycles, one without a method)  *)
(* or over crossed curves, by an application that replaces curves, clears  *)
(* and copies markets and copies adapters in between.                      *)
(***************************************************************************)
EXTENDS MCCurveBuilder, TradePricing

List(yields, forwards) ==
    [t \in Types |-> IF t = "yield" THEN yields ELSE IF t = "forward" THEN forwards ELSE << >>]

MCTrades ==
    {List(<<"usd basis", "pair", "usd">>, << >>), List(<< >>, <<"pair", "usd", "usd basis">>),
     List(<<"usd basis">>, <<"usd", "pair">>)}

MCMaps == {<<"usd basis", "a">>}

\* The mappings are there at the start.
MCInit ==
    /\ Init /\ NoTrade /\ found = None
    /\ mapping = [u \in Use |-> CASE u = "usd" -> "a" [] u = "usd basis" -> "b" [] OTHER -> "c"]
    /\ own \in {KeysOf(CyclicOffers), KeysOf(CrossOffers)}

\* Who crosses curves does not copy adapters; the other has yield curves only,
\* and the pointers of the other adapters are not looked at.
Copied == \A a \in Adapter : depFn'[a] = "wild" => a[1] = "yield"

MCNext ==
    /\ PricingNext /\ UNCHANGED own /\ Within'
    /\ IF own = KeysOf(CrossOffers) THEN depFn' = depFn ELSE Copied

WrongSpec == MCInit /\ [][MCNext]_<<vars, pricing, own>>
===============================================================================
