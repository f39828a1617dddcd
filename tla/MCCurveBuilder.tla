---------------------------- MODULE MCCurveBuilder ----------------------------
(***************************************************************************)
(* The worlds in which TLC runs the bootstrap engine.                      *)
(***************************************************************************)
EXTENDS CurveBuilder

C(m, i, j) == [method |-> m, id1 |-> i, id2 |-> j, asset |-> None]
F(m, i, j, a) == [method |-> m, id1 |-> i, id2 |-> j, asset |-> a]

\* Yield curves: a leaf, a spread over it, and composites, without cycles.
AcyclicOffers ==
    {<<Yield("a"), C("simple", None, None)>>, <<Yield("b"), C("spread", "a", None)>>,
     <<Yield("c"), C("composite", "a", "b")>>, <<Yield("c"), C("composite", "b", None)>>,
     <<Yield("c"), C("other", None, None)>>, <<Yield("d"), C("composite", "c", "a")>>}
AcyclicRates == {Yield("a")} \X {"none", "spread"}
AcyclicPreload == {Yield("a"), Yield("c")}

\* Forward curves: a cash curve, whose asset is registered or not, and an index curve
\* made from its rates; and a CDS curve over a yield curve.
IndexOffers ==
    {<<Forward("a"), F("simple", None, None, "gold")>>,
     <<Forward("a"), F("simple", None, None, "eurusd")>>,
     <<Forward("a"), F("simple", None, None, "unlisted")>>,
     <<Forward("b"), F("bbi", "a", None, "gold")>>,
     <<Forward("b"), F("bbi", None, None, "gold")>>,
     <<Yield("a"), C("simple", None, None)>>, <<Cds("b"), C("cds", "a", None)>>}
IndexRates == {<<Forward("a"), "spread">>, <<Yield("a"), "spread">>} \cup {Cds("b")} \X {"spread", "survival"}

\* The curve of a currency pair that is crossed from two others, one of them
\* perhaps of a pair that is not registered.
CrossOffers ==
    {<<Forward("a"), F("simple", None, None, "eurusd")>>,
     <<Forward("b"), F("simple", None, None, "usdjpy")>>,
     <<Forward("b"), F("simple", None, None, "unlisted")>>,
     <<Forward("c"), F("crossccy", "a", "b", "eurjpy")>>,
     <<Forward("c"), F("crossccy", "b", None, "eurjpy")>>}
CrossRates == {Forward("a"), Forward("b")} \X {"spread"}
CrossTriangle == {<<"eurjpy", "eurusd", "usdjpy">>}

\* Configurations that are wrong: cycles, and one without a method.
CyclicOffers ==
    {<<Yield("a"), C("simple", None, None)>>, <<Yield("a"), C("spread", "a", None)>>,
     <<Yield("b"), C("composite", "a", "c")>>, <<Yield("c"), C("composite", "b", "a")>>,
     <<Yield("c"), C("spread", "a", None)>>, <<Yield("a"), C(None, None, None)>>}
CyclicRates == {<<Yield("a"), "spread">>}
CyclicPreload == {Yield("c")}

\* Two kinds of application in one run: yield curves and index curves; wrong
\* configurations and crossed curves.
EngineOffers == AcyclicOffers \cup IndexOffers
EngineRates == AcyclicRates \cup IndexRates
WrongOffers == CyclicOffers \cup CrossOffers
ASSUME RightOffers == Workable(EngineOffers) /\ ~Workable(CyclicOffers) /\ ~Workable(CrossOffers)
WrongRates == CyclicRates \cup CrossRates

VARIABLE own    \* the curves this application has to do with

KeysOf(offers) == {o[1] : o \in offers}

\* It loads nothing for the other curves, and the assets of the curves it adds
\* are those of its configurations.
Within ==
    /\ \A k \in Key \ own : config[k] = None /\ quote[k] = "none" /\ market[k] = None
    /\ \A k \in own : market[k] # None =>
           \E o \in Offers : o[1] = k /\ market[k].asset = o[2].asset

Step == Next /\ UNCHANGED own /\ Within'

EngineInit == Init /\ own \in {KeysOf(AcyclicOffers), KeysOf(IndexOffers)}
EngineSpec == EngineInit /\ [][Step]_<<vars, own>> /\ WF_vars(Build)
===============================================================================
