---------------------------- MODULE TradePricing ----------------------------
(***************************************************************************)
(* rq_pricing_helper_value_trade, the client of the bootstrap engine: the  *)
(* pricing adapter of a trade says which term structures it needs, each by *)
(* its type and what it is for (an asset and a group); the helper maps     *)
(* that to a curve, has the engine build it, and puts a pointer to it into *)
(* a term structure cache; then the adapter prices the trade.              *)
(*                                                                         *)
(* The engine is CurveBuilder's, step by step: while it builds one curve   *)
(* of the trade, the cache holds pointers to those it built before.        *)
(***************************************************************************)
EXTENDS CurveBuilder

CONSTANTS
    Use,     \* what a term structure is for: an asset and a group
    Maps,    \* the <<use, curve id>> mappings the application may add
    Trades   \* the needs of its trades: a list of uses for each type

ASSUME MapsAssumption == Maps \subseteq Use \X Id
ASSUME TradesAssumption == Trades \subseteq [Types -> Seq(Use)]

VARIABLES
    mapping,  \* rq_termstruct_mapping_mgr: the curve id for each use
    phase,    \* of the helper: "none", "building" or "pricing"
    needs,    \* the market requirements of the trade, in the helper's order
    at,       \* the one it is at
    cache,    \* rq_termstruct_cache: a pointer to the curve for each need
    request,  \* the fields of the pricing request that were given a value
    before,   \* history: the curves the market had when the trade came
    found     \* history: the needs of the last trade and which of them were in
              \* its cache, None if something was changed after it

pricing == <<mapping, phase, needs, at, cache, request, before, found>>

Nothing == << >>
CurveFor(need) == <<need[1], mapping[need[2]]>>
Configured(need) == mapping[need[2]] # None /\ Cfg(CurveFor(need)) # None

NoTrade ==
    /\ phase = "none" /\ needs = << >> /\ at = 1
    /\ cache = Nothing /\ request = {} /\ before = Nothing

PricingInit == Init /\ NoTrade /\ mapping = [u \in Use |-> None] /\ found = None

\* What the application does between trades.
Prepare ==
    /\ phase = "none" /\ Application /\ Idle'
    /\ found' = None
    /\ UNCHANGED <<mapping, phase, needs, at, cache, request, before>>

\* rq_termstruct_mapping_mgr_add: a tree of trees, by asset and then by group.
MapCurve(u, id) ==
    /\ phase = "none" /\ Idle
    /\ mapping' = [mapping EXCEPT ![u] = id]
    /\ found' = None
    /\ UNCHANGED <<vars, phase, needs, at, cache, request, before>>

\* The requirements are one list for each type, and the helper goes through
\* the types in the order of their numbers.
InOrder(list) ==
    LET OfType(t) == [i \in 1..Len(list[t]) |-> <<t, list[t][i]>>]
    IN  OfType("yield") \o OfType("forward") \o OfType("cds")

\* The fields of its pricing request the helper assigns.
Assigned == {"system", "value_date", "results_requested", "trade_details",
             "pricing_context", "market_transition_cache",
             "trade_transition_cache", "pricing_currency", "application_data"}

\* rq_pricing_helper_value_trade up to the loops over the requirements.
ValueTrade(list) ==
    /\ phase = "none" /\ Idle
    /\ phase' = "building"
    /\ needs' = InOrder(list) /\ at' = 1
    /\ cache' = Nothing
    /\ request' = Assigned
    /\ before' = [k \in Present |-> market[k].gen]
    /\ UNCHANGED <<vars, mapping, found>>

More == phase = "building" /\ Idle /\ at <= Len(needs)

\* Slip: a need that is not mapped ends the loop.
PassOver_EndsLoop ==
    /\ More /\ ~Configured(needs[at])
    /\ at' = Len(needs) + 1
    /\ UNCHANGED <<vars, mapping, phase, needs, cache, request, before, found>>

\* A need without a mapping, or whose curve has no configuration.
PassOver ==
    /\ More /\ ~Configured(needs[at])
    /\ at' = at + 1
    /\ UNCHANGED <<vars, mapping, phase, needs, cache, request, before, found>>

AskEngine ==
    /\ More /\ Configured(needs[at])
    /\ Request(CurveFor(needs[at]))
    /\ UNCHANGED pricing

EngineStep == phase = "building" /\ Build /\ ~Idle' /\ UNCHANGED pricing

\* rq_termstruct_cache_add_requested_term_structure replaces what the cache has
\* for the same need.
Put(f, x, y) == [z \in DOMAIN f \cup {x} |-> IF z = x THEN y ELSE f[z]]

\* rq_bootstrap_adapter_mgr_build returns.
Keep ==
    /\ phase = "building" /\ Answer
    /\ cache' = IF val = 0 THEN cache ELSE Put(cache, needs[at], <<arg, val>>)
    /\ at' = at + 1
    /\ UNCHANGED <<mapping, phase, needs, request, before, found>>

\* The adapter's get_pricing_results is called.
CallAdapter ==
    /\ phase = "building" /\ Idle /\ at > Len(needs)
    /\ phase' = "pricing"
    /\ UNCHANGED <<vars, mapping, needs, at, cache, request, before, found>>

\* It has returned; the cache and the requirements are freed, the curves stay.
Price ==
    /\ phase = "pricing"
    /\ phase' = "none" /\ needs' = << >> /\ at' = 1
    /\ cache' = Nothing /\ request' = {} /\ before' = Nothing
    /\ found' = [needs |-> needs, kept |-> DOMAIN cache]
    /\ UNCHANGED <<vars, mapping>>

PricingNext ==
    \/ Prepare \/ PassOver \/ AskEngine \/ EngineStep \/ Keep \/ CallAdapter \/ Price
    \/ \E m \in Maps : MapCurve(m[1], m[2])
    \/ \E t \in Trades : ValueTrade(t)

PricingSpec == PricingInit /\ [][PricingNext]_<<vars, pricing>>
-----------------------------------------------------------------------------
\* Every pointer of the cache is to a curve of the market, the one its need is
\* mapped to.
CacheAlive ==
    \A n \in DOMAIN cache :
        LET k == cache[n][1] IN
        k = CurveFor(n) /\ InMarket(k) /\ market[k].gen = cache[n][2]

\* A need whose curve was in the market before the trade came has that curve.
CacheHasOld ==
    \A i \in DOMAIN needs : LET n == needs[i] IN
        Configured(n) /\ CurveFor(n) \in DOMAIN before =>
            n \in DOMAIN cache /\ cache[n] = <<CurveFor(n), before[CurveFor(n)]>>

\* When the trade is priced, none of the curves its cache points to has been
\* freed by the builds that came after it (rq_pricing_helper.c:108, :126), and
\* every need gets the curve the market had for it, whatever became of the
\* needs before it (rq_pricing_helper.c:92, which goes on).
PricedFromMarket == phase = "pricing" => CacheAlive /\ CacheHasOld

\* Whether a curve is made of other curves that its adapter does not declare: a
\* cross (rq_bootstrap_adapter_forward_curve_crossccy.c:138), a cds curve with a
\* layer below it, whose yield curve it takes instead if the market has that, and
\* more in a copy of the adapters, which has lost its lists
\* (rq_bootstrap_adapter.c:53).
Undeclared(k) ==
    LET c == Cfg(k) IN
    \/ c.method = "crossccy"
    \/ c.method \in {"composite", "cds"} /\ DepFn(k) # "own"
    \/ c.method = "cds" /\ c.id1 # None /\ Cfg(Cds(c.id1)) # None

\* All that a curve is made of is declared, down to the last.
AllDeclared(k) ==
    \E S \in SUBSET {d \in Key : Cfg(d) = None \/ AdapterOf(d) \notin Adapter \/ ~Undeclared(d)} :
        k \in S /\ \A s \in S : Needs[s] \subseteq S

\* A trade that is priced again, nothing having been changed, finds the curves
\* it found the first time, and no others; but for those that are made of curves
\* that are not declared, and so fail if they are needed before them.
Repeatable ==
    phase = "pricing" /\ found # None /\ found.needs = needs =>
        /\ found.kept \subseteq DOMAIN cache
        /\ \A n \in DOMAIN cache \ found.kept : ~AllDeclared(CurveFor(n))

\* "get the market content that a pricing model needs to price a trade"
\* (rq_pricing_adapter.h:81): the request that the adapter is handed carries
\* the term structures that were built for it.
RequestCarriesCurves == phase = "pricing" => "termstruct_cache" \in request
=============================================================================
