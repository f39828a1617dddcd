---------------------------- MODULE CurveBuilder ----------------------------
(***************************************************************************)
(* The bootstrap engine: rq_bootstrap_adapter_mgr_build and what it calls. *)
(* A client (rq_pricing_helper.c) asks for a term structure.  If the       *)
(* market already has it, that one is returned; otherwise the adapter of   *)
(* its configuration lists the curves it depends on, the engine calls      *)
(* itself for each of them, and the adapter's bootstrap function then      *)
(* makes the curve and adds it to the market.                              *)
(*                                                                         *)
(* The recursion is modelled with its call stack: a frame is one           *)
(* activation of rq_bootstrap_adapter_mgr_build that has its dependency    *)
(* list and is in the loop over it.  A curve is identified by its type and *)
(* id; each object that is allocated gets a new generation, so that a raw  *)
(* pointer to a curve is the pair of its key and its generation.           *)
(***************************************************************************)
EXTENDS Integers, Sequences, FiniteSets

CONSTANTS
    Id,         \* the curve ids
    Asset,      \* the assets a configuration may name
    Pair,       \* those that are currency pairs
    Registered, \* those that the asset manager of rq_system has
    Triangle,   \* <<asset, a1, a2>>: pairs a1 and a2 chain into the pair asset
    Offers,     \* the <<key, config>> pairs the application may load
    Rates,      \* the <<key, quote>> pairs it may load, quote "none" to remove
    Preload,    \* the keys of the curves it may add to the market itself
    Client,     \* what else it does: a subset of ClientOps
    MaxDepth,   \* bound: the nested activations that overflow the C stack
    MaxGen,     \* bound: no clear, copy or added curve after so many objects
    None

Types == {"yield", "forward", "cds"}
Key == Types \X Id
Yield(id) == <<"yield", id>>
Forward(id) == <<"forward", id>>
Cds(id) == <<"cds", id>>

Methods == {"simple", "composite", "spread", "bbi", "crossccy", "cds", "other"}

\* The adapters of rq_bootstrap_adapter_mgr_add_standard_adapters, by type.
Adapter == {<<"yield", "simple">>, <<"yield", "composite">>,
            <<"yield", "spread">>, <<"forward", "simple">>,
            <<"forward", "bbi">>, <<"forward", "crossccy">>, <<"cds", "cds">>}

\* The adapters that declare dependencies, hence have a list function.
Declaring == {<<"yield", "composite">>, <<"forward", "bbi">>, <<"cds", "cds">>}

Config == [method : Methods \cup {None}, id1 : Id \cup {None},
           id2 : Id \cup {None}, asset : Asset \cup {None}]

Curve == [gen : Nat \ {0}, asset : Asset \cup {None}, composite : BOOLEAN,
          refs : SUBSET (Key \X Nat)]

Quotes == {"none", "spread", "survival"}
ClientOps == {"replace", "clear", "copy_market", "copy_adapters"}

ASSUME NoneAssumption ==
    None \notin Id \cup Asset \cup Key \cup Config \cup Curve \cup Methods
ASSUME AssetAssumption == Pair \subseteq Asset /\ Registered \subseteq Asset
ASSUME TriangleAssumption == Triangle \subseteq Registered \X Registered \X Registered
ASSUME OffersAssumption == Offers \subseteq Key \X Config
ASSUME RatesAssumption == Rates \subseteq Key \X Quotes
ASSUME PreloadAssumption == Preload \subseteq Key
ASSUME ClientAssumption == Client \subseteq ClientOps
ASSUME BoundsAssumption == MaxDepth \in Nat /\ MaxGen \in Nat

VARIABLES
    config,  \* rq_bootstrap_config_mgr: the configuration of each curve
    quote,   \* which rates of its configuration the rate manager has
    depFn,   \* each adapter's get_bootstrap_dependency_list pointer
    market,  \* the curve managers of rq_market
    spot,    \* the assets with a spot price or exchange rate in the market
    gen,     \* how many curve objects were made
    pc,      \* where the engine is
    stack,   \* its activations that are in the loop over the dependencies
    arg,     \* the curve of the call that is entered or returns
    val,     \* the generation of the curve it returns, 0 for NULL
    last     \* what the client got for its last request, a curve or None

client == <<config, quote, depFn>>
vars == <<config, quote, depFn, market, spot, gen, pc, stack, arg, val, last>>

Halts == {"crashed", "overflow"}
-----------------------------------------------------------------------------
\* What an adapter says of a configured curve.

Cfg(k) == config[k]
AdapterOf(k) == <<k[1], Cfg(k).method>>
DepFn(k) == depFn[AdapterOf(k)]

\* get_bootstrap_dependency_list of the composite and bbi adapters returns
\* RQ_FAILED when an id is missing; the one of cds never fails.
ListFails(k) ==
    /\ DepFn(k) = "own"
    /\ \/ Cfg(k).method \in {"composite", "bbi"} /\ Cfg(k).id1 = None
       \/ Cfg(k).method = "composite" /\ Cfg(k).id2 = None

\* Slip: the adapter names the curve itself instead of its first id.
DepList_OwnId(k) ==
    IF DepFn(k) # "own" \/ ListFails(k) \/ Cfg(k).id1 = None THEN <<>> ELSE <<k>>

\* Slip: the composite adapter adds its first id only.
DepList_FirstOnly(k) ==
    LET id1 == Cfg(k).id1 IN
    IF DepFn(k) # "own" \/ ListFails(k) \/ id1 = None THEN <<>>
    ELSE CASE Cfg(k).method = "composite" -> <<Yield(id1)>>
           [] Cfg(k).method = "bbi" -> <<Forward(id1)>>
           [] OTHER -> <<Yield(id1)>>

\* The dependencies it declares, in order.
DepList(k) ==
    LET id1 == Cfg(k).id1 IN
    IF DepFn(k) # "own" \/ ListFails(k) \/ id1 = None THEN <<>>
    ELSE CASE Cfg(k).method = "composite" -> <<Yield(id1), Yield(Cfg(k).id2)>>
           [] Cfg(k).method = "bbi" -> <<Forward(id1)>>
           [] OTHER -> IF Cfg(Cds(id1)) # None THEN <<Cds(id1)>>
                                               ELSE <<Yield(id1)>>

DepSet(k) == {DepList(k)[i] : i \in DOMAIN DepList(k)}
-----------------------------------------------------------------------------
\* What a bootstrap function makes of a configured curve.

InMarket(k) == market[k] # None
Present == {k \in Key : InMarket(k)}

\* rq_build_net_yield_curve_spreads follows curve_id1 down the layers of
\* configurations whose method is the spread method.
OnSpread(k) == /\ Cfg(k).method = "spread" /\ Cfg(k).id1 # None
               /\ Cfg(Yield(Cfg(k).id1)) # None
SpreadBase(k) ==
    LET layer[n \in 0..Cardinality(Id)] ==
            IF n = 0 THEN k
            ELSE LET l == layer[n-1]
                 IN IF OnSpread(l) THEN Yield(Cfg(l).id1) ELSE l
    IN layer[Cardinality(Id)]

\* rq_build_net_cds_spread_rates: the quotes of the layers are added up until
\* a layer quotes survival rates, or has no id, or its id is a yield curve of
\* the market (which becomes the base), or no configuration has its id.
CdsNet(k, have) ==
    LET more(c) == /\ quote[c] # "survival" /\ Cfg(c).id1 # None
                   /\ Yield(Cfg(c).id1) \notin have
                   /\ Cfg(Cds(Cfg(c).id1)) # None
        layer[n \in 0..Cardinality(Id)] ==
            IF n = 0 THEN [at |-> k, net |-> quote[k] # "none"]
            ELSE LET l == layer[n-1]
                     below == Cds(Cfg(l.at).id1)
                 IN IF more(l.at)
                    THEN [at |-> below, net |-> l.net \/ quote[below] # "none"]
                    ELSE l
        end == layer[Cardinality(Id)]
    IN [net |-> end.net, endless |-> more(end.at),
        given |-> quote[end.at] = "survival",
        base |-> Cfg(end.at).id1 # None /\ Yield(Cfg(end.at).id1) \in have]

\* rq_bootstrap_forward_curve_crossccy multiplies two curves of the market.
Crosses(k) ==
    LET c == Cfg(k) IN
    /\ c.id1 # None /\ InMarket(Forward(c.id1))
    /\ c.id2 # None /\ InMarket(Forward(c.id2))
    /\ \/ <<c.asset, market[Forward(c.id1)].asset, market[Forward(c.id2)].asset>> \in Triangle
       \/ <<c.asset, market[Forward(c.id2)].asset, market[Forward(c.id1)].asset>> \in Triangle

\* A leaf curve needs a rate, and a composite the two curves of its ids.
HasRates(k) == quote[k] # "none"
HasBoth(k) == LET c == Cfg(k) IN /\ c.id1 # None /\ InMarket(Yield(c.id1))
                                 /\ c.id2 # None /\ InMarket(Yield(c.id2))

\* The index curve reads the configuration of its cash curve, and its rates,
\* but not the curve.
HasCashRates(k) == LET cash == Forward(Cfg(k).id1) IN
    Cfg(k).id1 # None /\ Cfg(cash) # None /\ quote[cash] # "none"

\* rq_bootstrap_cds_curve: survival rates make a curve as they are, spreads
\* only with a base yield curve.
HasSpreads(k) == LET n == CdsNet(k, Present) IN n.given \/ (n.net /\ n.base)

\* The bootstrap function returns a curve.
Bootstraps(k) ==
    CASE Cfg(k).method = "simple"    -> HasRates(k)
      [] Cfg(k).method = "composite" -> HasBoth(k)
      [] Cfg(k).method = "spread"    -> Cfg(SpreadBase(k)).method # "spread"
      [] Cfg(k).method = "bbi"       -> HasCashRates(k)
      [] Cfg(k).method = "crossccy"  -> Crosses(k)
      [] Cfg(k).method = "cds"       -> HasSpreads(k)
      [] OTHER                       -> FALSE

\* The pair of a cross curve is registered, and that of a curve it crosses is not.
CrossesUnregistered(c) ==
    /\ c.asset \in Registered /\ InMarket(Forward(c.id1)) /\ InMarket(Forward(c.id2))
    /\ {market[Forward(c.id1)].asset, market[Forward(c.id2)].asset} \notin SUBSET Registered

\* It does not return: a forward curve without an asset id (strdup of NULL),
\* endless layers, a layer without a method id (strcmp of NULL), or a cross
\* curve without an id (strcmp of NULL if any forward curve is there) or over a
\* curve whose pair is not registered (whose currencies are read from NULL).
BootstrapCrashes(k) ==
    LET c == Cfg(k) IN
    \/ k[1] = "forward" /\ c.asset = None
    \/ c.method = "spread" /\ \/ OnSpread(SpreadBase(k))
                              \/ Cfg(SpreadBase(k)).method = None
    \/ c.method = "cds" /\ CdsNet(k, Present).endless
    \/ /\ c.method = "crossccy"
       /\ IF None \in {c.id1, c.id2} THEN \E id \in Id : InMarket(Forward(id))
                                     ELSE CrossesUnregistered(c)

\* rq_bootstrap_yield_curve_composite keeps pointers to the two curves.
Pointers(k) ==
    IF Cfg(k).method # "composite" THEN {}
    ELSE {<<d, market[d].gen>> : d \in {Yield(Cfg(k).id1), Yield(Cfg(k).id2)}}

NewCurve(k) == [gen |-> gen + 1, asset |-> Cfg(k).asset,
                composite |-> Cfg(k).method = "composite", refs |-> Pointers(k)]

\* Slip: only the currency pair branch publishes.
Published_PairsOnly(k) ==
    LET a == Cfg(k).asset IN
    IF k[1] # "forward" \/ Cfg(k).method = "bbi" \/ a \notin Pair \cap Registered THEN {spot}
    ELSE {spot, spot \cup {a}}

\* The simple and cross forward adapters also publish the first rate of the
\* curve, if its asset is registered: as a spot price, or, for a currency pair
\* that has a rate on its spot date, as exchange rates in both directions.
Published(k) ==
    LET a == Cfg(k).asset IN
    IF k[1] # "forward" \/ Cfg(k).method = "bbi" \/ a \notin Registered THEN {spot}
    ELSE IF a \in Pair THEN {spot, spot \cup {a}} ELSE {spot \cup {a}}
-----------------------------------------------------------------------------
Init ==
    /\ config = [k \in Key |-> None]
    /\ quote = [k \in Key |-> "none"]
    /\ depFn = [a \in Adapter |-> IF a \in Declaring THEN "own" ELSE "null"]
    /\ market = [k \in Key |-> None]
    /\ spot = {}
    /\ gen = 0
    /\ pc = "idle"
    /\ stack = <<>>
    /\ arg = None
    /\ val = 0
    /\ last = None

engine == <<pc, stack, arg, val, last>>
Idle == pc = "idle"

\* rq_bootstrap_config_mgr_add: replaces the configuration of that curve.
AddConfig(k, c) ==
    /\ Idle
    /\ config' = [config EXCEPT ![k] = c]
    /\ UNCHANGED <<quote, depFn, market, spot, gen, engine>>

\* rq_rate_mgr_add for the rates of a configuration.
AddRates(k, q) ==
    /\ Idle /\ Cfg(k) # None
    /\ quote' = [quote EXCEPT ![k] = q]
    /\ UNCHANGED <<config, depFn, market, spot, gen, engine>>

\* The application adds a curve of its own: the manager's tree frees the curve
\* that had the id.  Unless Client has "replace", it adds only what is missing.
AddCurve(k, a) ==
    /\ Idle /\ gen < MaxGen /\ k \in Preload
    /\ "replace" \in Client \/ ~InMarket(k)
    /\ market' = [market EXCEPT ![k] = [gen |-> gen + 1, asset |-> a,
                                        composite |-> FALSE, refs |-> {}]]
    /\ gen' = gen + 1
    /\ UNCHANGED <<client, spot, engine>>

\* rq_market_clear leaves out the spread, cds and external managers.
ClearMarket ==
    /\ Idle /\ gen < MaxGen /\ "clear" \in Client
    /\ quote' = [k \in Key |-> "none"]
    /\ market' = [k \in Key |-> IF k[1] = "cds" THEN market[k] ELSE None]
    /\ spot' = {}
    /\ UNCHANGED <<config, depFn, gen, engine>>

\* rq_yield_curve_clone sets the base and spread pointers of the copy to 0.
Copy(c) == [c EXCEPT !.gen = gen + 1, !.refs = {}]

\* rq_market_clone: the client goes on with the copy.
CloneMarket ==
    /\ Idle /\ gen < MaxGen /\ "copy_market" \in Client
    /\ market' = [k \in Key |-> IF InMarket(k) THEN Copy(market[k]) ELSE None]
    /\ gen' = gen + 1
    /\ UNCHANGED <<client, spot, engine>>

\* rq_bootstrap_adapter_mgr_clone: the client goes on with the copy.
\* rq_bootstrap_adapter_clone does not set the dependency list pointer of the
\* memory it allocates: it is whatever the memory holds.
CloneAdapters ==
    /\ Idle /\ "copy_adapters" \in Client
    /\ depFn' \in [Adapter -> {"null", "wild"}]
    /\ UNCHANGED <<config, quote, market, spot, gen, engine>>

\* rq_pricing_helper.c: a curve with a configuration is requested by its method.
Request(k) ==
    /\ Idle /\ Cfg(k) # None
    /\ pc' = "call" /\ arg' = k /\ val' = 0
    /\ UNCHANGED <<client, market, spot, gen, stack, last>>
-----------------------------------------------------------------------------
\* rq_bootstrap_adapter_mgr_build, from its entry to the loop.

top == stack[Len(stack)]
Enters == pc = "call" /\ Len(stack) < MaxDepth
Unchanged == UNCHANGED <<client, market, spot, gen, last>>

ReturnFromCall(v) ==
    /\ pc' = "ret" /\ val' = v
    /\ Unchanged /\ UNCHANGED <<stack, arg>>

Halt(how) ==
    /\ pc' = how
    /\ Unchanged /\ UNCHANGED <<stack, arg, val>>

Overflow == pc = "call" /\ Len(stack) = MaxDepth /\ Halt("overflow")

Found == Enters /\ InMarket(arg) /\ ReturnFromCall(market[arg].gen)

\* rq_tree_rb_find passes the method id to strcmp.
NullMethod == Enters /\ ~InMarket(arg) /\ Cfg(arg).method = None /\ Halt("crashed")

NoAdapter ==
    /\ Enters /\ ~InMarket(arg)
    /\ Cfg(arg).method # None /\ AdapterOf(arg) \notin Adapter
    /\ ReturnFromCall(0)

\* Slip: the market is not asked first.
HasAdapter_Rebuilds == Enters /\ AdapterOf(arg) \in Adapter

HasAdapter == Enters /\ ~InMarket(arg) /\ AdapterOf(arg) \in Adapter

WildCall == HasAdapter /\ DepFn(arg) = "wild" /\ Halt("crashed")

NoDepList == HasAdapter /\ ListFails(arg) /\ ReturnFromCall(0)

EnterLoop ==
    /\ HasAdapter /\ DepFn(arg) # "wild" /\ ~ListFails(arg)
    /\ stack' = Append(stack, [key |-> arg, deps |-> DepList(arg), iter |-> 1])
    /\ pc' = "loop"
    /\ Unchanged /\ UNCHANGED <<arg, val>>
-----------------------------------------------------------------------------
\* The loop over the dependencies, and the bootstrap when it is over.

InLoop == pc = "loop" /\ top.iter <= Len(top.deps)
LoopDone == pc = "loop" /\ top.iter > Len(top.deps)

\* The activation on top of the stack returns.
Pop(v) ==
    /\ pc' = "ret" /\ arg' = top.key /\ val' = v
    /\ stack' = SubSeq(stack, 1, Len(stack) - 1)

\* Only a dependency with a configuration is built, even if the market has it.
CallDep ==
    /\ InLoop /\ Cfg(top.deps[top.iter]) # None
    /\ pc' = "call" /\ arg' = top.deps[top.iter]
    /\ Unchanged /\ UNCHANGED <<stack, val>>

DepUnknown == InLoop /\ Cfg(top.deps[top.iter]) = None /\ Pop(0) /\ Unchanged

\* Slip: the loop does not advance.
DepBuilt_SameDep ==
    /\ pc = "ret" /\ stack # <<>> /\ val # 0
    /\ pc' = "loop"
    /\ Unchanged /\ UNCHANGED <<stack, arg, val>>

DepBuilt ==
    /\ pc = "ret" /\ stack # <<>> /\ val # 0
    /\ stack' = [stack EXCEPT ![Len(stack)].iter = @ + 1]
    /\ pc' = "loop"
    /\ Unchanged /\ UNCHANGED <<arg, val>>

\* Slip: deps_built is not looked at, the loop goes on.
DepFailed_Ignored ==
    /\ pc = "ret" /\ stack # <<>> /\ val = 0
    /\ stack' = [stack EXCEPT ![Len(stack)].iter = @ + 1]
    /\ pc' = "loop"
    /\ Unchanged /\ UNCHANGED <<arg, val>>

DepFailed == pc = "ret" /\ stack # <<>> /\ val = 0 /\ Pop(0) /\ Unchanged

Bootstrap ==
    /\ LoopDone /\ ~BootstrapCrashes(top.key) /\ Bootstraps(top.key)
    /\ market' = [market EXCEPT ![top.key] = NewCurve(top.key)]
    /\ gen' = gen + 1
    /\ spot' \in Published(top.key)
    /\ Pop(gen + 1)
    /\ UNCHANGED <<client, last>>

\* Slip: NULL is not told from a curve (as rq_bootstrap_adapter_mgr_build_external).
BootstrapFails_NotNull ==
    LoopDone /\ ~BootstrapCrashes(top.key) /\ ~Bootstraps(top.key) /\ Pop(1) /\ Unchanged

BootstrapFails ==
    LoopDone /\ ~BootstrapCrashes(top.key) /\ ~Bootstraps(top.key) /\ Pop(0) /\ Unchanged

BootstrapHalts == LoopDone /\ BootstrapCrashes(top.key) /\ Halt("crashed")

\* The client has its answer in arg and val.
Answer ==
    /\ pc = "ret" /\ stack = <<>>
    /\ pc' = "idle" /\ arg' = None /\ val' = 0
    /\ last' = IF val = 0 THEN None ELSE arg
    /\ UNCHANGED <<client, market, spot, gen, stack>>
-----------------------------------------------------------------------------
Build ==
    \/ Overflow \/ Found \/ NullMethod \/ NoAdapter \/ WildCall \/ NoDepList
    \/ EnterLoop \/ CallDep \/ DepUnknown \/ DepBuilt \/ DepFailed
    \/ Bootstrap \/ BootstrapFails \/ BootstrapHalts \/ Answer

Application ==
    \/ \E o \in Offers : AddConfig(o[1], o[2])
    \/ \E r \in Rates : AddRates(r[1], r[2])
    \/ \E k \in Key : \/ \E a \in Asset \cup {None} : AddCurve(k, a)
                      \/ Request(k)
    \/ ClearMarket \/ CloneMarket \/ CloneAdapters

Next == Application \/ Build

Spec == Init /\ [][Next]_vars

\* The engine is sequential code: once called, it goes on by itself.
FairSpec == Spec /\ WF_vars(Build)
-----------------------------------------------------------------------------
\* Properties.

Frame == [key : Key, deps : Seq(Key), iter : Nat \ {0}]

\* The type invariant: in particular a frame always has a configured curve
\* with an adapter, so the engine never dereferences a NULL configuration.
TypeOK ==
    /\ config \in [Key -> Config \cup {None}]
    /\ quote \in [Key -> Quotes]
    /\ depFn \in [Adapter -> {"own", "null", "wild"}]
    /\ market \in [Key -> Curve \cup {None}]
    /\ spot \subseteq Asset
    /\ gen \in Nat
    /\ pc \in {"idle", "call", "loop", "ret"} \cup Halts
    /\ stack \in Seq(Frame)
    /\ arg \in Key \cup {None}
    /\ val \in Nat
    /\ last \in Key \cup {None}
    /\ pc \in {"call", "ret"} => arg \in Key
    /\ pc = "call" => Cfg(arg) # None
    /\ \A i \in DOMAIN stack : /\ Cfg(stack[i].key) # None
                               /\ AdapterOf(stack[i].key) \in Adapter
    /\ pc = "loop" => stack # <<>>
    /\ pc = "idle" => stack = <<>>

\* The inductive invariant.  The curve of every activation is still missing,
\* and the dependencies it is past are there; each activation waits for the
\* dependency that the next one, or the call on top, is about.  So an activation
\* whose loop is over cannot have been called, at any depth, on behalf of the
\* same curve: the outer one waits for a dependency that the inner one has.
FrameOK(f) ==
    /\ ~InMarket(f.key)
    /\ f.deps = DepList(f.key)
    /\ f.iter <= Len(f.deps) + 1
    /\ \A j \in 1..(f.iter - 1) : InMarket(f.deps[j])
Awaits(f, k) == f.iter <= Len(f.deps) /\ f.deps[f.iter] = k
StackInv ==
    /\ \A i \in 1..Len(stack) : FrameOK(stack[i])
    /\ \A i \in 1..(Len(stack) - 1) : Awaits(stack[i], stack[i+1].key)
    /\ pc \in {"call", "ret"} /\ stack # <<>> => Awaits(top, arg)
    /\ pc = "ret" /\ val # 0 => InMarket(arg)

\* A build never replaces a curve the market has: the managers free what they
\* replace, and the client and other curves hold pointers to it.  The engine
\* looks into the market long before it adds to it, and its own recursion
\* adds curves in between.
BuildKeepsCurves ==
    [][pc # "idle" => \A k \in Key : InMarket(k) => market'[k] = market[k]]_vars

\* A curve is bootstrapped only when every curve its adapter declared is in
\* the market (rq_bootstrap_dependency_list.h, "needs to have built before").
DepsFirst ==
    [][\A k \in Key : pc = "loop" /\ ~InMarket(k) /\ (InMarket(k))'
            => \A d \in DepSet(k) : InMarket(d)]_vars

\* The base and spread pointers of every composite curve of the market lead to
\* curves that are still allocated.
RefsAlive ==
    \A k \in Key : InMarket(k) =>
        \A r \in market[k].refs : InMarket(r[1]) /\ market[r[1]].gen = r[2]

\* A forward curve of a plain asset that the engine bootstrapped is never in the
\* market without the spot price of its asset, unless the asset manager does not
\* have the asset, whose curve is added without a price, or it may be an index
\* curve, whose adapter publishes nothing.  And nothing has a price that the
\* asset manager does not have.
SpotWithCurve ==
    /\ spot \subseteq Registered
    /\ \A k \in Key :
        /\ InMarket(k) /\ k[1] = "forward" /\ market[k].asset \in Registered \ Pair
        /\ k \notin Preload /\ \A o \in Offers : o[1] = k => o[2].method # "bbi"
        => market[k].asset \in spot

\* What the bootstrap of a configured curve reads, and whether its rates do.
Inputs(k) ==
    LET c == Cfg(k) IN
    CASE c.method = "composite" -> {Yield(c.id1), Yield(c.id2)}
      [] c.method = "bbi" -> {Forward(c.id1)}
      [] c.method = "crossccy" -> {Forward(c.id1), Forward(c.id2)}
      [] c.method = "cds" -> IF c.id1 = None THEN {}
                             ELSE IF Cfg(Cds(c.id1)) # None THEN {Cds(c.id1)}
                                                           ELSE {Yield(c.id1)}
      [] OTHER -> {}
AssetOf(k) == IF InMarket(k) THEN market[k].asset ELSE Cfg(k).asset
Priced(k, have) ==
    LET c == Cfg(k) IN
    CASE c.method = "simple" -> quote[k] # "none"
      [] c.method = "spread" -> Cfg(SpreadBase(k)).method # "spread"
      [] c.method = "bbi" -> quote[Forward(c.id1)] # "none"
      [] c.method = "crossccy" ->
            <<c.asset, AssetOf(Forward(c.id1)), AssetOf(Forward(c.id2))>> \in Triangle
      [] c.method = "cds" -> LET n == CdsNet(k, have)
                             IN n.given \/ (n.net /\ n.base)
      [] OTHER -> TRUE
CanBuild(k, have) ==
    /\ Cfg(k) # None /\ AdapterOf(k) \in Adapter
    /\ Cfg(k).method \in {"composite", "bbi", "crossccy"} => Cfg(k).id1 # None
    /\ Cfg(k).method \in {"composite", "crossccy"} => Cfg(k).id2 # None
    /\ \A d \in Inputs(k) : d \in have /\ Cfg(d) # None
    /\ Priced(k, have)
Buildable ==
    LET stage[n \in 0..Cardinality(Key)] ==
            IF n = 0 THEN Present
            ELSE LET have == stage[n-1]
                 IN have \cup {k \in Key : CanBuild(k, have)}
    IN stage[Cardinality(Key)]

\* The engine answers NULL only for a curve that cannot be built in any order
\* from the market, the configurations and the rates there are.
NullMeansUnbuildable ==
    pc = "ret" /\ stack = <<>> /\ val = 0 => arg \notin Buildable

\* The recursion overflows the stack only if the ids of the configurations lead
\* from some curve back to itself: some curves each name one of themselves.
Names(k, d) == Cfg(k) # None /\ d[2] \in {Cfg(k).id1, Cfg(k).id2}
OverflowMeansCycle ==
    pc = "overflow" => \E S \in (SUBSET Key) \ {{}} :
                            \A k \in S : \E d \in S : Names(k, d)

\* Configurations that the engine can work with: each has a method and, if it is
\* for a forward curve, an asset; none is for a cross, or for a cds curve over
\* another, which are made of curves that no adapter declares; and whichever of
\* them are loaded, their ids never lead from a curve back to itself.
Workable(offers) ==
    /\ \A o \in offers :
        /\ o[2].method \notin {None, "crossccy"}
        /\ o[1][1] = "forward" => o[2].asset # None
        /\ o[2].method = "cds" => \A p \in offers : p[1] # Cds(o[2].id1)
    /\ \A S \in (SUBSET Key) \ {{}} : \E k \in S :
            \A o \in offers, d \in S : o[1] = k => d[2] \notin {o[2].id1, o[2].id2}

\* The engine neither crashes nor overflows.
NoHalt == pc \notin Halts

\* Every request ends, in a curve if there is a way to one.
AnswersRight == NullMeansUnbuildable /\ NoHalt

\* The request that is being served, and what the catalogue then shows.
Served == IF pc = "idle" THEN None
          ELSE IF stack = <<>> THEN arg ELSE stack[1].key

\* The engine keeps the promise of CurveCatalogue.
Needs == [k \in Key |-> IF Cfg(k) = None \/ AdapterOf(k) \notin Adapter
                        THEN {} ELSE DepSet(k)]
Catalogue == INSTANCE CurveCatalogue WITH
    needs <- Needs, have <- Present, request <- Served, answer <- last
CatalogueSafety == Catalogue!Spec
CatalogueFair == Catalogue!FairSpec

\* Every request is answered.
RequestAnswered == pc # "idle" ~> pc = "idle"
=============================================================================
