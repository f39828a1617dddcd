# Risk Quantify: a TLA+ verification project

Risk Quantify is a C library for pricing financial products. It keeps *static
data* (assets, rate classes, calendars, the recipes of curves) in a system and
*market data* (rates, spot prices, curves) in a market, bootstraps curves on
demand, and prices trades from them. It also holds a small runtime: containers,
objects with a collector, a Lisp interpreter, streams and an
XML reader. All of it is single threaded: what is hard here is not threads but
recursion over shared tables, raw pointers into tables that free what they
replace, results cached beside their inputs, algorithms that walk an array they
are changing, and operations that fail half way.

Paths below are relative to `src/src/rq/` of the repository.

## 1. The system

| Component | State | Operations | Interacts with |
|---|---|---|---|
| Bootstrap engine (`rq_bootstrap_adapter_mgr.c`) | one tree of adapters per curve type; the C call stack | build (recursive), find, clone | configurations, adapters (callbacks), market |
| Adapters (`rq_bootstrap_adapter_*.c`) and bootstrap functions (`rq_bootstrap_*curve*.c`) | a curve while it is made | declare dependencies, make a curve, publish spot prices and exchange rates | configurations, rates, market |
| Pricing helper (`rq_pricing_helper.c`) with requirements, mappings and cache (`rq_market_requirements.c`, `rq_termstruct_mapping*.c`, `rq_termstruct_cache.c`) | mappings; per trade its needs and a cache of pointers | value a trade | engine, market, pricing adapters |
| Market (`rq_market.c`, `rq_*_mgr.c`) | managers of rates, spot prices, exchange rates and of every kind of curve | get, clear, clone, move through time | everything |
| Exchange rates (`rq_exchange_rate_mgr.c`) | tree of rates, list of cross currencies, cached implied rates | add, get (imply through cross currencies) | assets, forward curves |
| Yield curves (`rq_yield_curve.c`) | sorted growing tables, factors, a cache of discount factors, pointers of composite curves | set, remove, ask, clone | market, engine, flows |
| Other curves and calendars (`rq_forward_curve.c`, `rq_vol_curve.c`, `rq_calendar.c`, ...) | sorted growing tables | add, look up, clone | market, engine, flows |
| Dates (`rq_date.c`, `rq_term.c`, `rq_day_count.c`, `rq_date_roll.c`) | none | date arithmetic, year fractions, adjust, offset, roll, make schedules | calendars; curves and flows |
| Floating flows (`rq_floating_flow*.c`) | per flow its rate, status and the date it was observed | value, fix, set, revert, clone | yield curves |
| Red-black tree (`rq_tree_rb.c`) | nodes with parent pointers, size | add (replaces), remove, find, iterate, clone | every manager is one |
| Other containers (`rq_hashtable.c`, `rq_set_rb.c`, `rq_vector.c`, `rq_array*.c`, `rq_*linked_list.c`) | their memory | insert, erase, iterate | everything |
| Registries (`rq_asset_mgr.c`, `rq_rate_class_mgr.c`, `rq_pricing_engine.c`) | trees over records they own | add, find, clear | tree; engine and helper |
| Objects (`rq_object.c`) and interpreter (`rq_interpreter*.c`) | pool of objects, collector's tags, stack of symbol tables, the error | allocate, copy, set, collect; parse, evaluate, print | lists |
| Streams, XML, stores (`rq_stream*.c`, `rq_xml_*.c`, `rq_data_store_fs.c`) | buffers, open files, directories | read, write, save, load | system |
| Formulas, records, applications | none, or plain fields | | |

Hard behaviours, and what makes each component correct:

- **Engine.** It asks the market for a curve, recurses into the dependencies,
  which add curves of their own, and then adds to the market without asking
  again. Correct means: it replaces nothing that is there, a curve comes after
  what it declares, NULL is answered only if nothing could have been built, and
  every request comes back.
- **Pricing helper.** It keeps raw pointers to curves while the engine goes on
  building. Correct: when the trade is priced they all are alive, and pricing
  again finds the same.
- **Market.** Composite curves keep raw pointers into a manager that frees what
  it replaces or clears. Correct: no pointer outlives its curve.
- **Stripping a curve.** Instruments are priced off the curve that is being
  made. Correct: nothing that comes later changes what an earlier one read.
- **Yield curves.** A cache that nothing clears, composites that answer from two
  curves that may change. Correct: answers are those of the table, asking
  changes nothing.
- **Exchange rates.** Implied rates are cached in both directions beside the
  rates they come from, and the search through cross currencies recurses.
- **Dates.** Loops that turn round, skip and step back. Correct: they end, at
  the date that the words of the convention say.
- **Flows.** A rate is fixed once, on its day or later by interpolation.
- **Trees and containers.** Rebalancing with NULL leaves by hand, rehashing and
  growing under an insertion. Correct: a map, a set, a sequence.
- **Registries.** Two trees share records and their strings, and one frees.
- **Objects.** Aliasing between bindings, programs and results; calls that fail
  with scopes open; a collector that walks a list it erases from.
- **Stores.** Saving deletes every file before it writes the first.

The list of hazards, each at its line and with the properties that cover it, is
in `PROJECT.json`; where the code does what the hazard says, its note says what the
property leaves out for it and what it still catches.

## 2. The modules

| Module | Models | Lines of code it stands for |
|---|---|---|
| `CurveBuilder` | the engine, adapters, configurations, and the market as they use it | `rq_bootstrap_adapter*.c`, `rq_bootstrap_*`, `rq_market.c` |
| `CurveCatalogue` | abstract: what the engine promises | |
| `TradePricing` | the helper over `CurveBuilder`, step by step with it | `rq_pricing_helper.c`, `rq_market_requirements.c`, `rq_termstruct_*.c` |
| `DiscountTable` | the table of a yield curve as operators | `rq_yield_curve.c` |
| `YieldCurve` | yield curves with composites, factors and caches | `rq_yield_curve.c` |
| `CurveStrip` | the four builders of yield curves, over `DiscountTable` | `rq_bootstrap_yield_curve*.c` |
| `ExchangeRates` | the exchange rate manager with forward curves | `rq_exchange_rate_mgr.c` |
| `DateTables` | the tables of six kinds of curves and of calendars | `rq_*_curve.c`, `rq_calendar.c` |
| `VolSurface` | surfaces of volatility curves, over `DateTables` | `rq_vol_surface.c`, `rq_ir_vol_surface.c`, `rq_bootstrap_*vol_surface*.c` |
| `JulianDate`, `DayCount` | date arithmetic, terms and year fractions as operators | `rq_date*.c`, `rq_term.c`, `rq_day_count.c` |
| `DateRoll` | adjusting, offsetting, rolling, schedules, loop by loop | `rq_date_roll.c` |
| `FloatingFlow` | flows whose rate is fixed off a curve, and their list | `rq_floating_flow*.c` |
| `TreeRB`, abstract `OrderedMap` | the red-black tree | `rq_tree_rb.c` |
| `HashTable`, `StringSet`, `PagedArray`, `ArrayList`, `LinkedList` | the other containers | `rq_hashtable.c`, `rq_set_rb.c`, `rq_vector.c`, `rq_array*.c`, `rq_*linked_list.c` |
| `Registries` | two managers of two trees, the pricing engine's tree | `rq_asset_mgr.c`, `rq_rate_class_mgr.c`, `rq_pricing_engine.c` |
| `ObjectHeap`, `Interpreter` | objects, scopes, collector; evaluation | `rq_object.c`, `rq_interpreter*.c` |
| `XmlReader` | the XML parser over its buffer, and the tree made of what it tells | `rq_xml_parser*.c`, `rq_dom_parser.c`, `rq_xml_node.c` |
| `StringStream` | streams in memory | `rq_stream_string.c`, `rq_stream.c` |
| `DataStore` | calendars saved as files, a save that is cut short | `rq_data_store_fs.c` |
| `MC...` | instances for TLC (`MCTexts` has the programs and documents, `MCSurfaces` the tables and surfaces) | |
| `...Proofs` | theorems: `CurveBuilderProofs` those of `TradePricing` too, `ContainersProofs` those of `Registries`, `YieldCurveProofs` those of `CurveStrip` | |
| `Induction` | the least number, and what recursive functions and iterations need of it, for the proofs | |

Operators called `X_Y` beside an operator `X` ("Slip: ...") are mistakes that X
could have been written with. No specification uses them; each property is known
to fail with one of them in place of X.

Modules are composed in three ways. `TradePricing` EXTENDS `CurveBuilder` and
interleaves its steps with the engine's. `CurveStrip` and `YieldCurve` are two
users of `DiscountTable`, as the builders and the curve are of the same array.
`Interpreter` is evaluation over `ObjectHeap`'s memory. And components that do not
interact share an MC module, which gives each of its behaviours to one of them
(`using`): one run then asks the same question of several. A surface is a third
kind of composition: `VolSurface` EXTENDS `DateTables`, whose insertion and lookup
are those of each of its curves.

### `CurveBuilder`

`rq_bootstrap_adapter_mgr_build` is recursive, so the model keeps its call stack:
a frame of `stack` is one activation that has its dependency list (`deps`) and
is in the loop at `dep_iter` (`iter`, from 1). `pc` says where the activation on
top is: a call is entered (`"call"`, curve in `arg`), in the loop (`"loop"`), or
a call has returned (`"ret"`, result in `val`: the generation of the curve object,
0 for NULL). `"crashed"` and `"overflow"` are the ends of a program that
dereferenced NULL or ran out of C stack.

| Model | Code |
|---|---|
| `config`, `AddConfig` | `rq_bootstrap_config_mgr_add` |
| `quote`, `AddRates` | the rates of a configuration in `rq_rate_mgr`: none, spreads, or (cds) survival rates |
| `depFn` | `get_bootstrap_dependency_list` of each adapter: its own, NULL, or unwritten memory after `rq_bootstrap_adapter_clone` |
| `market`, `gen` | the curve managers; each curve object has a generation, so a raw pointer is a key and a generation (`refs`) |
| `spot`, `Published` | spot prices and exchange rates that forward adapters publish, if their asset is `Registered` with the asset manager |
| `Request`, `Answer` | a client's call (in `TradePricing`, the helper's) |
| `Found` ... `EnterLoop` | the function up to its loop |
| `CallDep`, `DepUnknown`, `DepBuilt`, `DepFailed` | the loop |
| `Bootstrap`, `BootstrapFails`, `BootstrapHalts` | `rq_bootstrap_adapter_build` |
| `DepList`, `ListFails` | the adapters' dependency functions |
| `Bootstraps`, `Crosses`, `CdsNet`, `SpreadBase`, ... | the bootstrap functions: when they find what they read |
| `ClearMarket`, `CloneMarket`, `CloneAdapters`, `AddCurve` | what an application does between requests |

A curve is its type and id. Three types stand for the twelve of
`enum rq_termstruct_type`: yield curves (leaf, spread, composite), forward
curves (leaf, index, cross currency) and cds curves (layered), which is every
adapter that declares dependencies or reads other curves. The types left out
have only leaf adapters. Rates, dates and numbers are abstracted to whether the
bootstrap finds what it reads.

`CurveCatalogue` is the abstract specification: a set of curves that grows while
a request is served, each after what it needs, and an answer that is in the set
or nothing. `CurveBuilder` refines it with `have <- Present`, `needs <- Needs`,
`request <- Served` (the key at the bottom of the stack) and `answer <- last`.

### `TradePricing`

`rq_pricing_helper_value_trade`: `needs` is what the pricing adapter requires, in
the order in which the helper goes through the types; `at` is the need it is at;
`cache` has, for a need, the curve's key and generation, that is a raw pointer.
`Prepare` and `PassOver` are the loop up to the call, `AskEngine` the call,
`EngineStep` any step of `CurveBuilder` that is part of a build, `Keep` what follows
the return, `CallAdapter` and `Price` the pricing itself. Between trades the
application does what it may do to the engine's data.

### `DiscountTable`, `YieldCurve`

`Search` is `rq_yield_curve_lower_bound`, its loop as a recursive function that
says when it leaves the array; `Put` is the insertion; `Weights` and what is around
them say from which entries an answer is drawn. A curve is a record with its
table, the memory it has (`max`), its factors, what it is composed of and its
cache. A factor is told by its zero rate, a whole number of a unit that is small
enough for every quotient; all curves interpolate linearly on zero rates, so that
`discount factor -> rate -> discount factor` changes nothing and the sum of rates
stands for the product of factors. `told` is history: what each curve was last
told of each day; `stale` the curves that were altered, or stand on one that was,
after their cache was turned on.

| Model | Code |
|---|---|
| `New`, `Clone`, `Free` | `rq_yield_curve_build`, `_clone` (which drops the curves of a composite), `_free` |
| `SetDiscountFactor`, `RemoveElementRange` | the same |
| `SetComposite`, `SetFactors`, `CacheEnable` | the setters |
| `GetDiscountFactor`, `AfterGet` | `rq_yield_curve_get_discount_factor` with what it leaves in the caches |

### `CurveStrip`

A behaviour is the bootstrap of one configuration: `up` is the rate the loop is
at, `points` the curve so far, `seen` the local variables about the previous rate, and
`taken` what each instrument was stripped with. The entry that an instrument puts on
a day has for its value `<<instrument, day>>`, and what an instrument read is told
by the entries it was read from: so a factor that changes after it was used
shows, and the arithmetic does not matter. `implied` are the par rates that were
drawn between two others, `knots` the days of the last spline of par rates, `added`
the spread that each rate got.

| Model | Code |
|---|---|
| `SkipRate`, `TakeRate`, `RatesDone`, `Return` | the loop over rates of all four builders; a rate without an asset gives no point and is the rate before the next all the same |
| `TakeSwap`, `PutOffSwap`, `Filled`, `SwapTook` | `processSwapsDCF`; swaps kept for the end |
| `SplineSwap`, `ReachedKnots`, `EndIsKnot`, `Knots` | the par rate splines of `rq_bootstrap_yield_curve_day_count.c` |
| `CubicSpline` | `rq_bootstrap_yield_curve_cubic_spline.c` |
| `NetSpreads` | the layers of `rq_bootstrap_yield_curve_spread.c` |

`StripsRight` is about configurations that are `Orderly`, as all of the run's are
(`OrderlyConfigs`). For others the code does otherwise: with two swaps, one of them of
a single period, `rq_generate_swap_splines` reads dates behind those it was given
(`rq_bootstrap_yield_curve_day_count.c:191`), and a swap that pays on other dates may
leave a shorter one's end out of the knots (`SwapsMeet`); a spread curve's strip future
goes on from the asset and rate before it, whatever they are of (`FuturesTogether`,
section 6); and spreads that do not come in the order of their days are not searched
rightly (`SpreadsAscend`). Of a par rate or future that goes on from a rate without an
asset (`Bereft`) it says nothing: the code reads the day of that one with the factor of
another (section 6). From any other rate, the property says, it goes on with the factor
which that rate gave.

### `ExchangeRates`

`rates` is the tree of rates of one `rq_exchange_rate_mgr`, `crosses` its list of
currencies to cross through, `curve` what the market's forward curves have for
each currency pair, `pc` whether the C stack has overflowed. A rate is its
logarithm, an integer, so that a product is a sum and the inverse the negative;
the curves of one date agree with each other (`Worth`), so that there is a true
rate to compare with. A read that changes nothing is an operator: `Get` is
`rq_exchange_rate_mgr_get` (with the recursion through the list's first usable
currency), `Lookup` is `lookup_exchange_rate` over the curves.

| Model | Code |
|---|---|
| `BothRates` | what `rq_exchange_rate_mgr_get_or_imply` and the adapters store: a rate and its inverse |
| `BootstrapCurve` | a forward adapter that makes a curve and publishes its spot rate |
| `AddCurve` | `rq_forward_curve_mgr_add` by a client |
| `GetOrImply` | `rq_exchange_rate_mgr_get_or_imply` |
| `AddCrosses`, `Clear` | `rq_exchange_rate_mgr_add_cross_thru_ccy_codes`, `rq_exchange_rate_mgr_clear` |
| `GetOverflows` | `rq_exchange_rate_mgr_get` when it calls itself for ever |

### `DateTables`

A behaviour is the life of one table, of one of seven kinds. `table` is the
sequence of its entries, `cap` the number of entries it has memory for, `bounds`
the two cached positions of an equity curve, `ask` the last call. An insertion or
lookup that bisects takes one step per iteration, with its bounds in `lo` and
`hi`; positions count from 1, where the calendar's code counts from 0 and starts
below. The three curves whose insertion is the same code, written three times,
share `PutInOrder`. What is read is not a number but the set of the entries it is
computed from, so that a read of the wrong entries shows and the interpolation
formula does not matter; a read is an operator, as it changes nothing.

| Model | Code |
|---|---|
| `SetForwardRate`, `SetSpread`, `SetSurvivalRate` | `rq_forward_curve_set_rate`, `rq_spread_curve_set_spread`, `rq_cds_curve_set_survival_rate` |
| `AddVolAtEnd`, `AddVol`, `VolHalve`, `VolInsert` | `rq_vol_curve_add`: its simple cases, its bisection and what follows it |
| `AddFirstEvent`, `AddEvent`, `EventHalve`, `EventInsert` | `rq_calendar_add_event` with `rq_calendar_find_date_event` |
| `GetEventMask`, `EventHalve`, `EventNotFound` | `rq_calendar_get_event_mask`, `rq_calendar_is_holiday` |
| `SetPrice`, `AddToDividendYield`, `FindDateBounds` | `rq_future_curve_set_price`, and the dividend yields of `rq_equity_curve.c` |
| `CloneFitted`, `CloneWhole`, `CloneEquityCurve` | the copies, with which the behaviour goes on |
| `UpTo`, `Around`, `Exact`, `GetDividendYield` | the lookups |

### `VolSurface`

`rows` are the deltas, strikes or tenors in order, each with the curve it points to;
`curves` all that were made and `dead` those that were freed, so that two rows with
one curve, or a row with a freed one, show. A call is one step; the bisection in a
curve is `DateTables`' own, run to its end (`Halved`). The two files are one module
with the flag `rates`, since they differ only in what a lookup does between two rows
and which rates a bootstrap takes.

| Model | Code |
|---|---|
| `SetVolatility`, `WithVol` | `rq_vol_surface_set_volatility`, `rq_ir_vol_surface_set_volatility` |
| `AddNew`, `AddSame`, `PutRow` | `..._add`, of a new curve or of one that the surface has |
| `SurfaceVolatility`, `Between` | `..._get_volatility` |
| `Bootstrap` | `rq_bootstrap_vol_surface_simple.c`, `rq_bootstrap_ir_vol_surface.c` |
| `CloneSurface`, `FreeSurface` | `..._clone`, `..._free` |

### `JulianDate`, `DayCount`, `DateRoll`

A date is its Julian day number, a term its days, weeks, months and years, of
either sign; the definitions follow the code's integer formulas, truncating
division included. `YearFraction` and `Parts` are the two computations of
`rq_day_count.c`, each from its own function. In `DateRoll` a behaviour is one
call: `Call` starts it, `NextDate` and `OffsetRest` begin what the loops do once
more, and `Loop` has the iterations of `rq_date_roll_adjust_date` and of the
offset, which the schedule's loops use (`then` says for what).

### `FloatingFlow`

`list` is a leg of flows, each a record with the fields of the code that decide
(`status`, `observed`, `fixing`, the rate, strikes, spreads and dates); `curve` is
the day's curve, `realized` what the days that are gone brought. A curve says how
much one unit grows on each day ahead, and `Year` is a multiple of every period,
so that all rates are whole. `Value` is
`rq_floating_flow_set_floating_rate_from_curve_and_historic` with the rate sets it
calls; `Retype`, `SetByHand`, `SetStrike`, `SetSpread`, `SetPayment` the setters;
`Revert`, `InvertPayReceive` and `CloneFrom` the list's. `NextDay` is the client's
time.

### `TreeRB`

`rq_tree_rb_add` and `rq_tree_rb_remove` are one step up to the loop that
rebalances, and one step for each iteration of it: `pc` says whose loop it is
and `cur` is the code's `n` or `x`. The tree is one record of functions over the
nodes, which are the memory: an addition takes any node that is not `used`. The
NULL leaves of the code are `Nil`, and an iteration that would follow one is
`RemoveCrash`. The code writes each case twice, mirrored; the model takes the side
for a parameter (`child[s]`, `Other(s)`). It has larger keys on the left, as the
code has, whose comparison is called the other way round. `OrderedMap` is the
abstract specification, a function from keys to data, which `TreeRB` refines with
`store[k]` the data that `Find` comes to.

| Model | Code |
|---|---|
| `Find`, `Toward`, `Descent` | `rq_tree_rb_find`, and the walk of `rq_tree_rb_add` |
| `AddFirst`, `Add`, `Replace` | `rq_tree_rb_add` up to its loop; a key that is there |
| `Flip`, `TurnAtBlackUncle`, `TurnWithoutUncle`, `AddDone` | the iterations of its loop: red uncle, black uncle, no uncle; its end |
| `Remove` (`GivesWay`, `Unlink`, `Bypass`) | `rq_tree_rb_remove` up to its rebalancing |
| `MoveUp`, `TurnSibling`, `RemoveCrash`, `RemoveDone` | the iterations and the end of its loop |
| `Rotate` | `left_rotate`, `right_rotate` |
| `End`, `Above`, `Step` | the iterators and `rq_tree_rb_next` |
| `Clear` | `rq_tree_rb_clear` |

### The other containers

Each has the memory of the code and a history variable of what it was given:
`HashTable` the chains of every bin and the rehash in the order of
`rq_hashtable_foreach`; `StringSet` the nodes and, a step at a time, the walk of
`rq_set_rb_add` with the comparisons it remembers; `PagedArray` blocks and pages,
of the vector that sets and of the partitioned array that appends; `ArrayList` the
elements with the memory behind them (`Junk`) and the iterator's position;
`LinkedList` links, head, tail and count of both lists.

### `Registries`

`records` are all records that were made, in order, with whether they live;
`byId` and `byType` the two kinds of trees of a manager. A tree is a map here (the
rest is `TreeRB`'s), but a walk in it compares the strings of the keys, and those
belong to records: `ReadsFreed` says when a walk may read a freed one. The pricing
engine's tree keeps its shape (`nodes`, by their path from the head), since it is
a tree of its own without balancing.

### `ObjectHeap`, `Interpreter`

An address is a place in the heap; a call is an operator from one memory to the
next, with the object it returns (`rq_object_*`, `rq_symbol_table_*`). A failed
assertion, a NULL or wild pointer and the use of a freed node halt the memory.
`Parse`, `Run`, `Show` and `Collect` are what a client does; evaluation follows
`rq_interpreter_evaluate` with its special forms and built in functions, so that
what it does before it fails shows in the next state.

### `XmlReader`, `StringStream`, `DataStore`

`rq_xml_parser_parse` reads a character at a time through a buffer that is filled
again when it is used up (`Fill`); each of the lexer's states is an operator
(`TopLevel` to `ShortCut`, chosen by `Eat`), the tokens are the stack `open`, and
`Deliver` hands the events to the tree (`Entered`, `Told`). `Find` and
`FindAttribute` are the paths of `rq_xml_node.c`. `StringStream` has the memory
(`buffer`) and a history of what a file would hold (`content`). `DataStore` has the
system's calendars, the disk (`made`, `files`), and a save a file at a time
(`Unlink`, `OpenFile`, `WriteFile`), between any two of which the program may end
and start again (`Restart`).

## 3. Runs

| Run | Asks |
|---|---|
| `curve_engine` | Yield curves, or index, forward and cds curves, without cycles, with clears: builds keep what is there (`BuildKeepsCurves`), a curve comes after what it declares (`DepsFirst`), pointers stay alive (`RefsAlive`), NULL only for what no order could build, and no halt (`AnswersRight`), spot prices come with their curve, but for index curves, which publish none, and assets that are not registered (`SpotWithCurve`); the catalogue, with its liveness, is refined (`CatalogueFair`) |
| `pricing` | Trades over cyclic or crossed configurations, by an application that replaces curves and copies markets and adapters in between: what is cached is alive and is what the market had (`PricedFromMarket`), pricing again finds the same, and more only for curves made of what they do not declare (`Repeatable`), overflow only over a cycle (`OverflowMeansCycle`), still the catalogue's safety (`CatalogueSafety`) |
| `pricing_request` | **violated**: the request that a trade is priced with carries the curves built for it |
| `yield` | Three curves set, altered, copied, freed and asked in any order: answers (`AnswersTrue`), tables (`TablesKept`), asking changes nothing (`AskingIsQuiet`). In other behaviours a curve is stripped from up to five instruments by each builder: what they were stripped with stays and is what the rate before gave, knots rise, layers of spreads add up (`StripsRight`) |
| `exchange_rates` | Rates published, implied, crossed and cleared: what is stored is true of a date and has its inverse (`StoredRight`), crossing keeps to one date and why it may not return (`AnsweredRight`), what can be answered stays so (`KeepsAnswers`) |
| `tables` | Every kind of table filled in any order, copied and read: order, memory, searches (`TableOK`), the last value is read and reads use the closest dates, in tables and in surfaces, which own their curves (`AnswersNearest`), lookups (`LooksUpRight`), no other date is lost (`NothingLost`), searches end (`SearchEnds`) |
| `tables_vol` | **violated**: a volatility that is set again for the last date of a curve is read |
| `dates` | Some 1,800 calls: dates are rolled as the words of the conventions say (`RollsRight`), schedules have the dates they should, and days are counted as the calendar does (`ScheduleRight`), both computations of a year fraction agree and add up by days (`FractionsRight`), calls return (`Returns`) |
| `flows` | One flow of every kind, two curves a day: fixed once (`FixedOnce`) and rightly (`FixingsRight`), in the end always (`EventuallyFixed`), a collar clamps (`Collared`) |
| `tree` | Seven keys added, replaced, removed and cleared: links, loops and size at every step of a rebalancing (`WellLinked`), iteration (`NeighboursInOrder`), the map is refined (`MapRefined`) |
| `containers` | Each container at sizes at which it grows more than once, and the registries: what was put is found (`ItemsFound`), arrays hold their elements and write inside their memory (`ArrayHolds`), links are those of the order (`LinksKept`) |
| `interp` | Programs parsed and evaluated in any order: variables stay apart and what is set is read (`VariablesRight`), failed calls leave one block and no text is rewritten (`EvaluationsClean`), and each way to halt has one of the listed causes (`Sane`). In other behaviours an XML document, written in several ways or cut off at any place, is read through buffers of several sizes, a stream is written and read, and a store is saved, cut short and opened again (`ReadsBack`) |

Bounds. *Engine and pricing:* `MaxDepth` is the number of nested activations that
overflow the C stack: 5 is more than the longest chain of dependencies of the
acyclic worlds (`d` over `c` over `b` over `a`), so there overflow means a cycle;
the cyclic world reaches it. `MaxGen` stops clears, copies and added curves (not
builds) after that many objects, so every world sees a clear before, between and
after builds. Two to four ids are enough for a curve over a curve over a curve, two
curves sharing a dependency, and a cycle of two. A trade has up to three needs, so
that a curve is cached, then needed by another build, then replaced or not; one
mapping may change between trades.

*Yield curves:* three curves are a composite with both parts, or a curve and two
copies; three calls after the first tables were set (`MaxSteps`) are to fill the
cache, alter, and ask again; days 2 and 4 lie inside and behind a cache of four.
The memory for one entry at first makes every table grow. *Stripping:* a quarter
is a day; three instruments in every order, five in the order of their ends, out
of ten that meet, overlap, leave gaps or have no rate; three par rates or futures in a row of which
one has a rate and no asset; up to three layers of spreads.

*Rates:* `MaxCrosses = 2` is the fewest for a rate crossed twice and for a lookup
that does not return. `MaxRates = 5` stops publishing and implying, never reading.
Two dates are needed for rates that do not agree. *Tables:* memory for two entries
makes every table grow twice on its way to `MaxSize = 5`; five entries give the
bisections three iterations, and an even and an odd middle.

*Dates:* the calls are around ends of months, 29 February, a month without a good
day, two calendars at once, the first and last cached year, February 1900, stubs on either side, and an array that is too small. The offset gives
up after `OffsetCap` days instead of 368; holidays are never as many. *Flows:* four
days are before, on and after the fixing date; the curves know nine; two edits
(`MaxEdits`) are enough to set a strike and revert, or to set up a flow anew.

*Tree:* seven nodes are the fewest for which an addition turns an inner grandchild
the wrong way twice, five for a removal that crashes; both removal iterations, with
and without a red sibling, happen within seven. The keys have two data between them,
and one key is replaced. *Containers:* table sizes 2, 3 and 5 and pages of two stand
for the code's; seven keys with colliding hashes rehash twice; seven words of
two letters, which `strcmp` tells apart by different numbers (`MCStrcmp`), reach each turn
of the set, those of outer grandchildren too. *Registries:* five records of two ids and two types; four
products in every order. *Interpreter:* four forms and four evaluations of programs
of up to three forms: define, call, call wrongly, redefine, and collect.

*Surfaces:* three keys and two dates, so that a lookup falls on, between and outside
of rows; four changes set, add, copy and bootstrap; room for three rows. *Documents:*
nested elements, repeated tags, attributes with and without values and texts behind a
child, written plainly, with blanks, with comments and with short cuts; one document
cut off at each of its characters; buffers of one, two, three characters and one that
holds all. *Streams:* memory of three that grows by two, seven characters, chunks up to
three. *Stores:* two calendars and an id that is no file name; a restart at any step.

Where the state spaces would repeat themselves, MC modules fix what no property
tells apart: `MCTreeRB` views nodes by their keys, `MCYieldCurve` starts with
tables that are already filled, the application of `MCTradePricing` copies adapters
in the world with cycles only.

`CHECK_DEADLOCK FALSE` is said only where the program may crash or overflow, where
a behaviour is one call that ends, or where a bound ends it.

## 4. Fairness

The engine's `EngineSpec` assumes `WF_vars(Build)` for the builds, and the tables'
`FairSpec` `WF_vars(Search)` for bisections: sequential code that goes on by itself
once it is called. `DateRoll` says the same of the loops of one call. The
application is never fair where it only may call: it may stop asking for curves.
`FloatingFlow`'s `FairSpec` is different, it is about the client: `EventuallyFixed`
is what holds *if* days go by and the client goes on valuing its flows, which is
what the fixing code is written for. The tree has no liveness property: that a
rebalancing ends is the crash's opposite, and is not true. Containers and the
interpreter do a call in a step, or a few that are bounded.

## 5. Proofs

For every value of the constants that satisfies the modules' assumptions (a
theorem's further hypotheses are said here with it):

**`CurveBuilderProofs`, the engine** (`TypeCorrect`, `ChainOfCalls`, `KeepsCurves`,
`DepsAreFirst`, `Refinement`, `PointersAlive`). That a build replaces nothing is
not inductive: when `Bootstrap` adds the curve, the check that it was missing lies
before any number of nested builds. `StackInv` closes the gap: every activation's
curve is still missing, the dependencies behind its loop are in the market, and it
waits for the dependency which the activation above it makes. The one hard case is
`Bootstrap` (`TopOnce`, `BootstrapInv`): adding the curve on top must not
invalidate "still missing" for an activation below. If one below were for the same
curve, it would have the same dependencies, and would wait for one of them; but
the one on top is past all of them, so that one would be in the market, while the
invariant says that what an activation waits for is missing. `PointersAlive` needs
one more conjunct, that cds curves have no pointers, because `rq_market_clear`
keeps them and drops the rest; it supposes that the application replaces no curve.

`CyclesOverflow` is `OverflowMeansCycle` for a stack that holds an activation for
each id (`MaxDepth >= Cardinality(Id)`). Two activations are of one id then, by the
pigeonhole principle, and what lies between them is a path of declared dependencies
from that id to itself, since every activation waits for the next.
`SpotPublished` is `SpotWithCurve`, for any set of registered assets: besides the
invariant it takes what an adapter published and that clears and copies drop or keep both
managers' parts together.
`NullIsFinal` is the part of `AnswersRight` that is about NULL: with finitely many
ids, a request that ends without a curve was for one that no order of building
makes, if all that it is made of is declared (`AllDeclared`). A returning NULL is
`Stuck`: for a curve without configuration, adapter or rates, or one that depends
on a stuck one, and this is kept down the stack. What may be built without being
declared (crosses, layered credit curves, copied adapters) is in nobody's order.
`EveryRequestAnswered` is all of `AnswersRight`, if the configurations are `Workable`
(each has its method and asset, none is made of curves it does not declare, and no ids
lead in a circle), the stack holds an activation for each id, and adapters are not
copied. Then nothing that the code dereferences or calls is missing (`Loaded`: only
offered configurations are there, and every adapter has its own list), all is declared,
so that NULL is final, and an overflow, which needs a circle, cannot be.

**`CurveBuilderProofs`, pricing** (`Pricing`, `MarketPrices`, `PricesAgain`):
`PricedFromMarket` rests on the engine's own invariant. While the engine works for a
need, everything in the cache is alive, the needs that were passed have the curves
they had before the trade came, and the curve at the bottom of the stack is that of
the need the helper is at; a build only adds (`KeepsCurves`). `PricesAgain` is
`Repeatable`, for finitely many ids: a need that the first pricing passed is either
in the market or has a curve that is stuck or not all declared (`DoneOrMissing`,
`FoundOrMissing`), and neither changes while nothing but builds happens.

**`YieldCurveProofs`** (`Invariance`, `KeepsTables`, `AskingChangesNothing`,
`AnswersAreTrue`). *Tables* (`TablesKept`): the table of a
living curve has rows in order that say what the curve was told, in an array with
room; what was never set, or freed, says nothing. One lemma each for what an insertion, a
replacement and a removal do to rows in order (`InsertedKeeps`, `ReplacedKeeps`,
`RemoveKeeps`), and the place of an insertion is the first row behind the day.
*Asking* (`AskingIsQuiet`): what asking leaves in a cache is what the same question
would be answered (`Rated`, `Sound`), and an answer depends on nothing but the curves
it reaches, so no question's answer changes, in a cache that went stale or not.
*Answers* (`AnswersTrue`): the code's bisection finds the place of the day (`Place`;
the halving ends by recursion on what is left), what it draws there in each of its
branches is what the reference draws through the told points (`TableDraws`), and a
composite adds up its parts (`PartsTrue`). `CInv` relates the caches to the curves as
they are (`CacheTrue`) for all curves but the `stale` ones, the pointers to their
owners (`Owned`) and the order in which they stand on each other (`Well`), which is
what lets an answer be defined by recursion at all. An alteration makes those stale
that reach the altered curve through some path (`ReachLocal`), and no other answer
moves (`TrueLocal`). `None` and `NaN` are constants outside of the integers: with
integers in their place the theorem is false.

**`YieldCurveProofs`, stripping** (`StripKeepsPrices`): `StripsRight`, for any list of
instruments and layers, if every configuration is `Orderly` (`CurveStrip` above). What an
instrument read stays as long as what comes later is put behind it: an entry behind the
last day leaves every answer that was not a guess past the end (`PutTells`), and what a
swap fills in before its own end is behind the curve too (`FilledIsRight`). `StripInv`
has besides what the next instrument goes by: the last par rate and the last future are
those whose factor is kept in a local (`LastPar`, `LastFuture`), every rate so far ends
within the curve (`CurveReaches`), and a rate is implied between one that lies within and
one behind (`ImpliedBetween`). *Knots:* those the curve reaches are payment dates, and so
many of them that none is read from behind the dates (`ReachedIs`, which needs
`SwapsMeet`); the ends that are appended rise, and one that is left out is a payment date
that was a knot already (`KnotsGoOn`, `KnotsAre`). *Spreads:* with common days the net
spread at an index is the sum over the layers (`NetSums`), and the first spread not before
a day is that day's (`SpreadIsSum`). There is one lemma per action for what it keeps.

**`ExchangeRatesProofs`** (`RatesStored`, `AnswersTrue`, `AnswersKept`): all three
properties of the run. `StoredRight` needs that reading is right, and reading calls
itself through the list of currencies: `Levels` orders the routes by how many of
their currencies are on the list, `Places` the recursion over the curves likewise,
and by both `Get` and `Lookup` answer the true rate of the date of the rates they are
drawn from (`GetTrue`, `LookupTrue`). `AnsweredRight` adds when the recursion does not
return: only if two currencies are on the list (`Returns`). `KeepsAnswers`: a route
that can be answered keeps the first currency through which it can, or gets one
earlier in the list, until the manager is cleared (`StillFirst`, `MoreAnswers`).

**`FloatingFlowProofs`** (`Sound`, `CollaredTheorem`, `FixedOnceTheorem`): no rate is
observed later than its fixing date and all numbers stay whole. `Collared` follows by cases over cap, floor and the sign of the multiplier.
The growth over a period is a recursion over days, of which the lemma `GrownType`
only says that its numbers stay whole.

**`TreeRBProofs`** (`TypeCorrect`, `Size`, `Links`, `Loops`, `KeptLinked`,
`Invariance`, `Ordered`, `FindTrue`, `IsMap`): all three properties of the run, for
trees of any finite number of nodes and at every step of a rebalancing.
*Links* (`WellLinked`): the invariant says nothing of colours, so that a rotation is
correct for any node that has the child which comes up. There is one lemma for what a
rotation does (`RotateGood`), one for what unlinking does (`UnlinkGood`), one per
action that shows the rotation is asked of such a node (with the NULL test of
`RemoveCrash` where the sibling's child is what comes up), and the counting is done
once. That a rotation makes no loop is shown on sets: a set of nodes that is closed
under taking the parent and has no head would have been one before the rotation too.
*Order*: each node has a range of keys, what its ancestors leave it, and lies inside
of it (`Sorted`). A rotation changes two ranges, and an unlinking, which may move a
key to another node, those between the two; an addition goes down to the one NULL
leaf whose range has the key. The walks of the code end within as many steps as there
are nodes, or two of them would be at one node (`WalkDown`, `WalkUp`). From that
follow `FindTrue`, the iterators (`AboveTrue`, `StepTrue`, `NeighboursInOrder`), and
the refinement of `OrderedMap` (`StoreIs`, `OneKey`, `RebalanceKeeps`): the steps that
rebalance leave the map alone, and each operation changes it at its key only. That the
tree is balanced is neither proved nor true (section 6).

**`DateTablesProofs`** (`KeptSorted`, `WithinMemory`, `Bisection`, `LooksUp`,
`TypeCorrect`, `TablesKept`, `Invariance`, `OthersStay`, `ReadsAreRight`,
`SurfaceInvariance`, `NearestAnswered`): `TableOK`, `LooksUpRight`, `NothingLost` and
`AnswersNearest`. One lemma (`InsertedOrder`) says that an insertion keeps the order if
what is before the place is before the new date and what is behind is after it,
strictly or not; another (`Revalued`) that a new value leaves the dates alone. What is left per
action is that the place is the right one. `IInv` adds that a search in
`rq_vol_curve_add` goes on only while there is memory for an entry more, and ends
with bounds that are neighbours.
*Reads*: every call touches its own date only (`OthersStay`, one lemma per kind of
call), what was set last is in the table, and what a call finds in a table in order are
the closest dates (`ReadsAreRight`).
*Surfaces* (`SurfaceInv`, until a curve is added twice, when two rows share their
memory): the rows rise by key, each with a curve of its own that is in order, and what
is in it is the last volatility that was set for key and date. `CurveAddAdds` says
what `rq_vol_curve_add` makes of a curve in order (its halving ends, since the bounds
get closer), `ChangeKeeps` what a change of one row leaves of the others, and
`BootstrappedIs` follows a bootstrap quote by quote. What is read of a surface is
then read of the rows next to the key (`NearestRowsAre`), and of the dates next to the
date in each. `NearestAnswered` has both specifications for hypotheses, since
`AnswersNearest` is about tables and about surfaces; the run's `MCSpec` implies both.

**`ContainersProofs`** (`Links`, `Arrays`, `SeeksLand`, `TableIsMap`, `SetIsSet`, `VectorsKeep`,
`PartitionedKeep`, `Registry`, `RecordsAreKept`, `AdaptersAreKept`): `LinksKept`,
`ArrayHolds`, and `ItemsFound` (`ItemsAreFound`: a step of `MCSpec` is one of each
component's specification, so that the six parts, proved one by one, hold together; it
extends `MCContainers`, which has them side by side). For lists: no node is in the
order twice and a node outside has no links, so that an erasure mends two links of two
other nodes. For arrays: there always is room for one element more before an insertion.
For the hash table: a node is in the bin of its hash
and nowhere else, once (`BinsHold`), which a rehash keeps whatever its order
(`RehashHolds`); a walk then meets each node once (`ForeachHas`), and as many as there are
keys (`NodesCounted`). It needs `PrimesSuffice`, which the code asserts each time it looks
for a size; the run's primes are checked to suffice.

The string set's repair turns nodes by comparisons remembered from above, and after a
turn these are no longer those of the nodes it stands between; and since it asks whether
two numbers from `strcmp` differ, where a red-black tree would ask for two sides, it
turns the parent of an outer grandchild as well, for some words. Of `strcmp` the theorems
suppose the sign only (`StrcmpAssumption`). A turn of two nodes that are parent and child
loses no key whatever their sides, so what is to be shown is that it never turns others,
and that follows from the colours. `SetWell` has the keys a node leads to (`SetLeads`:
`rq_set_rb_find` follows them, and a turn redraws them for two nodes), the colours
(`Mild`: no red node but the head and its children, whose repairs stay undone (`Topmost`),
has two red children), and where a walk may be (`Walking`): where what it remembers is its
parent's, grandparent's and so on (`Start`, `Passing`), or up to two steps below a repair
(`OnTop`, `Below2`), where it is not, but where the nodes it is about to pass cannot make
it repair again (`Stays`). Where the parent is turned, `ParentTurned`
tells the inner grandchild (`RisenTwice`) from the outer one (`RisenPast`), for which
`PastColours` and `PastMended` show that the colours and the walk stay as said;
`OnceColours` and `OnceMended` do so under the head, where the grandparent is not turned.
`RepairMends` says that a repair leaves such a tree in each of its cases.

For paged arrays: block, page and place on the page are one element's
(`WherePlaced`, `OnePlace`, which is division by the product of two sizes), so that a
write to the last block changes no other (`WriteHolds`). A vector needs that zero is
what is on its pages behind the end, a partitioned array does without
(`VectorInv`, `PartitionedInv`). For the managers: a place in a tree has only records of
its id and type, so that freeing one record touches one id; and the trees that own have
living records. For the engine's tree: above a node there are nodes (`Rooted`), so that
a walk ends within as many steps as there are nodes (`WalkEnds`), and at one place only
(`EndsOnce`); a walk to another product that ended where a node comes goes one step
further and still finds nothing (`RegisteredFinds`).

**`Induction`.** The library's induction theorems take an operator, which the
provers cannot instantiate. But a least element of a set of naturals exists by
well-foundedness, without an operator, and from it follow induction stated with a set
(`Naturals`, `Upwards`, `DownFrom`), iterations of a function (`Iterated`,
`IterationKeeps`, `IterationStays`), or of steps that differ from place to place
(`Follows`), and that a recursive function over a set with a
rank exists, is the only one, and has the type that each of its steps has
(`Recurses`, `RecursionIsOne`). So what a recursive *function* of the models computes
is proved; what a RECURSIVE operator does is not.

What the proofs said about the models: a trade priced again may find a curve more
over a cross currency curve, or under one, or through a credit curve in layers
(`Repeatable` was false for worlds the run does not have, and says now which);
`SpotWithCurve` went by the configuration there is, not the one a curve was built by;
the colours of the string set are not those of a red-black tree;
`AnswersTrue` depended on `None` not being a rate; `AnswersRight` and `StripsRight` were
true of the runs' configurations and not of all, and the theorems name those they are
true of (`Workable`, `Orderly`), which the runs' are checked to be.

Only model-checked:

- liveness under fairness (`CatalogueFair` beyond its safety, `SearchEnds`, `Returns`,
  `EventuallyFixed`);
- what is about RECURSIVE operators: those follow programs (`VariablesRight`, `Sane`,
  `EvaluationsClean`) and documents (`ReadsBack`), which are trees;
- `FixingsRight`, whose rates are whole only for the templates of the run; and the
  arithmetic of dates (`RollsRight`, `ScheduleRight`, `FractionsRight`), which is one of
  bounded inputs.

## 6. What the code does otherwise than it says

With a run: `pricing_request` and `tables_vol`; see the findings in `PROJECT.json`.
Met while modelling, without a run of their own; the models follow the code:

- **Engine.** The cross currency adapter declares no dependencies
  (`rq_bootstrap_adapter_forward_curve_crossccy.c:138`, against
  `rq_bootstrap_dependency_list.h:48`), so that its curve is NULL unless the others
  happen to be there: the exception in `Repeatable`. A copied adapter loses its
  dependency function, or calls unwritten memory (`rq_bootstrap_adapter.c:53`, against
  `rq_bootstrap_adapter_mgr.h:67`). A curve whose asset is
  not registered is added without its spot price
  (`rq_bootstrap_adapter_forward_curve_simple.c:67`), and one that crosses a pair which is
  not registered reads its currencies from NULL. A credit curve with the id of its base names
  itself and overflows the stack. `rq_bootstrap_cds_curve.c:505` reads one spread
  past the last.
- **Pricing helper.** The market requirements fill arrays of 256 without a check,
  and drop the 21st spot price asset silently.
- **Tree.** The inner grandchild without an uncle is not turned twice
  (`rq_tree_rb.c:385`): after seven additions the code's own `rq_tree_rb_is_consistant`
  answers 0 (`rq_tree_rb.h:133`). After five additions a removal may dereference NULL
  (`rq_tree_rb.c:575`; `RemoveCrash`), and removing one key frees the node of another,
  on which an iterator may stand (line 635). Nothing in the repository calls
  `rq_tree_rb_remove`.
- **Exchange rates.** Only the first usable currency of the list is tried
  (`rq_exchange_rate_mgr.c:217`, against `rq_exchange_rate_mgr.h:58`). A copied rate
  points to the original's strings (`rq_exchange_rate.c:81`).
- **Copies of a market** (`rq_market.h:147`, "Perform a deep copy"): a composite curve's
  copy has neither base nor spread (`rq_yield_curve.c:851`), copies of surfaces and
  equity curves leave their type 0, rates share their perturbation manager, external
  term structures are copied under an inverted condition.
- **Dates.** `rq_date.c:106` takes every fourth year for a leap year while
  `rq_date_to_dmy` does not, which tells from March 2100 on; subtracting a term adds
  its weeks (`rq_date.h:191`); "stay on the last day of the month" (`rq_date.h:106`) is
  not done; what `rq_enum.h:516` says of the SFE and TBILL rolls is a day or week
  away from what `rq_date_roll.c` does. A schedule backward with a roll day has dates
  behind the end.
- **Stripping.** The cubic spline builder gives the last swap's end no point and
  passes one knot too many (`rq_bootstrap_yield_curve_cubic_spline.c:239`, against its
  comment at line 65); the spread builder hands the previous asset of any kind to a
  strip future (`rq_bootstrap_yield_curve_spread.c:318`), and returns an empty curve
  where the others return NULL. A rate whose asset is missing becomes the rate before the
  next (`rq_bootstrap_yield_curve_day_count.c:745`, `rq_bootstrap_yield_curve_spread.c:347`),
  but gives no factor: of par, par without an asset, par, the last is stripped from the
  day of the second with the factor of the first, and a spread curve's strip future
  likewise (`Bereft`). Extrapolating past the end with a point on day 0
  divides by zero (`rq_yield_curve.c:540`).
- **Flows.** An average flow pays nothing, as its notional fraction is never computed;
  a missed fixing with historic rates takes the grossed-up factor for the rate
  (`rq_floating_flow.c:883`, against the comment at 753); a copied cms rate shares
  its term with the original, and both free it.
- **Equity curves.** `rq_equity_curve_get_forward_dividend_yield` answers the last yield
  before the earliest date, where its comment says the first; `DividendsRight` begins
  at the first date.
- **Volatility surfaces.** `rq_ir_vol_surface_get_volatility` goes on past the exact
  tenor; neither surface grows, and writes past its 16 or 256 curves. A surface has one
  flag for strikes and deltas, which the last rate sets; adding a curve that it has frees
  that curve; a client's curve without entries gives an unset volatility.
- **Containers.** The string set compares the numbers that `strcmp` gave, where it means
  sides (`rq_set_rb.c:195` and `269`), and turns nodes that a red-black tree would not:
  its keys are still found, its shape depends on the C library. Deleting from a hash table takes the hash for the bin; inserting at
  0 into an array loops by unsigned wrap; setting an element of an earlier block of a
  vector writes to the last block (modelled; `ElementsKept` is about behaviours that
  set elements of the last block only). Erasing from the double list returns the node that it
  freed (`rq_double_linked_list.h:113`), with which the collector goes on
  (`rq_object.c:1198`): the halt "freed" of `Sane`.
- **Registries.** Adding an asset or rate class whose id is there frees the string that
  the second tree then compares. Registering the same adapter again frees it and keeps
  it.
- **XML.** `rq_xml_parser_parse` returns RQ_OK after a parse error
  (`rq_xml_parser.h` promises an error code), and `<?xml ...?>` is an element that never
  closes. A text behind a child or comment is not read. A document that ends behind a
  child with a short cut leaves a pointer to a freed token, which freeing the parser
  follows. `rq_xml_node_find_text` of a path to an attribute gives nothing, and
  `rq_xml_node_print` prints the first attribute only. Without a test or caller:
  `rq_xml_util.c:78` compares a pointer with `'\0'`, and the object builder
  (`rq_object_builder_xml.c`) reads an unset depth (line 115), loops without moving
  (line 129) and reserves one byte less than it writes (line 237).
- **Streams.** `rq_stream_string_write` adds to the length what it overwrites (line 148);
  writing to a file answers 1 where writing to memory answers the bytes.
- **Stores.** `rq_calendar_read_from_stream` returns RQ_FAILED always, so that
  `rq_data_store_fs_system_load` clears the calendars, reads none, and says RQ_OK.
  Opening a store empties its index (`rq_data_store_fs.c:91`). A calendar whose id has a
  '/' is written to a stream that is NULL. On file systems that do not tell what
  an entry is, nothing is deleted or listed (lines 152 and 233).
- **Market.** Moving through time takes the rates alone, with their perturbed dates and
  without the perturbation (`rq_market.c:403`); two of the callbacks of a perturbation
  manager are unset (`rq_perturbation_mgr.c:32`); a copied external term structure
  without a function to copy it calls NULL (`rq_external_termstruct_mgr.c:65`).

## 7. Not modelled

The map covers about 15 % of the implementation's lines. Most of what is left
is headers and their enums, records with constructors and accessors (settlement,
addresses, assets of twenty kinds), managers that are one tree each behind typed
functions, generated tables of dates (compared with a calendar outside of TLA+),
the applications' option parsing and widgets, and formulas over floating point
numbers. In particular:

- **Pricing formulas** (`rq_pricing_*.c`, `rq_matrix.c`, `rq_statistics.c`, ...):
  numbers without state. Rates and factors elsewhere are integers of small units, or
  the set of the entries they come from, as section 2 says of each module.
- **Streams, XML, stores:** files as streams (but for how a read meets their end),
  the tokenizer of `rq_tokenizer.c`, printing a tree, schemas and the object builder.
  Since what is saved cannot be loaded by any code here, what is said of a crash
  between the deletion of the files and their writing is what the disk has.
- **Curves:** interpolations other than linear zero rates, par rates
  and forward rates of a yield curve; equity, future and spread bootstraps, which set
  table entries one by one, and the implied forward curve.
- **Market:** its transition through time, perturbations, correlations, and the copies
  listed above.
- **Flows:** baskets, cms rates, overriding functions, and the time value of caps and
  floors (only the intrinsic value is modelled).
- **Interpreter:** the tokenizer, and vectors, trees, records and dates as objects.
- **Tree:** its copy, which has the same shape, and clients that hold an iterator over a
  removal. **Exchange rates:** copies, rates that are zero, and rates that a client
  adds one way only, for which `BothWays` is not meant. **Calendars:** weekends, which a
  copy has uninitialised (`rq_calendar.c:69`). **Engine:** the typed wrappers and a
  dependency list with more than five curves (`rq_bootstrap_dependency_list.c:103`).

What would be worth adding: the market's copies as one more client of `YieldCurve`
and `ExchangeRates` (who shares what with whom), and its transition through time.
