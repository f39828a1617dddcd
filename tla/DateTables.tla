----------------------------- MODULE DateTables -----------------------------
(***************************************************************************)
(* The tables of the curves and of the calendar: growing arrays of dated   *)
(* entries, each kept in order by code of its own.  A behaviour is the     *)
(* life of one table of one kind:                                          *)
(*   "forward"   rq_forward_curve: forward rates                           *)
(*   "spread"    rq_spread_curve: spreads                                  *)
(*   "survival"  rq_cds_curve: survival rates by term                      *)
(*   "vol"       rq_vol_curve: volatilities                                *)
(*   "events"    rq_calendar: masks of events                              *)
(*   "dividend"  rq_equity_curve: dividend yields, which are not sorted    *)
(*   "future"    rq_future_curve: prices by future, which are not sorted   *)
(* Insertions that bisect are a step per iteration.  The positions of the  *)
(* model count from 1.                                                     *)
(***************************************************************************)
EXTENDS Integers, SequencesExt

CONSTANTS
    Kinds,    \* the kinds of table that are looked at
    Date,     \* dates, terms in days, or numbers of futures
    Value,    \* rates, or the bits of a mask
    From,     \* the date of a spread curve
    Initial,  \* the entries there is memory for at first
    MaxSize,  \* bound: nothing is added to as many entries
    None

Linear == {"forward", "spread", "survival"}
Kind == Linear \cup {"vol", "events", "dividend", "future"}

ASSUME KindsAssumption == Kinds \subseteq Kind
ASSUME DateAssumption == Date \subseteq Int /\ From \in Int
ASSUME InitialAssumption == Initial \in Nat \ {0} /\ MaxSize \in Nat
ASSUME NoneAssumption == None \notin Date

VARIABLES
    kind,
    table,   \* the entries
    cap,     \* how many entries there is memory for
    bounds,  \* "dividend": lower_bound and upper_bound, the positions of the
             \* earliest and of the latest date when they were last looked for
    ask,     \* the last call that was made: what for, date and value
    pc,      \* "idle", or where an insertion that bisects is
    lo, hi,  \* the positions it is between
    answer   \* "events": the mask that was last looked up

vars == <<kind, table, cap, bounds, ask, pc, lo, hi, answer>>

Entry == [at : Date, val : SUBSET Value]
Call == [what : {"none", "set", "look", "bounds"}, at : Date \cup {None}, val : SUBSET Value]
Setting(d, v) == [what |-> "set", at |-> d, val |-> {v}]
-----------------------------------------------------------------------------
\* Reading.  An answer is the set of the entries that it is computed from, and
\* empty if it does not depend on the table.

\* rq_interpolate_linear.
Interpolated(d, a, b) == CASE d = a.at \/ a.at = b.at -> {a}
                           [] d = b.at -> {b}
                           [] OTHER -> {a, b}

\* The first position of an entry with a later date, and of one with no earlier
\* date, or the position past the end.
After(t, d) == Min({i \in DOMAIN t : t[i].at > d} \cup {Len(t) + 1})
NotBefore(t, d) == Min({i \in DOMAIN t : t[i].at >= d} \cup {Len(t) + 1})

\* rq_forward_curve_get_rate and rq_vol_curve_get_volatility: from the entries up
\* to the date and the first one after it.
UpTo(t, d) ==
    LET i == After(t, d) IN
    CASE t = <<>> -> {}
      [] t # <<>> /\ i = 1 -> {t[1]}
      [] t # <<>> /\ i > Len(t) -> {t[Len(t)]}
      [] OTHER -> Interpolated(d, t[i-1], t[i])

\* rq_spread_curve_get_spread and rq_cds_curve_get_survival_rate: from the first
\* entry that is not before the date, and the one before it.
Around(t, d) ==
    LET i == NotBefore(t, d) IN
    CASE t = <<>> -> {}
      [] t # <<>> /\ i > Len(t) -> {t[Len(t)]}
      [] t # <<>> /\ i <= Len(t) -> IF i = 1 \/ t[i].at = d THEN {t[i]}
                                    ELSE Interpolated(d, t[i-1], t[i])

GetForwardRate(d) == UpTo(table, d)
GetVolatility(d) == UpTo(table, d)
GetSpread(d) == IF d <= From THEN {} ELSE Around(table, d)
GetSurvivalRate(d) == IF d <= 0 THEN {} ELSE Around(table, d)

\* The first entry of that very date.
Exact(t, d) == LET E == {i \in DOMAIN t : t[i].at = d}
               IN IF E = {} THEN {} ELSE {t[Min(E)]}

\* rq_future_curve_get_price, and rq_calendar's search once it has found.
GetPrice(d) == Exact(table, d)

\* rq_equity_curve_get_forward_dividend_yield.  The search for the closest dates
\* on both sides starts at the latest and the earliest one, and takes what is
\* still there in the end for not found.
Closer(t, d, lower, upper, i, closest) ==   \* <<just_before, just_after>>
    LET b == closest[1]
        a == closest[2]
        x == t[i].at
    IN CASE x < d /\ (b = upper \/ x > t[b].at) -> <<i, a>>
         [] x > d /\ (a = lower \/ x < t[a].at) -> <<b, i>>
         [] OTHER -> <<b, a>>

ClosestDates(t, d, lower, upper) ==
    LET closest[i \in 0..Len(t)] ==
            IF i = 0 THEN <<upper, lower>>
            ELSE Closer(t, d, lower, upper, i, closest[i-1])
    IN closest[Len(t)]

GetDividendYield(d) ==
    LET closest == ClosestDates(table, d, bounds[1], bounds[2])
    IN CASE table = <<>> -> {}
         [] table # <<>> /\ Exact(table, d) # {} -> Exact(table, d)
         [] table # <<>> /\ Exact(table, d) = {} ->
                CASE closest[1] = bounds[2] -> {table[bounds[2]]}
                  [] closest[1] # bounds[2] /\ closest[2] = bounds[1] -> {table[bounds[1]]}
                  [] OTHER -> Interpolated(d, table[closest[1]], table[closest[2]])

Read(d) == CASE kind = "forward" -> GetForwardRate(d)
             [] kind = "spread" -> GetSpread(d)
             [] kind = "survival" -> GetSurvivalRate(d)
             [] kind = "vol" -> GetVolatility(d)
             [] kind = "dividend" -> GetDividendYield(d)
             [] kind \in {"future", "events"} -> Exact(table, d)
-----------------------------------------------------------------------------
Init ==
    /\ kind \in Kinds
    /\ table = <<>> /\ cap = Initial /\ bounds = <<1, 1>>
    /\ ask = [what |-> "none", at |-> None, val |-> {}]
    /\ pc = "idle" /\ lo = 0 /\ hi = 0
    /\ answer = {}

Idle == pc = "idle"
Room == Len(table) < MaxSize

\* Slip: the memory grows when it is exceeded.
Doubled_Late == IF Len(table) > cap THEN 2 * cap ELSE cap

\* The memory for one entry more, if there is none left.
Doubled == IF Len(table) = cap THEN 2 * cap ELSE cap

\* Slip: the others move up one less.
Insert_Over(i, d, V) ==
    table' = IF i > Len(table) THEN Append(table, [at |-> d, val |-> V])
             ELSE [table EXCEPT ![i] = [at |-> d, val |-> V]]

\* The entry comes to a position, and the others move up one.
Insert(i, d, V) == table' = InsertAt(table, i, [at |-> d, val |-> V])

Done(d, v) == ask' = Setting(d, v) /\ UNCHANGED <<kind, bounds, pc, lo, hi, answer>>

\* Where an entry goes: to the end if it is later than the last one, otherwise
\* to the first entry that is not before it.
Place(d, i) ==
    IF table = <<>> \/ table[Len(table)].at < d THEN i = Len(table) + 1
    ELSE /\ i \in DOMAIN table /\ table[i].at >= d
         /\ \A j \in 1..i-1 : table[j].at < d

\* Slip: a date that is there keeps its value.
PutInOrder_Kept(d, v) ==
    /\ Idle /\ Room
    /\ cap' = Doubled
    /\ \E i \in 1..Len(table)+1 :
        /\ Place(d, i)
        /\ IF i <= Len(table) /\ table[i].at = d THEN table' = table
           ELSE Insert(i, d, {v})
    /\ Done(d, v)

\* What rq_forward_curve_set_rate, rq_spread_curve_set_spread and
\* rq_cds_curve_set_survival_rate have in common.
PutInOrder(d, v) ==
    /\ Idle /\ Room
    /\ cap' = Doubled
    /\ \E i \in 1..Len(table)+1 :
        /\ Place(d, i)
        /\ IF i <= Len(table) /\ table[i].at = d
           THEN table' = [table EXCEPT ![i].val = {v}]
           ELSE Insert(i, d, {v})
    /\ Done(d, v)

SetForwardRate(d, v) == kind = "forward" /\ PutInOrder(d, v)
SetSpread(d, v) == kind = "spread" /\ PutInOrder(d, v)
SetSurvivalRate(d, v) == kind = "survival" /\ PutInOrder(d, v)

\* rq_future_curve_set_price: the first entry of the future, or a new one.
SetPrice(d, v) ==
    /\ kind = "future" /\ Idle /\ Room
    /\ cap' = Doubled
    /\ IF Exact(table, d) = {} THEN Insert(Len(table) + 1, d, {v})
       ELSE table' = [table EXCEPT ![Min({i \in DOMAIN table : table[i].at = d})].val = {v}]
    /\ Done(d, v)

\* rq_equity_curve_add_to_dividend_yield: at the end.
AddToDividendYield(d, v) ==
    /\ kind = "dividend" /\ Idle /\ Room
    /\ cap' = Doubled
    /\ Insert(Len(table) + 1, d, {v})
    /\ Done(d, v)

\* rq_equity_curve_dividend_yield_curve_find_date_bounds, which is called once the
\* curve is made: the first entry of the earliest date, and of the latest.
FindDateBounds ==
    /\ kind = "dividend" /\ Idle /\ table # <<>>
    /\ \E l, u \in DOMAIN table :
        /\ \A i \in DOMAIN table : table[l].at <= table[i].at /\ table[i].at <= table[u].at
        /\ \A i \in 1..l-1 : table[i].at # table[l].at
        /\ \A i \in 1..u-1 : table[i].at # table[u].at
        /\ bounds' = <<l, u>>
    /\ ask' = [what |-> "bounds", at |-> None, val |-> {}]
    /\ UNCHANGED <<kind, table, cap, pc, lo, hi, answer>>
-----------------------------------------------------------------------------
\* rq_vol_curve_add.  The first entry, one after the last and one before the
\* first are added at once; for the others the place is looked for.
AddVolAtEnd(d, v) ==
    /\ kind = "vol" /\ Idle /\ Room
    /\ cap' = Doubled
    /\ \/ /\ table # <<>> => table[Len(table)].at < d
          /\ Insert(Len(table) + 1, d, {v})
       \/ /\ table # <<>> /\ table[1].at > d
          /\ Insert(1, d, {v})
    /\ Done(d, v)

AddVol(d, v) ==
    /\ kind = "vol" /\ Idle /\ Room
    /\ table # <<>> /\ table[1].at <= d /\ d <= table[Len(table)].at
    /\ cap' = Doubled
    /\ ask' = Setting(d, v)
    /\ pc' = "vol" /\ lo' = 1 /\ hi' = Len(table)
    /\ UNCHANGED <<kind, table, bounds, answer>>

\* Slip: the loop goes on between neighbours.
VolHalve_Forever ==
    LET mid == lo + (hi - lo) \div 2
        x == table[mid].at
    IN /\ pc = "vol"
       /\ hi' = IF x > ask.at THEN mid ELSE hi
       /\ lo' = IF x < ask.at THEN mid ELSE lo
       /\ table' = IF x = ask.at THEN [table EXCEPT ![mid].val = ask.val] ELSE table
       /\ pc' = CASE x = ask.at -> "idle"
                  [] x # ask.at -> IF hi' - lo' >= 1 THEN "vol" ELSE "insert"
       /\ UNCHANGED <<kind, cap, bounds, ask, answer>>

\* An iteration, of which there is at least one: the entry in the middle is
\* replaced, or it is a new bound.
VolHalve ==
    LET mid == lo + (hi - lo) \div 2
        x == table[mid].at
    IN /\ pc = "vol"
       /\ hi' = IF x > ask.at THEN mid ELSE hi
       /\ lo' = IF x < ask.at THEN mid ELSE lo
       /\ table' = IF x = ask.at THEN [table EXCEPT ![mid].val = ask.val] ELSE table
       /\ pc' = CASE x = ask.at -> "idle"
                  [] x # ask.at -> IF hi' - lo' > 1 THEN "vol" ELSE "insert"
       /\ UNCHANGED <<kind, cap, bounds, ask, answer>>

VolInsert ==
    /\ pc = "insert"
    /\ Insert(hi, ask.at, ask.val)
    /\ pc' = "idle"
    /\ UNCHANGED <<kind, cap, bounds, ask, lo, hi, answer>>
-----------------------------------------------------------------------------
\* The calendar.  rq_calendar_find_date_event searches for a date between two
\* positions at neither of which it looks: rq_calendar_add_event for a place,
\* rq_calendar_get_event_mask and rq_calendar_is_holiday for an answer.
AddFirstEvent(d, v) ==
    /\ kind = "events" /\ Idle /\ Room /\ table = <<>>
    /\ Insert(1, d, {v})
    /\ Done(d, v) /\ UNCHANGED cap

\* Slip: the search begins at the first entry.
FindDateEvent_AtFirst == pc' = "events" /\ lo' = 1 /\ hi' = Len(table) + 1

FindDateEvent == pc' = "events" /\ lo' = 0 /\ hi' = Len(table) + 1

AddEvent(d, v) ==
    /\ kind = "events" /\ Idle /\ Room /\ table # <<>>
    /\ ask' = Setting(d, v)
    /\ FindDateEvent
    /\ UNCHANGED <<kind, table, cap, bounds, answer>>

GetEventMask(d) ==
    /\ kind = "events" /\ Idle
    /\ ask' = [what |-> "look", at |-> d, val |-> {}]
    /\ FindDateEvent
    /\ UNCHANGED <<kind, table, cap, bounds, answer>>

\* The entry in the middle is a new bound, or it is the one: its mask grows or is
\* the answer.

EventHalve ==
    LET mid == (lo + hi) \div 2
        x == table[mid]
    IN /\ pc = "events" /\ hi - lo > 1
       /\ lo' = IF x.at < ask.at THEN mid ELSE lo
       /\ hi' = IF x.at > ask.at THEN mid ELSE hi
       /\ pc' = IF x.at = ask.at THEN "idle" ELSE "events"
       /\ table' = IF x.at = ask.at /\ ask.what = "set"
                   THEN [table EXCEPT ![mid].val = @ \cup ask.val] ELSE table
       /\ answer' = IF x.at = ask.at /\ ask.what = "look" THEN x.val ELSE answer
       /\ UNCHANGED <<kind, cap, bounds, ask>>

\* Nothing found: the event gets an entry of its own, at the lower position only
\* if what is there is later; the memory grows by its first size.
EventInsert ==
    /\ pc = "events" /\ hi - lo <= 1 /\ ask.what = "set"
    /\ cap' = IF Len(table) = cap THEN cap + Initial ELSE cap
    /\ Insert(IF lo >= 1 /\ table[lo].at > ask.at THEN lo ELSE hi, ask.at, ask.val)
    /\ pc' = "idle"
    /\ UNCHANGED <<kind, bounds, ask, lo, hi, answer>>

EventNotFound ==
    /\ pc = "events" /\ hi - lo <= 1 /\ ask.what = "look"
    /\ pc' = "idle" /\ answer' = {}
    /\ UNCHANGED <<kind, table, cap, bounds, ask, lo, hi>>
-----------------------------------------------------------------------------
\* A copy, with which the behaviour goes on.

\* rq_forward_curve_clone, rq_future_curve_clone: memory for the entries, and for
\* no fewer than at first.
CloneFitted ==
    /\ kind \in {"forward", "future"} /\ Idle
    /\ cap' = IF Len(table) < Initial THEN Initial ELSE Len(table)
    /\ UNCHANGED <<kind, table, bounds, ask, pc, lo, hi, answer>>

\* rq_spread_curve_clone, rq_cds_curve_clone, rq_vol_curve_clone,
\* rq_calendar_clone: as much memory as the table has.  (Of a calendar nothing but
\* its table and id is copied.)
CloneWhole ==
    /\ kind \in {"spread", "survival", "vol", "events"} /\ Idle
    /\ UNCHANGED vars

\* rq_equity_curve_clone forgets the bounds.
CloneEquityCurve ==
    /\ kind = "dividend" /\ Idle
    /\ bounds' = <<1, 1>>
    /\ ask' = [what |-> "none", at |-> None, val |-> {}]
    /\ UNCHANGED <<kind, table, cap, pc, lo, hi, answer>>

Client ==
    \/ \E d \in Date : GetEventMask(d)
    \/ \E d \in Date, v \in Value :
        \/ SetForwardRate(d, v) \/ SetSpread(d, v) \/ SetSurvivalRate(d, v)
        \/ SetPrice(d, v) \/ AddToDividendYield(d, v)
        \/ AddVolAtEnd(d, v) \/ AddVol(d, v)
        \/ AddFirstEvent(d, v) \/ AddEvent(d, v)
    \/ FindDateBounds \/ CloneFitted \/ CloneWhole \/ CloneEquityCurve

Search == VolHalve \/ VolInsert \/ EventHalve \/ EventInsert \/ EventNotFound

Next == Client \/ Search

Spec == Init /\ [][Next]_vars

\* A search is a loop in one call: it goes on by itself.
FairSpec == Spec /\ WF_vars(Search)
-----------------------------------------------------------------------------
TypeOK ==
    /\ kind \in Kind
    /\ table \in Seq(Entry)
    /\ cap \in Nat \ {0}
    /\ bounds \in (Nat \ {0}) \X (Nat \ {0})
    /\ ask \in Call
    /\ pc \in {"idle", "vol", "insert", "events"}
    /\ lo \in Nat /\ hi \in Nat
    /\ answer \in SUBSET Value

\* The order that the lookups of rq_forward_curve.c, rq_spread_curve.c,
\* rq_cds_curve.c and rq_calendar.c rely on, with a date once; rq_vol_curve_add
\* may add a date again.
Sorted ==
    \A i, j \in DOMAIN table : i < j =>
        /\ kind \in Linear \cup {"events"} => table[i].at < table[j].at
        /\ kind = "vol" => table[i].at <= table[j].at

\* Nothing is written past the memory, in copies of tables too: growing is decided
\* before the place is looked for (rq_vol_curve_add) or after
\* (rq_calendar_add_event).
FitsCapacity == Len(table) + (IF pc = "insert" THEN 1 ELSE 0) <= cap

\* A search of rq_calendar_find_date_event or rq_vol_curve_add keeps the place it
\* looks for between its bounds, and the bounds within the table.
SearchBetween ==
    /\ pc = "events" =>
        /\ lo < hi /\ hi <= Len(table) + 1
        /\ \A i \in DOMAIN table : /\ i <= lo => table[i].at < ask.at
                                   /\ i >= hi => table[i].at > ask.at
    /\ pc \in {"vol", "insert"} =>
        /\ 1 <= lo /\ lo <= hi /\ hi <= Len(table)
        /\ table[lo].at <= ask.at /\ ask.at <= table[hi].at

\* The entry of that date is the only one.
Once(d) == \A i, j \in DOMAIN table : table[i].at = d /\ table[j].at = d => i = j

\* What every call relies on and keeps, at every step of an insertion: the order,
\* the memory, and a search that is between its bounds.
TableOK == Sorted /\ FitsCapacity /\ SearchBetween

Readable(d) == /\ kind = "spread" => d > From
               /\ kind = "survival" => d > 0

\* What was set last is what is read at that date, in the table and in a copy: it
\* depends on no other entry.  A calendar keeps the bits it had.  Dates that occur
\* twice are left to VolSetIsRead.
LastSetIsRead ==
    Idle /\ ask.what = "set" /\ Readable(ask.at) /\ Once(ask.at) =>
        \E e \in Entry :
            /\ Read(ask.at) = {e} /\ ask.val \subseteq e.val
            /\ kind # "events" => e.val = ask.val

\* The entries with the closest dates on both sides.
Nearest(d) ==
    LET E == {table[i] : i \in DOMAIN table}
    IN {e \in E : \/ e.at <= d /\ \A f \in E : f.at <= d => f.at <= e.at
                  \/ e.at >= d /\ \A f \in E : f.at >= d => f.at >= e.at}

\* Of the tables that are read by interpolation every read uses the closest dates
\* on both sides, before the first and after the last entry too
\* (rq_forward_curve_get_rate, rq_spread_curve_get_spread,
\* rq_cds_curve_get_survival_rate, rq_vol_curve_get_volatility).
ReadsNearest ==
    kind \in Linear \cup {"vol"} /\ (\A d \in Date : Once(d)) =>
        \A d \in Date : Readable(d) => Read(d) = Nearest(d)

\* Dividend yields that were added in the order of their dates are read likewise
\* once rq_equity_curve_dividend_yield_curve_find_date_bounds has run, but not
\* before the first date, where the last one is read.
DividendsRight ==
    kind = "dividend" /\ ask.what = "bounds"
        /\ (\A i, j \in DOMAIN table : i < j => table[i].at < table[j].at) =>
        \A d \in Date : d >= table[1].at => Read(d) = Nearest(d)

\* What a read answers, of all the tables.
ReadsRight == LastSetIsRead /\ ReadsNearest /\ DividendsRight

\* The entries of all other dates, in their order.
Others(t, d) ==
    LET kept[i \in 0..Len(t)] ==
            IF i = 0 THEN <<>>
            ELSE IF t[i].at # d THEN Append(kept[i-1], t[i]) ELSE kept[i-1]
    IN kept[Len(t)]

\* Setting one date changes the entries of no other, nor their order, at any step
\* of any insertion: moving them up loses none.
NothingLost == [][Others(table', ask'.at) = Others(table, ask'.at)]_table

\* rq_calendar_get_event_mask answers what the calendar has for the date.
LooksUpRight ==
    Idle /\ ask.what = "look" => answer = UNION {e.val : e \in Exact(table, ask.at)}

\* The loops of rq_vol_curve_add and rq_calendar_find_date_event end.
SearchEnds == pc # "idle" ~> pc = "idle"

\* "Add a volatility for the specified date to the vol curve": it is read at that
\* date then.  But the last date is not found again, and comes before the old one.
VolSetIsRead ==
    kind = "vol" /\ Idle /\ ask.what = "set" =>
        \A e \in Read(ask.at) : e.val = ask.val
=============================================================================
