------------------------------ MODULE DateRoll ------------------------------
(***************************************************************************)
(* Moving dates to good days, rq_date_roll.c.  Its functions keep no state *)
(* between calls: a behaviour is one call of one of them, a step per       *)
(* iteration of their loops.  The loops of rq_date_roll_generate_dates use *)
(* that of rq_date_roll_adjust_date, which returns to where then says.     *)
(***************************************************************************)
EXTENDS DayCount, SequencesExt

CONSTANTS
    Calls,      \* the calls: what function, and its arguments
    OffsetCap   \* the days an offset looks at before it gives up, 368 in the code

RollConventions == {"FOLLOWING", "PRECEDING", "MOD_FOLLOWING", "MOD_PRECEDING", "NO_ADJUSTMENT"}

ASSUME CallsAssumption ==
    \A c \in Calls : c.op \in {"adjust", "offset", "offset_term", "roll", "generate"} /\ c.conv \in RollConventions

ASSUME OffsetCapAssumption == OffsetCap \in Nat

VARIABLES
    call,     \* the call that is made
    pc,       \* "call", "done", "adjusting", "offset", "rest", "schedule", "stub" or "halted"
    then,     \* what the date is adjusted for; "none" if there was nothing to adjust
    date,     \* the date that moves
    origin,   \* in_date: the date that is adjusted
    forward,  \* rolling_forward
    left,     \* "offset": good days to go,
    count,    \*           and days looked at
    dates,    \* "generate": the dates so far, the number of which is i,
    nextTerm,     \*             next_term,
    limit,    \*             the other end, adjusted,
    stub      \*             and the start of the stub

vars == <<call, pc, then, date, origin, forward, left, count, dates, nextTerm, limit, stub>>
-----------------------------------------------------------------------------
\* rq_date_roll_is_good_date.
GoodDate(d, conv, cals) ==
    IF cals = <<>> THEN DayOfWeek(d) \notin {0, 6}
    ELSE \A i \in DOMAIN cals : /\ DayOfWeek(d) \notin cals[i].weekend
                                /\ conv = "NO_ADJUSTMENT" \/ d \notin cals[i].holidays

Good(d) == GoodDate(d, call.conv, call.cals)
IsModified(conv) == conv \in {"MOD_FOLLOWING", "MOD_PRECEDING"}
MonthOf(d) == ToDmy(d).m

\* Where the month of d begins, and its day of a week on or after the day n.
MonthStart(d) == FromDmy(1, MonthOf(d), ToDmy(d).y)
OnOrAfter(n, dow, d) ==
    LET on == MonthStart(d) + n - 1 IN on + ((dow - DayOfWeek(on)) % 7)

\* The day n of the month of d, a month later each time until it is not before start.
DayOfMonth(n, d, start) ==
    LET later[k \in Nat] == LET l == later[k - 1]
                            IN IF k = 0 THEN FromDmy(n, MonthOf(d), ToDmy(d).y) ELSE AddMonths(l, 1, FALSE)
    IN later[CHOOSE k \in 0..100 : later[k] >= start /\ \A j \in 0..(k - 1) : later[j] < start]

\* The weekday dow of the week of d, or a week later if that is no later than start.
InWeek(dow, d, start, ahead) ==
    IF ahead \/ d + dow - DayOfWeek(d) > start THEN d + dow - DayOfWeek(d) ELSE d + dow - DayOfWeek(d) + 7

\* What rq_date_roll_get_date makes of a date before it is adjusted.  The weekdays of a
\* roll are counted from Sunday, and a day is added.
RollTo(d, roll, start) ==
    CASE roll.kind = "day" -> IF ToDmy(d).d = roll.n THEN d ELSE DayOfMonth(roll.n, d, start)
      [] roll.kind = "weekday" -> InWeek(roll.n, d, start, roll.n >= DayOfWeek(d)) + 1
      [] roll.kind = "EOM" -> FromDmy(DaysInMonth(MonthOf(d), ToDmy(d).y), MonthOf(d), ToDmy(d).y)
      [] roll.kind = "IMM" -> OnOrAfter(15, 3, d)
      [] roll.kind = "CADIMM" -> OnOrAfter(22, 3, d)
      [] roll.kind = "SFE" -> OnOrAfter(15, 5, d) + 1
      [] roll.kind = "TBILL" -> InWeek(1, d, start, 1 > DayOfWeek(d)) + 1
      [] OTHER -> d

Unadjusted(start, t, c) == RollTo(AddTerm(start, t, IsModified(c.conv)), c.roll, start)
-----------------------------------------------------------------------------
Init ==
    /\ call \in Calls
    /\ pc = "call" /\ then = "none"
    /\ date = call.date /\ origin = call.date
    /\ forward = TRUE
    /\ left = 0 /\ count = 0
    /\ dates = <<>> /\ nextTerm = NoTerm /\ limit = call.end /\ stub = 0

Adjust(d, for) ==
    /\ pc' = "adjusting" /\ then' = for
    /\ date' = d /\ origin' = d
    /\ forward' = (call.conv \notin {"PRECEDING", "MOD_PRECEDING"})

\* rq_date_roll_adjust_date
AdjustDate == Adjust(call.date, "return") /\ UNCHANGED <<left, count, dates, nextTerm, limit, stub>>

\* rq_date_roll_get_date
GetDate ==
    /\ Adjust(Unadjusted(call.date, call.term[1], call), "return")
    /\ UNCHANGED <<left, count, dates, nextTerm, limit, stub>>

\* rq_date_roll_days_offset
DaysOffset(n, for) ==
    /\ pc' = "offset" /\ then' = for
    /\ forward' = (n > 0)
    /\ left' = (IF n > 0 THEN n ELSE -n) /\ count' = 0
    /\ UNCHANGED <<date, origin, dates, nextTerm, limit, stub>>

\* rq_date_roll_offset_term: the days are an offset, then the rest of the term is added and
\* the date adjusted.
OffsetTerm ==
    IF call.term[1] = NoTerm
    THEN pc' = "done" /\ UNCHANGED <<then, date, origin, forward, left, count, dates, nextTerm, limit, stub>>
    ELSE DaysOffset(call.term[1].days, "term")

\* rq_date_roll_generate_dates, up to its first date.  Without a term there are two dates
\* in the caller's array, and none is counted.
GenerateDates ==
    IF call.term = <<>>
    THEN pc' = "done" /\ UNCHANGED <<then, date, origin, forward, left, count, dates, nextTerm, limit, stub>>
    ELSE LET back == call.stub = "START"
         IN /\ Adjust(IF back THEN call.end ELSE call.date, "first")
            /\ nextTerm' = (IF back THEN TermInvert(call.term[1]) ELSE call.term[1])
            /\ limit' = (IF back THEN call.date ELSE call.end)
            /\ UNCHANGED <<left, count, dates, stub>>

Call ==
    /\ pc = "call"
    /\ \/ call.op = "adjust" /\ AdjustDate
       \/ call.op = "roll" /\ GetDate
       \/ call.op = "offset" /\ DaysOffset(call.n, "return")
       \/ call.op = "offset_term" /\ OffsetTerm
       \/ call.op = "generate" /\ GenerateDates
    /\ UNCHANGED call
-----------------------------------------------------------------------------
Settled == call.conv = "NO_ADJUSTMENT" \/ Good(date)

\* Slip: when the month is left, the date goes on from where it is.
AdjustStep_NoReset ==
    /\ pc = "adjusting" /\ ~Settled
    /\ LET to == IF forward THEN date + 1 ELSE date - 1
           turn == IsModified(call.conv) /\ MonthOf(to) # MonthOf(origin)
       IN date' = to /\ forward' = (forward # turn)
    /\ UNCHANGED <<call, pc, then, origin, left, count, dates, nextTerm, limit, stub>>

\* One iteration of rq_date_roll_adjust_date.
AdjustStep ==
    /\ pc = "adjusting" /\ ~Settled
    /\ LET to == IF forward THEN date + 1 ELSE date - 1
           turn == IsModified(call.conv) /\ MonthOf(to) # MonthOf(origin)
       IN date' = (IF turn THEN origin ELSE to) /\ forward' = (forward # turn)
    /\ UNCHANGED <<call, pc, then, origin, left, count, dates, nextTerm, limit, stub>>

Adjusted(for) == pc = "adjusting" /\ Settled /\ then = for

AdjustReturns ==
    /\ Adjusted("return")
    /\ pc' = "done"
    /\ UNCHANGED <<call, then, date, origin, forward, left, count, dates, nextTerm, limit, stub>>

\* One iteration of rq_date_roll_days_offset.  Days of type "WEEK" are those of no calendar.
OffsetStep ==
    /\ pc = "offset" /\ left > 0 /\ count < OffsetCap
    /\ LET to == IF forward THEN date + 1 ELSE date - 1
           cals == IF call.type = "WEEK" THEN <<>> ELSE call.cals
       IN date' = to /\ left' = (IF GoodDate(to, call.conv, cals) THEN left - 1 ELSE left)
    /\ count' = count + 1
    /\ UNCHANGED <<call, pc, then, origin, forward, dates, nextTerm, limit, stub>>

OffsetEnds ==
    /\ pc = "offset" /\ (left = 0 \/ count >= OffsetCap)
    /\ pc' = (IF then = "return" THEN "done" ELSE "rest")
    /\ UNCHANGED <<call, then, date, origin, forward, left, count, dates, nextTerm, limit, stub>>

\* The rest of rq_date_roll_offset_term.
OffsetRest ==
    /\ pc = "rest"
    /\ Adjust(AddTerm(date, [call.term[1] EXCEPT !.days = 0], FALSE), "return")
    /\ UNCHANGED <<call, left, count, dates, nextTerm, limit, stub>>

\* The two ends of a schedule.
FirstDate ==
    /\ Adjusted("first")
    /\ dates' = <<date>>
    /\ Adjust(limit, "limit")
    /\ UNCHANGED <<call, left, count, nextTerm, limit, stub>>

OtherEnd ==
    /\ Adjusted("limit")
    /\ limit' = date
    /\ pc' = "schedule"
    /\ UNCHANGED <<call, then, date, origin, forward, left, count, dates, nextTerm, stub>>

\* The head of the loop: there is room for a date and a stub.  The terms count from the
\* end that was given, not from the one that was adjusted.
NextDate ==
    /\ pc = "schedule"
    /\ IF Len(dates) < call.max - 1
       THEN Adjust(Unadjusted(IF call.stub = "START" THEN call.end ELSE call.date, nextTerm, call), "date")
       ELSE pc' = "stub" /\ UNCHANGED <<then, date, origin, forward>>
    /\ UNCHANGED <<call, left, count, dates, nextTerm, limit, stub>>

\* Slip: no guard against a term of zero.
ForwardStep_Unguarded ==
    /\ Adjusted("date") /\ call.stub # "START"
    /\ IF date > limit THEN pc' = "stub" /\ UNCHANGED <<dates, nextTerm>>
       ELSE /\ pc' = "schedule" /\ nextTerm' = TermPlus(nextTerm, call.term[1])
            /\ dates' = (IF date = Last(dates) THEN dates ELSE Append(dates, date))
    /\ UNCHANGED <<call, then, date, origin, forward, left, count, limit, stub>>

\* The loop forward.  A date that is there already is passed over; if the term is
\* zero, the loop ends with one date less.
ForwardStep ==
    /\ Adjusted("date") /\ call.stub # "START"
    /\ LET more == TermPlus(nextTerm, call.term[1])
       IN \/ date > limit /\ pc' = "stub" /\ UNCHANGED <<dates, nextTerm>>
          \/ /\ date <= limit /\ date = Last(dates)
             /\ nextTerm' = more
             /\ IF more = call.term[1] THEN pc' = "stub" /\ dates' = Front(dates)
                ELSE pc' = "schedule" /\ UNCHANGED dates
          \/ /\ date <= limit /\ date # Last(dates)
             /\ pc' = "schedule" /\ dates' = Append(dates, date) /\ nextTerm' = more
    /\ UNCHANGED <<call, then, date, origin, forward, left, count, limit, stub>>

\* The loop backward.
BackwardStep ==
    /\ Adjusted("date") /\ call.stub = "START"
    /\ IF date < limit THEN pc' = "stub" /\ UNCHANGED <<dates, nextTerm>>
       ELSE pc' = "schedule" /\ dates' = Append(dates, date) /\ nextTerm' = TermPlus(nextTerm, TermInvert(call.term[1]))
    /\ UNCHANGED <<call, then, date, origin, forward, left, count, limit, stub>>

\* The stub at the end.  With no dates left it is decided by what lies before the array,
\* if that can be read.
EndStub ==
    /\ pc = "stub" /\ call.stub # "START"
    /\ LET before == IF dates = <<>> THEN BOOLEAN ELSE {Last(dates) < limit}
       IN \/ /\ call.stub # "END" \/ FALSE \in before
             /\ pc' = "done" /\ UNCHANGED <<dates, stub>>
          \/ /\ call.stub = "END" /\ TRUE \in before
             /\ pc' = "done" /\ dates' = Append(dates, limit) /\ stub' = Len(dates)
          \/ /\ call.stub = "END" /\ dates = <<>>
             /\ pc' = "halted" /\ UNCHANGED <<dates, stub>>
    /\ UNCHANGED <<call, then, date, origin, forward, left, count, nextTerm, limit>>

\* Slip: the start is never a date of its own.
StartStub_None ==
    /\ pc = "stub" /\ call.stub = "START"
    /\ pc' = "done" /\ stub' = 0 /\ dates' = Reverse(dates)
    /\ UNCHANGED <<call, then, date, origin, forward, left, count, nextTerm, limit>>

\* The stub at the start, and the dates turned round.
StartStub ==
    /\ pc = "stub" /\ call.stub = "START"
    /\ pc' = "done"
    /\ IF Last(dates) > limit THEN stub' = 1 /\ dates' = <<limit>> \o Reverse(dates)
       ELSE UNCHANGED stub /\ dates' = Reverse(dates)
    /\ UNCHANGED <<call, then, date, origin, forward, left, count, nextTerm, limit>>

Loop ==
    \/ AdjustStep \/ AdjustReturns
    \/ OffsetStep \/ OffsetEnds
    \/ FirstDate \/ OtherEnd \/ ForwardStep \/ BackwardStep
    \/ EndStub \/ StartStub

Next == Call \/ NextDate \/ OffsetRest \/ Loop

\* A call that is made goes on.  From "call", "schedule" and "rest" there always is a step, so
\* that weak fairness of these steps is that the states are left; said this way, TLC need not
\* evaluate the dates again to find out that the step can be taken.
Spec == Init /\ [][Next]_vars /\ WF_vars(Loop) /\ []<>(pc \notin {"call", "schedule", "rest"})
-----------------------------------------------------------------------------
\* The date that a convention makes of one, from its words: the nearest good date after
\* it or before it, on the other side if it would leave the month.
RolledTo(d, conv, cals) ==
    LET after == Min({e \in d..(d + 60) : GoodDate(e, conv, cals)})
        before == Max({e \in (d - 60)..d : GoodDate(e, conv, cals)})
        first == IF conv \in {"FOLLOWING", "MOD_FOLLOWING"} THEN after ELSE before
        other == IF conv \in {"FOLLOWING", "MOD_FOLLOWING"} THEN before ELSE after
    IN CASE conv = "NO_ADJUSTMENT" -> d
         [] IsModified(conv) /\ MonthOf(first) # MonthOf(d) -> other
         [] OTHER -> first

\* What the name of a roll says of its date.
OnRoll(d, roll) ==
    CASE roll.kind = "day" -> ToDmy(d).d = roll.n
      [] roll.kind = "weekday" -> DayOfWeek(d) = (roll.n + 1) % 7
      [] roll.kind = "EOM" -> MonthOf(d + 1) # MonthOf(d)
      [] roll.kind = "IMM" -> DayOfWeek(d) = 3 /\ ToDmy(d).d \in 15..21
      [] OTHER -> TRUE

Done(ops) == pc = "done" /\ then # "none" /\ call.op \in ops

\* A date is moved to the nearest good date in the direction of its convention, and to the
\* other side if that is in another month; a date that rolls is on its day or weekday and not
\* before its start; an offset has passed as many good days as were asked for, unless it gave up
\* (rq_date_roll.c, adjust_date, get_date, days_offset).
RollsRight ==
    /\ Done({"adjust", "roll", "offset_term"}) => date = RolledTo(origin, call.conv, call.cals)
    /\ Done({"roll"}) => /\ OnRoll(origin, call.roll)
                         /\ AddTerm(call.date, call.term[1], IsModified(call.conv)) >= call.date /\ call.roll.kind \in {"day", "weekday"}
                               => origin >= call.date
    /\ Done({"offset"}) =>
          LET passed == {d \in Min({origin, date})..Max({origin, date}) : d # origin /\ Good(d)}
          IN /\ Cardinality(passed) = (IF call.n > 0 THEN call.n ELSE -call.n) - left
             /\ call.n # 0 => (date > origin) = (call.n > 0)
             /\ left = 0 => call.n = 0 \/ date \in passed
             /\ left > 0 => count = OffsetCap

Times(k, t) == [f \in DOMAIN t |-> k * t[f]]

\* The dates that a schedule should have after its first one: as long as they are not past
\* the other end, the start moved by one term, by two, and so on.
Wanted(from, t) ==
    LET at[k \in 1..60] == RolledTo(Unadjusted(from, Times(k, t), call), call.conv, call.cals)
        past(k) == IF call.stub = "START" THEN at[k] < limit ELSE at[k] > limit
        last == Min({k \in 1..60 : past(k)} \cup {61})
    IN {at[k] : k \in 1..(last - 1)}

\* The calendar, counted by: the day after a day of a month.
DayAfter(dmy) ==
    IF dmy.d < DaysInMonth(dmy.m, dmy.y) THEN [dmy EXCEPT !.d = @ + 1]
    ELSE IF dmy.m < 12 THEN [d |-> 1, m |-> dmy.m + 1, y |-> dmy.y]
    ELSE [d |-> 1, m |-> 1, y |-> dmy.y + 1]

\* A date that is taken apart and made again is the same, and the next is the next.
CountedRight(d) == /\ FromDmy(ToDmy(d).d, ToDmy(d).m, ToDmy(d).y) = d
                   /\ ToDmy(d + 1) = DayAfter(ToDmy(d))

\* A schedule forward has each date once, in order, from the first good date; all those
\* wanted are there unless the caller's array is full, and the other end is its last date if
\* a stub was asked for.  A schedule backward is the same turned round, in which the start
\* always is a date, and dates may be there twice (rq_date_roll_generate_dates).  From its start to
\* its end the days are those of the calendar, until February 2100 (rq_date.c).
ScheduleRight ==
    /\ Done({"generate"}) => \A d \in call.date..call.end : CountedRight(d)
    /\ Done({"generate"}) /\ call.term # <<NoTerm>> =>
        LET back == call.stub = "START"
            from == IF back THEN call.end ELSE call.date
            t == IF back THEN TermInvert(call.term[1]) ELSE call.term[1]
            ends == IF call.stub = "NONE" THEN {} ELSE {limit}
            all == {RolledTo(from, call.conv, call.cals)} \cup Wanted(from, t) \cup ends
            n == Len(dates)
        IN /\ n <= call.max
           /\ \A i \in 1..(n - 1) : IF back THEN dates[i] <= dates[i + 1] ELSE dates[i] < dates[i + 1]
           /\ ToSet(dates) \subseteq all
           /\ n < call.max - 1 => ToSet(dates) = all
           /\ call.n > 0 /\ n < call.max - 1 => dates[n] = limit

\* The length of a period day by day: a part of the year each day is in.
DaysIn(a, b, length) == Cardinality({d \in a..(b - 1) : YearLength(d) = length})

\* The two computations of a year fraction agree on every period of a schedule, and so do
\* actual/actual ISDA and the days of each year over its length, and business days without
\* holidays and weekdays (rq_day_count.c).
FractionsRight ==
    Done({"generate"}) =>
        \A i \in 1..(Len(dates) - 1) :
            LET a == dates[i]
                b == dates[i + 1]
            IN a < b =>
                /\ \A conv \in Conventions : SameFrac(YearFraction(conv, a, b, call.cals), Parts(conv, a, b, call.cals))
                /\ SameFrac(ISDA(a, b), Frac(0, 366 * DaysIn(a, b, 365) + 365 * DaysIn(a, b, 366), 365 * 366))
                /\ WeekdayDiff(a, b) = BusinessDays([weekend |-> {0, 6}, holidays |-> {}], a + 1, b)

\* The month of the date has no good date, and the convention keeps the date in its month.
Trapped == /\ IsModified(call.conv)
           /\ \A d \in (origin - 31)..(origin + 31) : MonthOf(d) = MonthOf(origin) => ~Good(d)

\* Every call returns, unless a date has to stay in a month without a good date.
Returns == <>(pc \in {"done", "halted"} \/ Trapped)

=============================================================================
