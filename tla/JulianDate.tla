----------------------------- MODULE JulianDate -----------------------------
(***************************************************************************)
(* The date arithmetic of rq_date.c and rq_term.c: a date is its Julian    *)
(* day number, a term a number of days, weeks, months and years, any of    *)
(* which may be negative.  C's division truncates; where an operand may be *)
(* negative the definition says so.                                        *)
(***************************************************************************)
EXTENDS Integers

\* Slip: the century that is no leap year is not made up for.
FromDmy_Century(d, m, y) ==
    367 * y - (7 * (y + ((m + 9) \div 12))) \div 4 + (275 * m) \div 9 + d + 1721014

\* rq_date_from_dmy: a day past the end of its month lands in the next one.
FromDmy(d, m, y) ==
    LET julian == 367 * y - (7 * (y + ((m + 9) \div 12))) \div 4 + (275 * m) \div 9 + d + 1721014
    IN IF 100 * y + m <= 190002 THEN julian + 1 ELSE julian

\* The day, month and year of a date, date_to_dmy of rq_date_cache_generator.c.
DateToDmy(date) ==
    LET l == date + 68569
        n == (4 * l) \div 146097
        rest == l - (146097 * n + 3) \div 4
        it == (4000 * (rest + 1)) \div 1461001
        yday == rest - (1461 * it) \div 4 + 31
        mon == (80 * yday) \div 2447
        late == mon \div 11
    IN [d |-> yday - (2447 * mon) \div 80, m |-> mon + 2 - 12 * late, y |-> 100 * (n - 49) + it + late]

\* rq_dmy_cache: what the generator has written for the years from 2000 to 2099.
CacheStart == 2451545
CacheSize == 36525
DmyCache == [date \in CacheStart..(CacheStart + CacheSize - 1) |-> DateToDmy(date)]

\* rq_date_to_dmy; the dates that are looked at are not 0.
ToDmy(date) ==
    IF date >= CacheStart /\ date - CacheStart < CacheSize THEN DmyCache[date] ELSE DateToDmy(date)

DayOfWeek(date) == (date + 1) % 7
Leap(y) == y % 400 = 0 \/ (y % 4 = 0 /\ y % 100 # 0)

DaysInMonth(m, y) ==
    IF m = 2 THEN (IF Leap(y) THEN 29 ELSE 28)
    ELSE IF m \in {4, 6, 9, 11} THEN 30 ELSE 31

\* The month that rq_date_add_months reaches.
MonthsFrom(dmy, months) ==
    IF months > 0
    THEN [m |-> ((dmy.m + months - 1) % 12) + 1, y |-> dmy.y + (dmy.m + months - 1) \div 12]
    ELSE LET back == -months
         IN IF back >= dmy.m THEN [m |-> 12 - ((back - dmy.m) % 12), y |-> dmy.y - ((back - dmy.m) \div 12) - 1]
            ELSE [m |-> dmy.m - back, y |-> dmy.y]

\* rq_date_add_months: past the last day of the month, or on it.
AddMonths(date, months, sticky) ==
    LET dmy == ToDmy(date)
        to == MonthsFrom(dmy, months)
        last == DaysInMonth(to.m, to.y)
    IN IF months = 0 THEN date
       ELSE IF dmy.d > last
       THEN FromDmy(last, to.m, to.y) + (IF sticky THEN 0 ELSE dmy.d - last)
       ELSE FromDmy(dmy.d, to.m, to.y)

\* rq_date_add_years: the 29th of February becomes the 1st of March.
AddYears(date, years) == LET dmy == ToDmy(date) IN FromDmy(dmy.d, dmy.m, dmy.y + years)

\* rq_date_add_term_sticky_month, and rq_date_add_term without sticking.
AddTerm(date, t, sticky) ==
    AddYears(AddMonths(date + t.days + 7 * t.weeks, t.months, sticky), t.years)

\* rq_term_add_term and rq_term_invert.
NoTerm == [days |-> 0, weeks |-> 0, months |-> 0, years |-> 0]
TermPlus(t, u) == [f \in DOMAIN t |-> t[f] + u[f]]
TermInvert(t) == [f \in DOMAIN t |-> -t[f]]

\* rq_date_month_diff: of the later month from the earlier, whatever the days.
MonthDiff(d1, d2) ==
    LET a == ToDmy(IF d2 < d1 THEN d2 ELSE d1)
        b == ToDmy(IF d2 < d1 THEN d1 ELSE d2)
        years == IF b.m < a.m THEN b.y - a.y - 1 ELSE b.y - a.y
        months == IF b.m < a.m THEN 12 - a.m + b.m ELSE b.m - a.m
        all == IF years > 0 THEN months + 12 * years ELSE months
    IN IF d2 < d1 THEN -all ELSE all

\* rq_date_weekdays and rq_date_weekday_diff.
Weekdays(date) == (date \div 7) * 5 + (IF date % 7 < 4 THEN date % 7 ELSE 4)
WeekdayDiff(d1, d2) == Weekdays(d2) - Weekdays(d1)
=============================================================================
