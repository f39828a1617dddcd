------------------------------ MODULE DayCount ------------------------------
(***************************************************************************)
(* The year fractions of rq_day_count.c, as a number of days over the days *)
(* of a year, and a number of whole years besides.  rq_day_count.c has the *)
(* computation twice, once with its parts returned to the caller; the      *)
(* second (Parts) is written from the second function.                     *)
(***************************************************************************)
EXTENDS JulianDate, FiniteSets

\* A fraction: whole years, and days over year (over 4 * year where a quarter of a
\* day is in the year, as in 365.25).
Frac(whole, days, year) == [whole |-> whole, days |-> days, year |-> year]
SameFrac(a, b) ==
    IF a.year = b.year THEN a.whole * a.year + a.days = b.whole * b.year + b.days
    ELSE (a.whole * a.year + a.days) * b.year = (b.whole * b.year + b.days) * a.year

\* rq_calendar_is_good_date and rq_calendar_businessday_count.
GoodFor(cal, date) == DayOfWeek(date) \notin cal.weekend /\ date \notin cal.holidays
BusinessDays(cal, from, to) == Cardinality({d \in from..to : GoodFor(cal, d)})

\* The months of thirty days.
Thirty(conv, a, b) ==
    LET s == ToDmy(a).d
        e == ToDmy(b).d
        start == IF conv = "30_360" THEN (IF s > 29 THEN 30 ELSE s) ELSE (IF s = 31 THEN 30 ELSE s)
        end == IF e = 31 /\ (conv = "E30_360" \/ s > 29) THEN 30 ELSE e
    IN 30 * MonthDiff(a, b) + end - start

\* The periods that rq_day_count.c takes for regular: how many make a year.
PerYear(days) ==
    CASE days \in 28..31 -> 12
      [] days \in 56..62 -> 6
      [] days \in 87..93 -> 4
      [] days \in 174..186 -> 2
      [] days \in 348..372 -> 1
      [] OTHER -> 0

YearLength(date) == IF Leap(ToDmy(date).y) THEN 366 ELSE 365

\* Slip: the days up to the end of the year and those after it are taken together.
ISDA_OneYear(a, b) == Frac(0, b - a, YearLength(a))

\* Actual/actual ISDA: the days of each year over its length.
ISDA(a, b) ==
    LET y1 == ToDmy(a).y
        y2 == ToDmy(b).y
        left == FromDmy(1, 1, y1 + 1) - a
        used == b - FromDmy(1, 1, y2)
    IN CASE y2 <= y1 -> Frac(0, b - a, YearLength(a))
         [] YearLength(a) = YearLength(b) -> Frac(y2 - y1 - 1, left + used, YearLength(a))
         [] OTHER -> Frac(y2 - y1 - 1, left * YearLength(b) + used * YearLength(a), 365 * 366)

\* Actual/actual AFB: whole years are taken off the end, the rest is over 366 days if it
\* holds a 29th of February.  When taking them off reaches the start, they stay on.
AFB(a, b) ==
    LET years == (b - a) \div 366
        e == ToDmy(b)
        y == e.y - years
        start == ToDmy(a).y
        day == CASE e.m = 2 /\ e.d = 29 /\ ~Leap(y) -> 28
                 [] e.m = 2 /\ e.d = 28 /\ Leap(y) -> 29
                 [] OTHER -> e.d
        to == FromDmy(day, e.m, y)
        feb29 == IF Leap(y) THEN FromDmy(29, 2, y) ELSE IF Leap(start) THEN FromDmy(29, 2, start) ELSE 0
        first == FromDmy(29, 2, start)
    IN CASE years > 0 /\ to > a -> Frac(years, to - a, IF to > feb29 /\ a <= feb29 THEN 366 ELSE 365)
         [] years <= 0 /\ Leap(start) /\ b > first /\ a <= first -> Frac(0, b - a, 366)
         [] OTHER -> Frac(0, b - a, 365)

\* rq_day_count_get_year_fraction; cal is the calendar of rq_day_count_set_bus_252_calendar,
\* if one was set.
YearFraction(conv, a, b, cals) ==
    CASE conv = "ACTUAL_360" -> Frac(0, b - a, 360)
      [] conv \in {"30_360", "E30_360"} -> Frac(0, Thirty(conv, a, b), 360)
      [] conv = "ACTUAL_ACTUAL" ->
            IF PerYear(b - a) = 0 THEN Frac(0, b - a, 365) ELSE Frac(0, 1, PerYear(b - a))
      [] conv = "ACTUAL_365_25" -> Frac(0, 4 * (b - a), 1461)
      [] conv = "ACTUAL_365" -> Frac(0, b - a, 365)
      [] conv = "ISDA" -> ISDA(a, b)
      [] conv = "AFB" -> AFB(a, b)
      [] conv = "ACTUAL_365_END" -> Frac(0, b - a, YearLength(b))
      [] conv = "BUS_252" ->
            Frac(0, IF cals = <<>> THEN WeekdayDiff(a, b) ELSE BusinessDays(cals[1], a + 1, b), 252)
      [] OTHER -> Frac(0, b - a, YearLength(a))

\* rq_day_count_get_year_fraction_nfd: 365 days unless one of the branches says otherwise.
Parts(conv, a, b, cals) ==
    LET other == CASE conv = "ACTUAL_360" -> 360
                   [] conv \in {"30_360", "E30_360"} -> 360
                   [] conv = "ACTUAL_ACTUAL" /\ PerYear(b - a) # 0 -> (b - a) * PerYear(b - a)
                   [] conv = "ACTUAL_365_END" -> YearLength(b)
                   [] conv = "BUS_252" -> 252
                   [] conv = "ACTUAL_365_ACTUAL" -> YearLength(a)
                   [] OTHER -> 365
    IN CASE conv \in {"30_360", "E30_360"} -> Frac(0, Thirty(conv, a, b), other)
         [] conv = "ACTUAL_365_25" -> Frac(0, 4 * (b - a), 1461)
         [] conv = "ISDA" -> ISDA(a, b)
         [] conv = "AFB" -> AFB(a, b)
         [] conv = "BUS_252" ->
              Frac(0, IF cals = <<>> THEN WeekdayDiff(a, b) ELSE BusinessDays(cals[1], a + 1, b), other)
         [] OTHER -> Frac(0, b - a, other)

Conventions == {"ACTUAL_360", "30_360", "E30_360", "ACTUAL_ACTUAL", "ACTUAL_365_25", "ACTUAL_365", "ISDA",
                "AFB", "ACTUAL_365_END", "BUS_252", "ACTUAL_365_ACTUAL"}
=============================================================================
