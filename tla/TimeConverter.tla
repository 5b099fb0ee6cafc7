---------------------------- MODULE TimeConverter ----------------------------
(***************************************************************************)
(* TimeConverter: dates to teaching weeks and weekdays, times of day to the *)
(* hours they touch.  A date is a day number, a time the minutes since      *)
(* midnight, and a mask of hours the set of its bits: bit 0 is 7:00 to      *)
(* 8:00, bit 14 is 21:00 to 22:00.                                          *)
(***************************************************************************)
EXTENDS Integers, FiniteSets

CONSTANT TermWeeks      \* 20

Slots == 0..14

\* stringToDate: mktime of local midnight, in hours. On the days of summer the
\* clock is an hour ahead (tm_isdst is -1, so mktime looks it up).
Midnight(summer, date) == 24 * date - (IF date \in summer THEN 1 ELSE 0)

\* Division of C++, which rounds towards zero.
Quotient(a, b) == IF a >= 0 THEN a \div b ELSE -((-a) \div b)

DaysBetween(summer, start, date) ==
  Quotient(Midnight(summer, date) - Midnight(summer, start), 24)

\* convertDateToWeekAndDay: week and day are out parameters, left as they were
\* for a date before the term and written for one after it.
MutWeekAndDay(summer, start, date, was) ==
  LET days == DaysBetween(summer, start, date) IN
    IF days < 0 THEN [ok |-> FALSE, week |-> was.week, day |-> was.day]
    ELSE [ok |-> days \div 7 + 1 \in 1..TermWeeks,
          week |-> (days + 6) \div 7 + 1, day |-> (days % 7) + 1]

WeekAndDay(summer, start, date, was) ==
  LET days == DaysBetween(summer, start, date) IN
    IF days < 0 THEN [ok |-> FALSE, week |-> was.week, day |-> was.day]
    ELSE [ok |-> days \div 7 + 1 \in 1..TermWeeks,
          week |-> days \div 7 + 1, day |-> (days % 7) + 1]

MutHourMask(from, to) == {i \in Slots : from < 60 * (8 + i) /\ to > 60 * (8 + i)}

\* calculateHourMask: the hours that the time meets.
HourMask(from, to) == {i \in Slots : from < 60 * (8 + i) /\ to > 60 * (7 + i)}

\* convertQmlPeriodToDayMask
PeriodMask(period) == CASE period = 1 -> {1, 2}
                        [] period = 2 -> {3, 4}
                        [] period = 3 -> {7, 8}
                        [] period = 4 -> {9, 10}
                        [] OTHER -> {}

\* calculateDurationByMask
DurationByMask(mask) == Cardinality(mask \intersect Slots)
=============================================================================
