------------------------------- MODULE Calendar -------------------------------
(***************************************************************************)
(* The whole-day arithmetic of fmt/dates.ts, which the Gantt chart, the    *)
(* date picker and the history share.                                      *)
(*                                                                         *)
(* A day is a number, an instant a number of hours; a day's local midnight *)
(* is not a multiple of 24 once the clock has been changed.  A day string  *)
(* YYYY-MM-DD is the pair of its month and its day of the month, which     *)
(* need not exist: the code compares and parses such strings.              *)
(***************************************************************************)
EXTENDS Integers, Sequences, FiniteSets

CONSTANTS MonthLengths,  \* the lengths of consecutive months; day 0 starts the first
          FirstMonth,    \* the month of the year of the first of them, January being 0
          FirstWeekday,  \* the weekday of day 0, Monday being 0
          ShortDays,     \* the days of 23 hours
          LongDays       \* the days of 25 hours

Months == DOMAIN MonthLengths

MonthStart[m \in 1..Len(MonthLengths) + 1] ==
  IF m = 1 THEN 0 ELSE MonthStart[m - 1] + MonthLengths[m - 1]

Horizon == MonthStart[Len(MonthLengths) + 1]
Days    == 0..Horizon - 1

MonthOf == [d \in Days |-> CHOOSE m \in Months : MonthStart[m] <= d /\ d < MonthStart[m + 1]]
DayOfMonth(d) == d - MonthStart[MonthOf[d]] + 1
YearOf(d)     == (MonthOf[d] - 1 + FirstMonth) \div 12
Weekday(d)    == (d + FirstWeekday) % 7

Midnight == [d \in 0..Horizon |-> 24 * d + Cardinality({x \in LongDays : x < d})
                                        - Cardinality({x \in ShortDays : x < d})]

DayOf(t) == CHOOSE d \in t \div 24 - 1..t \div 24 + 1 :
              d \in Days /\ Midnight[d] <= t /\ t < Midnight[d + 1]

-----------------------------------------------------------------------------
(* Day strings.  A day past the end of its month rolls over into the next. *)

ParseDay(s)  == MonthStart[s[1]] + s[2] - 1
FmtDay(d)    == <<MonthOf[d], DayOfMonth(d)>>
IsDay(s)     == ParseDay(s) \in Days /\ FmtDay(ParseDay(s)) = s
Before(s, u) == s[1] < u[1] \/ (s[1] = u[1] /\ s[2] < u[2])

AddDays(d, n)   == d + n
SmallerOf(a, b) == IF a < b THEN a ELSE b
LargerOf(a, b)  == IF a < b THEN b ELSE a

\* A bug: setMonth without the clamp, 31 January rolls into March.
AddMonths_Unclamped(d, n) == MonthStart[MonthOf[d] + n] + DayOfMonth(d) - 1
AddMonths(d, n) ==
  LET m == MonthOf[d] + n
  IN  MonthStart[m] + SmallerOf(DayOfMonth(d), MonthLengths[m]) - 1

IsWeekend(d) == Weekday(d) \in {5, 6}
MondayOf(d)  == AddDays(d, -Weekday(d))

\* The hour a change of the clock adds or takes is rounded away.
DaysBetween(a, b) == (Midnight[b] - Midnight[a] + 12) \div 24

CalendarBreakdown(from, to) ==
  LET a      == SmallerOf(from, to)
      b      == LargerOf(from, to)
      span   == MonthOf[b] - MonthOf[a]
      months == IF AddMonths(a, span) > b THEN span - 1 ELSE span
  IN  [years  |-> months \div 12, months |-> months % 12,
       days   |-> DaysBetween(AddMonths(a, months), b)]

\* Six weeks around the month of a day, Monday first.
MonthGrid(anchor) ==
  LET start == MondayOf(MonthStart[MonthOf[anchor]])
  IN  [i \in 1..42 |-> AddDays(start, i - 1)]
=============================================================================
