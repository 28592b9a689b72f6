------------------------------ MODULE Calendar ------------------------------
(* NaiveDate between two years.  A date is the number of days since the first *)
(* of them, a month the number of months since year 0; the calendar ends, as  *)
(* NaiveDate does.                                                            *)
EXTENDS Integers, FiniteSetsExt

CONSTANTS
  None,                 \* an absent value, or a date out of the calendar
  FirstYear, LastYear

ASSUME CalendarAssumption ==
  FirstYear \in Nat /\ LastYear \in Nat /\ FirstYear <= LastYear /\ None \notin Int

IsLeap(y) == (y % 4 = 0 /\ y % 100 # 0) \/ y % 400 = 0

MonthLength(m) ==
  IF m % 12 = 1 THEN IF IsLeap(m \div 12) THEN 29 ELSE 28
  ELSE IF m % 12 \in {3, 5, 8, 10} THEN 30 ELSE 31

FirstMonth == 12 * FirstYear
LastMonth == 12 * LastYear + 11

MonthStart[m \in FirstMonth .. LastMonth + 1] ==
  IF m = FirstMonth THEN 0 ELSE MonthStart[m - 1] + MonthLength(m - 1)

LastDay == MonthStart[LastMonth + 1] - 1
Days == 0 .. LastDay

MonthAt == [d \in 0 .. LastDay |->
  CHOOSE m \in FirstMonth .. LastMonth : MonthStart[m] <= d /\ d < MonthStart[m + 1]]
MonthOf(d) == MonthAt[d]

DayOf(d) == d - MonthStart[MonthOf(d)]

CheckedAddDays(d, n) == IF d + n <= LastDay THEN d + n ELSE None

(* The day of the month is kept, or is the last of a shorter month. *)
CheckedAddMonths(d, n) ==
  LET m == MonthOf(d) + n IN
  IF m > LastMonth THEN None ELSE MonthStart[m] + Min({DayOf(d), MonthLength(m) - 1})
=============================================================================
