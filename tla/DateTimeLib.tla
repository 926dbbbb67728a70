---------------------------- MODULE DateTimeLib ----------------------------
(***************************************************************************)
(* The calendar arithmetic of libraries/DateTimeLib.sol that monthly loans *)
(* depend on.  A timestamp counts SecondsPerDay ticks a day from the first *)
(* day of month 0.  The civil-calendar formulas of _daysToDate and         *)
(* _daysFromDate are replaced by what they compute: the lengths of the     *)
(* months, which MonthLengths lists and which repeat after the last one.   *)
(***************************************************************************)
EXTENDS Naturals, Sequences

CONSTANTS MonthLengths, \* days of the successive months, a non-empty sequence
          SecondsPerDay

ASSUME CalendarAssumption ==
    /\ MonthLengths \in Seq(Nat \ {0}) /\ MonthLengths # << >>
    /\ SecondsPerDay \in Nat \ {0}

\* Days in month i, counted from month 0 (_getDaysInMonth).
MonthLength(i) == MonthLengths[(i % Len(MonthLengths)) + 1]

\* Days before each of the months of MonthLengths, and then in all of them.
DaysBefore[i \in 0 .. Len(MonthLengths)] ==
    IF i = 0 THEN 0 ELSE DaysBefore[i - 1] + MonthLengths[i]

\* The day number on which month i starts (_daysFromDate with day 1).
MonthStart(i) ==
    LET n == Len(MonthLengths)
    IN  (i \div n) * DaysBefore[n] + DaysBefore[i % n]

\* The month a timestamp falls in (_daysToDate, year * 12 + month).
MonthOf(t) ==
    LET day == t \div SecondsPerDay
    IN  CHOOSE i \in 0 .. day : MonthStart(i) <= day /\ day < MonthStart(i + 1)

\* The day of the month of a timestamp, from 1.
GetDay(t) == (t \div SecondsPerDay) - MonthStart(MonthOf(t)) + 1

\* Months between two timestamps; days within the month do not count.
DiffMonths(from, to) == MonthOf(to) - MonthOf(from)

\* The same day and time n months later, moved back to the last day of a
\* month that is too short.
AddMonths(t, n) ==
    LET month == MonthOf(t) + n
        day   == IF GetDay(t) > MonthLength(month) THEN MonthLength(month) ELSE GetDay(t)
    IN  (MonthStart(month) + day - 1) * SecondsPerDay + (t % SecondsPerDay)
=============================================================================
