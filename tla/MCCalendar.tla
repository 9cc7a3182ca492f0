------------------------------ MODULE MCCalendar ------------------------------
(***************************************************************************)
(* Every day from 1970 to 2134, which holds the leap year 2000, the common *)
(* year 2100 and the end of an era of 400 years.                           *)
(***************************************************************************)
EXTENDS Calendar

CONSTANT LastDay

\* The last day of the year 9999: the store takes no later one.
ASSUME CalendarAssumption == LastDay \in Nat /\ LastDay <= 2932896

VARIABLES day, date

calendarVars == <<day, date>>

NoDay == -1
NoDate == Date(0, 0, 0)

CalendarInit == day \in 0..LastDay /\ date = NoDate
CalendarIdle == day = NoDay /\ date = NoDate

Convert == /\ day # NoDay /\ date = NoDate
           /\ date' = CivilFromDays(day)
           /\ UNCHANGED day
-----------------------------------------------------------------------------
\* The dates written follow the calendar day by day from the epoch, and the
\* store, which has its own idea of the months, accepts each of them.
CalendarIsExact ==
    date # NoDate =>
       /\ day = 0 => date = Date(1970, 1, 1)
       /\ CivilFromDays(day + 1) = NextDate(date)
       /\ ValidDate(date)
=============================================================================
