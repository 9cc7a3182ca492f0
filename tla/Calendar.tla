------------------------------ MODULE Calendar ------------------------------
(***************************************************************************)
(* The calendar arithmetic of infra.rs behind observed_at: days since      *)
(* 1970-01-01 to a civil date, and the date check of valid_iso_instant.    *)
(* Days are never negative: a clock before 1970 counts as 1970.            *)
(***************************************************************************)
EXTENDS Integers

Date(year, month, day) == [year |-> year, month |-> month, day |-> day]
-----------------------------------------------------------------------------
(* Faulty variants.                                                         *)

YearOfEra_NoCenturies(day_of_era) ==
    (day_of_era - day_of_era \div 1460 - day_of_era \div 146096) \div 365
-----------------------------------------------------------------------------
\* 400 years are 146097 days; the year of an era starts in March.
YearOfEra(day_of_era) ==
    (day_of_era - day_of_era \div 1460 + day_of_era \div 36524
       - day_of_era \div 146096) \div 365

CivilFromDays(days_since_epoch) ==
    LET z == days_since_epoch + 719468
        era == z \div 146097
        day_of_era == z - era * 146097
        year_of_era == YearOfEra(day_of_era)
        day_of_year == day_of_era - (365 * year_of_era + year_of_era \div 4
                                       - year_of_era \div 100)
        month_prime == (5 * day_of_year + 2) \div 153
        day == day_of_year - (153 * month_prime + 2) \div 5 + 1
        month == month_prime + (IF month_prime < 10 THEN 3 ELSE -9)
        year == year_of_era + era * 400
    IN  Date(IF month <= 2 THEN year + 1 ELSE year, month, day)

IsLeap(year) == year % 400 = 0 \/ (year % 4 = 0 /\ year % 100 # 0)

DaysInMonth(year, month) ==
    CASE month \in {4, 6, 9, 11}      -> 30
      [] month = 2 /\ IsLeap(year)    -> 29
      [] month = 2 /\ ~IsLeap(year)   -> 28
      [] OTHER                        -> 31

\* The date part of valid_iso_instant, four digits for the year.
ValidDate(d) == /\ 1 <= d.year /\ d.year <= 9999
                /\ d.month \in 1..12
                /\ d.day \in 1..DaysInMonth(d.year, d.month)
-----------------------------------------------------------------------------
(* Reference: the calendar, one day after the other.                        *)

NextDate(d) ==
    CASE d.day < DaysInMonth(d.year, d.month) -> [d EXCEPT !.day = @ + 1]
      [] d.day = DaysInMonth(d.year, d.month) /\ d.month < 12 ->
            Date(d.year, d.month + 1, 1)
      [] OTHER -> Date(d.year + 1, 1, 1)
=============================================================================
