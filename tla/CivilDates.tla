------------------------------ MODULE CivilDates ------------------------------
(***************************************************************************)
(* DateTime arithmetic (num-runtime/src/datetime.rs).  A date is accepted  *)
(* by a table of month lengths, and becomes a number of days, and is made  *)
(* of one, by a closed formula over cycles of 400 years.  A behaviour      *)
(* counts the days of one year with the table; the days before that year   *)
(* are counted with it too.  Times count the hours of a day, where the     *)
(* code counts its seconds.                                                *)
(***************************************************************************)
EXTENDS Integers, FiniteSets

CONSTANTS FirstYear, LastYear   \* bounds: the years that are counted

VARIABLES
    date,   \* the day that is looked at
    days    \* the days counted from 1 January 1970 to it

vars == <<date, days>>

Date(y, m, d) == [year |-> y, month |-> m, day |-> d]

IsLeapYear(y) == (y % 4 = 0 /\ y % 100 # 0) \/ y % 400 = 0

DaysInMonth(y, m) ==
    CASE m \in {1, 3, 5, 7, 8, 10, 12} -> 31
      [] m \in {4, 6, 9, 11} -> 30
      [] m = 2 -> IF IsLeapYear(y) THEN 29 ELSE 28
      [] OTHER -> 0

\* parse_iso_utc_parts
Accepted(d) == d.month \in 1 .. 12 /\ d.day \in 1 .. DaysInMonth(d.year, d.month)

DaysFromCivil(y, m, d) ==
    LET year == y - (IF m <= 2 THEN 1 ELSE 0)
        era == year \div 400
        yoe == year - era * 400
        doy == (153 * (m + IF m > 2 THEN -3 ELSE 9) + 2) \div 5 + d - 1
        doe == yoe * 365 + yoe \div 4 - yoe \div 100 + doy IN
    era * 146097 + doe - 719468

\* Faulty variant: the last day of a cycle is not taken out.
YearOfEraUncorrected(doe) == (doe - doe \div 1460 + doe \div 36524) \div 365

YearOfEra(doe) == (doe - doe \div 1460 + doe \div 36524 - doe \div 146096) \div 365

CivilFromDays(n) ==
    LET shifted == n + 719468
        era == shifted \div 146097
        doe == shifted - era * 146097
        yoe == YearOfEra(doe)
        doy == doe - (365 * yoe + yoe \div 4 - yoe \div 100)
        mp == (5 * doy + 2) \div 153
        month == mp + IF mp < 10 THEN 3 ELSE -9 IN
    Date(yoe + era * 400 + (IF month <= 2 THEN 1 ELSE 0), month,
         doy - (153 * mp + 2) \div 5 + 1)

\* shift_duration_hours
Shift(d, hour, hours) ==
    LET at == DaysFromCivil(d.year, d.month, d.day) * 24 + hour + hours IN
    [date |-> CivilFromDays(at \div 24), hour |-> at % 24]

-----------------------------------------------------------------------------
LeapDays(years) == Cardinality({y \in years : IsLeapYear(y)})

\* The days from 1 January 1970 to the first day of a year.
DaysBefore(y) == 365 * (y - 1970) + LeapDays(1970 .. y - 1) - LeapDays(y .. 1969)

TypeOK == Accepted(date) /\ days \in Int

Init ==
    \E y \in FirstYear .. LastYear : date = Date(y, 1, 1) /\ days = DaysBefore(y)

NextDay ==
    /\ date # Date(date.year, 12, 31)
    /\ date' = IF date.day < DaysInMonth(date.year, date.month)
               THEN [date EXCEPT !.day = @ + 1]
               ELSE Date(date.year, date.month + 1, 1)
    /\ days' = days + 1

Next == NextDay

Spec == Init /\ [][Next]_vars

-----------------------------------------------------------------------------
(* Properties.                                                             *)

\* The table and the formula agree: what the parser accepts is numbered in
\* calendar order without a gap, over the end of centuries and of cycles.
DatesAreCounted == DaysFromCivil(date.year, date.month, date.day) = days

\* The way back gives the same date, and so one that the parser accepts.
DaysAreDates == CivilFromDays(days) = date

\* A duration that is added and subtracted again leads back, also over the
\* start of the count and to the last day of a cycle (1416 hours are January and
\* February of a leap year); the hour stays one of a day.
ShiftsReturn ==
    \A hour \in {0, 23}, hours \in {-9000, -25, -1, 1, 24, 1416, 9000} :
        LET there == Shift(date, hour, hours)
            back == Shift(there.date, there.hour, -hours) IN
        /\ Accepted(there.date) /\ there.hour \in 0 .. 23
        /\ back.date = date /\ back.hour = hour

\* Days and dates stand for each other, before and after the epoch, and a
\* duration that is added moves by that many hours.
DatesAreDays == DatesAreCounted /\ DaysAreDates /\ ShiftsReturn
=============================================================================
