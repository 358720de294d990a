------------------------------ MODULE Calendar ------------------------------
(***************************************************************************)
(* The timestamps of deposits and storage logs. civil_from_unix_secs turns *)
(* seconds into a date with Hinnant's closed formulas; here it is compared *)
(* with a clock that only knows how many days a month has.                 *)
(***************************************************************************)
EXTENDS Integers

CONSTANT Days  \* bound: the number of days the clock walks

ASSUME CalendarAssumption == Days \in Nat

VARIABLES
    day,   \* days since 1970-01-01, secs.div_euclid(86_400)
    tod,   \* second of the day, secs.rem_euclid(86_400)
    date,  \* year, month and day the clock shows
    time   \* hour, minute and second the clock shows

vars == <<day, tod, date, time>>

-----------------------------------------------------------------------------
(* civil_from_unix_secs.                                                   *)

\* Operators named ...Mutant are plausible bugs; PROJECT.json pairs each with
\* the definition it replaces and the property that must catch it.
YearOfEraMutant(doe) == (doe - doe \div 1460 + doe \div 36524) \div 365

\* Days are counted from 0000-03-01, so that leap days end a year, and divided
\* into eras of 400 years.
Era(z) == (IF z >= 0 THEN z ELSE z - 146096) \div 146097
DayOfEra(z) == z - Era(z) * 146097
YearOfEra(doe) == (doe - doe \div 1460 + doe \div 36524 - doe \div 146096) \div 365
DayOfYear(doe) ==
    LET yoe == YearOfEra(doe) IN doe - (365 * yoe + yoe \div 4 - yoe \div 100)

\* Months count from March.
Month(mp) == IF mp < 10 THEN mp + 3 ELSE mp - 9

CivilDate(d) ==
    LET z   == d + 719468
        doe == DayOfEra(z)
        doy == DayOfYear(doe)
        mp  == (5 * doy + 2) \div 153
        m   == Month(mp)
        y   == YearOfEra(doe) + Era(z) * 400
    IN  [year |-> IF m <= 2 THEN y + 1 ELSE y, month |-> m,
         day |-> doy - (153 * mp + 2) \div 5 + 1]

CivilTime(s) == [hour |-> s \div 3600, minute |-> (s % 3600) \div 60, second |-> s % 60]

-----------------------------------------------------------------------------
(* The clock.                                                              *)

Leap(y) == y % 4 = 0 /\ (y % 100 # 0 \/ y % 400 = 0)
Length(y, m) ==
    CASE m = 2 -> IF Leap(y) THEN 29 ELSE 28
      [] m \in {4, 6, 9, 11} -> 30
      [] OTHER -> 31

Tomorrow(c) ==
    IF c.day < Length(c.year, c.month) THEN [c EXCEPT !.day = @ + 1]
    ELSE IF c.month < 12 THEN [year |-> c.year, month |-> c.month + 1, day |-> 1]
    ELSE [year |-> c.year + 1, month |-> 1, day |-> 1]

\* Add an hour, a minute and a second; overflow carries.
Carry(t) ==
    LET s == t.second + 1
        m == t.minute + 1 + s \div 60
        h == t.hour + 1 + m \div 60
    IN  [hour |-> h, minute |-> m % 60, second |-> s % 60]

Midnight == [hour |-> 0, minute |-> 0, second |-> 0]

\* The Unix epoch.
Init ==
    /\ day = 0 /\ date = [year |-> 1970, month |-> 1, day |-> 1]
    /\ tod = 0 /\ time = Midnight

\* One day passes, and some time of it, so that every date and in the long run
\* every time of day is met.
Tick ==
    LET t == Carry(time) IN
    /\ day < Days
    /\ day' = day + 1 /\ date' = Tomorrow(date)
    /\ tod' = IF t.hour < 24 THEN tod + 3661 ELSE 0
    /\ time' = IF t.hour < 24 THEN t ELSE Midnight

Next == Tick

Spec == Init /\ [][Next]_vars

-----------------------------------------------------------------------------
(* Properties.                                                             *)

\* The formulas give the date and the time of the calendar, across months,
\* leap years, and the centuries that are leap years and those that are not.
\* Storage logs are sorted by the string the fields are written to, each
\* with its leading zeros, so a wrong field would also put them out of order.
CivilIsCalendar == CivilDate(day) = date /\ CivilTime(tod) = time

=============================================================================
