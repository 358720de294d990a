--------------------------- MODULE CalendarProofs ---------------------------
(***************************************************************************)
(* The closed formulas of civil_from_unix_secs agree with the calendar on  *)
(* every day from the epoch on: one day later they give the next date.     *)
(***************************************************************************)
EXTENDS Calendar, TLAPS

-----------------------------------------------------------------------------
(* Years of an era. They begin in March, so year y of the era ends with the *)
(* February of year y + 1.                                                  *)

\* Days and years of an era, counted from 0.
EraDays == {e \in Nat : e < 146097}
EraYears == {y \in Nat : y < 400}

\* Days of the era before its year y.
YearStart(y) == 365 * y + y \div 4 - y \div 100
YearLength(y) == IF Leap(y + 1) THEN 366 ELSE 365

LEMMA Quotient ==
    ASSUME NEW x \in Nat, NEW n \in Nat \ {0}
    PROVE  x \div n \in Nat /\ n * (x \div n) <= x /\ x < n * (x \div n) + n
OBVIOUS

LEMMA YearLengths ==
    ASSUME NEW y \in EraYears
    PROVE  YearLength(y) =
               IF y - 4 * (y \div 4) = 3 /\ (y - 100 * (y \div 100) # 99 \/ y = 399)
               THEN 366 ELSE 365
BY DEF EraYears, YearLength, Leap

\* The approximation by days of a year, corrected by q, c and m leap days.
LEMMA Approximation ==
    ASSUME NEW e \in Nat, e <= 146096,
           NEW q \in Nat, 1460 * q <= e, e < 1460 * q + 1460,
           NEW c \in Nat, 36524 * c <= e, e < 36524 * c + 36524,
           NEW m \in Nat, 146096 * m <= e, e < 146096 * m + 146096,
           NEW y \in Nat, 365 * y <= e - q + c - m, e - q + c - m < 365 * y + 365,
           NEW a \in Nat, 4 * a <= y, y < 4 * a + 4,
           NEW b \in Nat, 100 * b <= y, y < 100 * b + 100
    PROVE  /\ y <= 399 /\ 365 * y + a - b <= e
           /\ e < 365 * y + a - b + 366
           /\ y - 4 * a # 3 \/ (y - 100 * b = 99 /\ y # 399) => e < 365 * y + a - b + 365
BY SMTT(60)

\* The year found is the year the day falls in.
LEMMA YearOfEraFits ==
    ASSUME NEW e \in EraDays
    PROVE  /\ YearOfEra(e) \in EraYears
           /\ YearStart(YearOfEra(e)) <= e
           /\ e < YearStart(YearOfEra(e)) + YearLength(YearOfEra(e))
<1> DEFINE q == e \div 1460
           c == e \div 36524
           m == e \div 146096
           y == (e - q + c - m) \div 365
           a == y \div 4
           b == y \div 100
<1>0. e \in Nat /\ e <= 146096
  BY DEF EraDays
<1>1. /\ q \in Nat /\ 1460 * q <= e /\ e < 1460 * q + 1460
      /\ c \in Nat /\ 36524 * c <= e /\ e < 36524 * c + 36524
      /\ m \in Nat /\ 146096 * m <= e /\ e < 146096 * m + 146096
  BY <1>0, Quotient, SMT
<1>2. YearOfEra(e) = y
  BY DEF YearOfEra
<1> HIDE DEF q, c, m
<1>3. e - q + c - m \in Nat
  BY <1>0, <1>1, SMT
<1>4. y \in Nat /\ 365 * y <= e - q + c - m /\ e - q + c - m < 365 * y + 365
  BY <1>3, Quotient
<1> HIDE DEF y
<1>5. /\ a \in Nat /\ 4 * a <= y /\ y < 4 * a + 4
      /\ b \in Nat /\ 100 * b <= y /\ y < 100 * b + 100
  BY <1>4, Quotient
<1>6. YearStart(y) = 365 * y + a - b
  BY DEF YearStart
<1> HIDE DEF a, b
<1>7. /\ y <= 399 /\ 365 * y + a - b <= e
      /\ e < 365 * y + a - b + 366
      /\ y - 4 * a # 3 \/ (y - 100 * b = 99 /\ y # 399) => e < 365 * y + a - b + 365
  BY <1>0, <1>1, <1>4, <1>5, Approximation, SMT
<1>8. YearLength(y) =
          IF y - 4 * a = 3 /\ (y - 100 * b # 99 \/ y = 399) THEN 366 ELSE 365
  BY <1>4, <1>7, YearLengths DEF EraYears, a, b
<1>9. y \in EraYears /\ YearStart(y) <= e
  BY <1>4, <1>5, <1>6, <1>7, <1>0, SMT DEF EraYears
<1>10. e < YearStart(y) + YearLength(y)
  <2>1. CASE YearLength(y) = 366
    BY <1>4, <1>5, <1>6, <1>7, <2>1, <1>0, SMT
  <2>2. CASE YearLength(y) = 365
    <3>1. y - 4 * a # 3 \/ (y - 100 * b = 99 /\ y # 399)
      BY <1>8, <2>2, SMT
    <3>2. QED
      BY <1>4, <1>5, <1>6, <1>7, <2>2, <3>1, <1>0, SMT
  <2>3. QED
    BY <2>1, <2>2, <1>8, SMT
<1>11. QED
  BY <1>2, <1>9, <1>10

LEMMA YearsFollow ==
    ASSUME NEW y \in EraYears
    PROVE  YearStart(y) + YearLength(y) = IF y = 399 THEN 146097 ELSE YearStart(y + 1)
BY SMTT(60) DEF EraYears, YearStart, YearLength, Leap

LEMMA YearsAscend ==
    ASSUME NEW a \in EraYears, NEW b \in EraYears, a <= b
    PROVE  YearStart(a) <= YearStart(b)
BY SMTT(60) DEF EraYears, YearStart

LEMMA YearTypes ==
    ASSUME NEW y \in EraYears
    PROVE  /\ y \in Nat /\ y < 400
           /\ YearStart(y) \in Int
           /\ YearLength(y) \in {365, 366}
           /\ y < 399 => y + 1 \in EraYears /\ YearStart(y + 1) < 146097
BY DEF EraYears, YearStart, YearLength

LEMMA YearsApart ==
    ASSUME NEW e \in Nat, NEW a \in EraYears, NEW b \in EraYears, a < b,
           e < YearStart(a) + YearLength(a), YearStart(b) <= e
    PROVE  FALSE
<1>1. a < 399
  BY YearTypes
<1>2. a + 1 \in EraYears /\ a + 1 <= b
  BY <1>1, YearTypes
<1>3. YearStart(a) + YearLength(a) = YearStart(a + 1)
  BY <1>1, YearsFollow
<1>4. YearStart(a + 1) <= YearStart(b)
  BY <1>2, YearsAscend
<1>5. YearStart(a + 1) \in Int /\ YearStart(b) \in Int
  BY <1>2, YearTypes
<1>6. QED
  BY <1>3, <1>4, <1>5

\* No other year of the era has the day.
LEMMA YearOfEraOnly ==
    ASSUME NEW e \in EraDays, NEW y \in EraYears,
           YearStart(y) <= e, e < YearStart(y) + YearLength(y)
    PROVE  YearOfEra(e) = y /\ DayOfYear(e) = e - YearStart(y)
<1> DEFINE x == YearOfEra(e)
<1>0. e \in Nat
  BY DEF EraDays
<1>1. x \in EraYears /\ YearStart(x) <= e /\ e < YearStart(x) + YearLength(x)
  BY YearOfEraFits
<1>2. DayOfYear(e) = e - YearStart(x)
  BY DEF DayOfYear, YearStart
<1> HIDE DEF x
<1>3. x \in Nat /\ y \in Nat
  BY <1>1, YearTypes
<1>4. ~(x < y) /\ ~(y < x)
  BY <1>0, <1>1, YearsApart
<1>5. x = y
  BY <1>3, <1>4
<1>6. QED
  BY <1>2, <1>5 DEF x

\* The next day of the era is the next of the year, or the first of the next.
LEMMA NextOfYear ==
    ASSUME NEW e \in EraDays
    PROVE  LET y == YearOfEra(e) IN
           /\ y \in EraYears
           /\ DayOfYear(e) \in Nat
           /\ DayOfYear(e) < YearLength(y)
           /\ DayOfYear(e) + 1 < YearLength(y)
                  => /\ e + 1 \in EraDays
                     /\ YearOfEra(e + 1) = y /\ DayOfYear(e + 1) = DayOfYear(e) + 1
           /\ DayOfYear(e) + 1 = YearLength(y) /\ e + 1 \in EraDays
                  => y # 399 /\ YearOfEra(e + 1) = y + 1 /\ DayOfYear(e + 1) = 0
           /\ e + 1 \notin EraDays => y = 399 /\ DayOfYear(e) + 1 = YearLength(y)
<1> DEFINE y == YearOfEra(e)
           s == YearStart(y)
           n == YearLength(y)
           d == DayOfYear(e)
<1>0. e \in Nat /\ e < 146097
  BY DEF EraDays
<1> HIDE DEF y, s, n, d
<1>1. y \in EraYears /\ s <= e /\ e < s + n
  BY YearOfEraFits DEF y, s, n
<1>2. d = e - s
  BY DEF DayOfYear, YearStart, d, s, y
<1>3. y \in Nat /\ s \in Int /\ n \in {365, 366} /\ s + n <= 146097
  <2>1. y \in Nat /\ y < 400 /\ s \in Int /\ n \in {365, 366}
    BY <1>1, YearTypes DEF s, n
  <2>2. s + n = IF y = 399 THEN 146097 ELSE YearStart(y + 1)
    BY <1>1, YearsFollow DEF s, n
  <2>3. y < 399 => YearStart(y + 1) < 146097
    BY <1>1, YearTypes
  <2>4. QED
    BY <2>1, <2>2, <2>3, SMT
<1>4. s + n = IF y = 399 THEN 146097 ELSE YearStart(y + 1)
  BY <1>1, YearsFollow DEF s, n
<1>5. y # 399 => y + 1 \in EraYears
  <2>1. y # 399 => y < 399
    BY <1>1 DEF EraYears
  <2>2. QED
    BY <1>1, <2>1, YearTypes
<1>6. ASSUME d + 1 < n
      PROVE  e + 1 \in EraDays /\ YearOfEra(e + 1) = y /\ DayOfYear(e + 1) = d + 1
  <2>1. e + 1 < s + n /\ s <= e + 1 /\ e + 1 < 146097 /\ e + 1 \in Nat
    BY <1>0, <1>1, <1>2, <1>3, <1>6, SMT
  <2>2. e + 1 \in EraDays
    BY <2>1 DEF EraDays
  <2>3. YearOfEra(e + 1) = y /\ DayOfYear(e + 1) = (e + 1) - s
    <3> DEFINE f == e + 1
    <3>1. f \in EraDays /\ YearStart(y) <= f /\ f < YearStart(y) + YearLength(y)
      BY <2>1, <2>2, SMT DEF s, n
    <3> HIDE DEF f
    <3>2. YearOfEra(f) = y /\ DayOfYear(f) = f - YearStart(y)
      BY <1>1, <3>1, YearOfEraOnly
    <3>3. QED
      BY <3>2 DEF f, s
  <2>4. QED
    BY <1>2, <1>3, <1>0, <2>2, <2>3, SMT
<1>7. ASSUME d + 1 = n, e + 1 \in EraDays
      PROVE  y # 399 /\ YearOfEra(e + 1) = y + 1 /\ DayOfYear(e + 1) = 0
  <2>1. e + 1 = s + n /\ e + 1 \in Nat
    BY <1>0, <1>2, <1>3, <1>7, SMT
  <2>2. y # 399
    BY <1>4, <1>7, <2>1, SMT DEF EraDays
  <2>3. e + 1 \in EraDays
    BY <1>7
  <2>4. y + 1 \in EraYears /\ e + 1 = YearStart(y + 1)
    BY <1>4, <1>5, <2>1, <2>2
  <2>5. YearLength(y + 1) \in {365, 366}
    BY <2>4, YearTypes
  <2>6. YearOfEra(e + 1) = y + 1 /\ DayOfYear(e + 1) = (e + 1) - YearStart(y + 1)
    <3> DEFINE b == y + 1
               f == e + 1
    <3>1. f \in EraDays /\ b \in EraYears /\ YearStart(b) <= f /\ f < YearStart(b) + YearLength(b)
      BY <2>1, <2>3, <2>4, <2>5, SMT
    <3> HIDE DEF b, f
    <3>2. YearOfEra(f) = b /\ DayOfYear(f) = f - YearStart(b)
      BY <3>1, YearOfEraOnly
    <3>3. QED
      BY <3>2 DEF b, f
  <2>7. QED
    BY <2>1, <2>2, <2>4, <2>6, SMT
<1>8. ASSUME e + 1 \notin EraDays PROVE y = 399 /\ d + 1 = n
  <2>0. e + 1 = 146097
    BY <1>0, <1>8, SMT DEF EraDays
  <2>1. s + n = 146097
    BY <1>0, <1>1, <1>3, <2>0, SMT
  <2>2. y = 399
    BY <1>1, <1>4, <1>5, <2>1, YearTypes, SMT
  <2>3. QED
    BY <1>0, <1>2, <1>3, <2>0, <2>1, <2>2, SMT
<1>9. d \in Nat /\ d < n
  BY <1>0, <1>1, <1>2, <1>3, SMT
<1>10. QED
  BY <1>1, <1>6, <1>7, <1>8, <1>9 DEF y, n, d

\* The day after the last of an era is the first of the next.
LEMMA NextOfEra ==
    ASSUME NEW z \in Nat
    PROVE  /\ DayOfEra(z) \in EraDays /\ Era(z) \in Int
           /\ DayOfEra(z) + 1 \in EraDays
                  => Era(z + 1) = Era(z) /\ DayOfEra(z + 1) = DayOfEra(z) + 1
           /\ DayOfEra(z) + 1 \notin EraDays
                  => Era(z + 1) = Era(z) + 1 /\ DayOfEra(z + 1) = 0
BY SMTT(30) DEF DayOfEra, Era, EraDays

-----------------------------------------------------------------------------
(* Months, counted from March, so that February is the last, month 11.      *)

MonthOf(n) == (5 * n + 2) \div 153
DayOf(n) == n - (153 * MonthOf(n) + 2) \div 5 + 1

\* The lengths of the months from March to January.
Lengths == [k \in 0..10 |-> IF k \in {1, 3, 6, 8} THEN 30 ELSE 31]

LEMMA NextOfMonth ==
    ASSUME NEW n \in Nat, n < 366
    PROVE  /\ MonthOf(n) \in 0..11
           /\ DayOf(n) \in Nat
           /\ MonthOf(n) \in 0..10 =>
                 /\ DayOf(n) <= Lengths[MonthOf(n)]
                 /\ DayOf(n) < Lengths[MonthOf(n)]
                        => MonthOf(n + 1) = MonthOf(n) /\ DayOf(n + 1) = DayOf(n) + 1
                 /\ DayOf(n) = Lengths[MonthOf(n)]
                        => MonthOf(n + 1) = MonthOf(n) + 1 /\ DayOf(n + 1) = 1
           /\ MonthOf(n) = 11 =>
                 /\ DayOf(n) = n - 336
                 /\ n < 365 => MonthOf(n + 1) = 11 /\ DayOf(n + 1) = DayOf(n) + 1
           /\ MonthOf(n) # 11 => n < 337
BY SMTT(60) DEF MonthOf, DayOf, Lengths

-----------------------------------------------------------------------------
(* Dates.                                                                   *)

LEMMA LeapPeriod ==
    ASSUME NEW y \in Int, NEW k \in Int
    PROVE  Leap(y + 400 * k) <=> Leap(y)
<1>1. /\ (y + 400 * k) % 4 = y % 4
      /\ (y + 400 * k) % 100 = y % 100
      /\ (y + 400 * k) % 400 = y % 400
  BY SMTT(30)
<1>2. QED
  BY <1>1 DEF Leap

\* The date of day n of year y of era k.
DateOf(k, y, n) ==
    [year |-> IF Month(MonthOf(n)) <= 2 THEN y + k * 400 + 1 ELSE y + k * 400,
     month |-> Month(MonthOf(n)), day |-> DayOf(n)]

LEMMA CivilIsDateOf ==
    ASSUME NEW d
    PROVE  LET z == d + 719468 IN
           CivilDate(d) = DateOf(Era(z), YearOfEra(DayOfEra(z)), DayOfYear(DayOfEra(z)))
BY DEF CivilDate, DateOf, MonthOf, DayOf

\* The length of a month is that of the calendar.
LEMMA LengthIs ==
    ASSUME NEW m \in 0..11, NEW y \in EraYears, NEW k \in Int
    PROVE  /\ m # 11 => \A x : Length(x, Month(m)) = Lengths[m]
           /\ Length(y + k * 400 + 1, Month(11)) = YearLength(y) - 337
<1>1. m # 11 => \A x : Length(x, Month(m)) = Lengths[m]
  BY DEF Length, Month, Lengths
<1>2. y + 1 \in Int /\ y + k * 400 + 1 = (y + 1) + 400 * k
  BY DEF EraYears
<1>3. Leap(y + k * 400 + 1) <=> Leap(y + 1)
  BY <1>2, LeapPeriod
<1>4. Month(11) = 2
  BY DEF Month
<1>5. QED
  BY <1>1, <1>3, <1>4 DEF Length, YearLength

LEMMA NextInYear ==
    ASSUME NEW k \in Int, NEW y \in EraYears, NEW n \in Nat, n + 1 < YearLength(y)
    PROVE  DateOf(k, y, n + 1) = Tomorrow(DateOf(k, y, n))
<1> DEFINE m == MonthOf(n)
           i == DayOf(n)
           Y == y + k * 400
<1>1. y \in Nat /\ YearLength(y) \in {365, 366} /\ n < 365
  BY YearTypes
<1>2. /\ m \in 0..11 /\ i \in Nat
      /\ m # 11 =>
            /\ i <= Lengths[m]
            /\ i < Lengths[m] => MonthOf(n + 1) = m /\ DayOf(n + 1) = i + 1
            /\ i = Lengths[m] => MonthOf(n + 1) = m + 1 /\ DayOf(n + 1) = 1
      /\ m = 11 => i = n - 336 /\ MonthOf(n + 1) = 11 /\ DayOf(n + 1) = i + 1
  BY <1>1, NextOfMonth
<1> HIDE DEF m, i
<1>3. Y \in Int
  BY <1>1
<1> HIDE DEF Y
<1>4. Month(m) \in 1..12 /\ (Month(m) <= 2 <=> m \in {10, 11}) /\ (Month(m) = 12 <=> m = 9)
  BY <1>2 DEF Month
<1>5. m # 11 =>
          Month(m + 1) = IF m = 9 THEN 1 ELSE Month(m) + 1
  BY <1>2 DEF Month
<1> DEFINE c == [year |-> IF Month(m) <= 2 THEN Y + 1 ELSE Y, month |-> Month(m), day |-> i]
<1>6. DateOf(k, y, n) = c
  BY DEF DateOf, m, i, Y
<1>7. CASE m # 11 /\ i < Lengths[m]
  <2>1. c.day < Length(c.year, c.month)
    BY <1>2, <1>7, LengthIs
  <2>2. Tomorrow(c) = [c EXCEPT !.day = i + 1]
    BY <2>1 DEF Tomorrow
  <2>3. DateOf(k, y, n + 1) = [c EXCEPT !.day = i + 1]
    BY <1>2, <1>7 DEF DateOf, Y
  <2>4. QED
    BY <1>6, <2>2, <2>3
<1>8. CASE m # 11 /\ i = Lengths[m]
  <2>1. ~(c.day < Length(c.year, c.month))
    BY <1>2, <1>8, LengthIs
  <2>2. CASE m = 9
    <3>1. Month(m) = 12 /\ c.year = Y
      BY <1>4, <2>2
    <3>2. Tomorrow(c) = [year |-> Y + 1, month |-> 1, day |-> 1]
      BY <2>1, <3>1 DEF Tomorrow
    <3>3. DateOf(k, y, n + 1) = [year |-> Y + 1, month |-> 1, day |-> 1]
      BY <1>2, <1>5, <1>8, <2>2 DEF DateOf, Y
    <3>4. QED
      BY <1>6, <3>2, <3>3
  <2>3. CASE m # 9
    <3>1. Tomorrow(c) = [year |-> IF Month(m) <= 2 THEN Y + 1 ELSE Y,
                         month |-> Month(m) + 1, day |-> 1]
      BY <1>3, <1>4, <2>1, <2>3 DEF Tomorrow
    <3>2. Month(m + 1) <= 2 <=> Month(m) <= 2
      BY <1>2, <1>8, <2>3 DEF Month
    <3>3. MonthOf(n + 1) = m + 1 /\ DayOf(n + 1) = 1 /\ Month(m + 1) = Month(m) + 1
      BY <1>2, <1>5, <1>8, <2>3
    <3>4. DateOf(k, y, n + 1) =
              [year |-> IF Month(m + 1) <= 2 THEN Y + 1 ELSE Y, month |-> Month(m + 1), day |-> 1]
      BY <3>3 DEF DateOf, Y
    <3>5. QED
      BY <1>6, <3>1, <3>2, <3>3, <3>4, Zenon
  <2>4. QED
    BY <2>2, <2>3
<1>9. CASE m = 11
  <2>1. c.year = Y + 1 /\ Length(Y + 1, Month(m)) = YearLength(y) - 337
    BY <1>2, <1>4, <1>9, LengthIs DEF Y
  <2>2. c.day < Length(c.year, c.month)
    BY <1>1, <1>2, <1>9, <2>1
  <2>3. Tomorrow(c) = [c EXCEPT !.day = i + 1]
    BY <2>2 DEF Tomorrow
  <2>4. DateOf(k, y, n + 1) = [c EXCEPT !.day = i + 1]
    BY <1>2, <1>9 DEF DateOf, Y
  <2>5. QED
    BY <1>6, <2>3, <2>4
<1>10. Lengths[m] \in Int \/ m = 11
  BY <1>2 DEF Lengths
<1>11. QED
  BY <1>2, <1>7, <1>8, <1>9, <1>10

\* After the last day of February comes the first of March, in the next year of
\* the era or in the next era.
LEMMA NextOverYear ==
    ASSUME NEW k \in Int, NEW y \in EraYears, NEW n \in Nat, n + 1 = YearLength(y)
    PROVE  /\ DateOf(k, y + 1, 0) = Tomorrow(DateOf(k, y, n))
           /\ y = 399 => DateOf(k + 1, 0, 0) = Tomorrow(DateOf(k, y, n))
<1> DEFINE Y == y + k * 400
           c == [year |-> Y + 1, month |-> 2, day |-> n - 336]
           march == [year |-> Y + 1, month |-> 3, day |-> 1]
<1>1. y \in Nat /\ YearLength(y) \in {365, 366} /\ n < 366 /\ n >= 337
  BY YearTypes
<1>2. MonthOf(n) = 11 /\ DayOf(n) = n - 336
  BY <1>1, NextOfMonth
<1>3. Month(11) = 2 /\ Month(0) = 3
  BY DEF Month
<1>4. DateOf(k, y, n) = c
  BY <1>2, <1>3 DEF DateOf
<1>5. Length(Y + 1, 2) = YearLength(y) - 337
  BY <1>3, LengthIs
<1>6. ~(c.day < Length(c.year, c.month)) /\ c.month < 12
  BY <1>1, <1>5
<1>7. Tomorrow(c) = march
  BY <1>6 DEF Tomorrow
<1>8. MonthOf(0) = 0 /\ DayOf(0) = 1
  BY DEF MonthOf, DayOf
<1>9. \A j, x : DateOf(j, x, 0) = [year |-> x + j * 400, month |-> 3, day |-> 1]
  BY <1>3, <1>8 DEF DateOf
<1>10. /\ (y + 1) + k * 400 = Y + 1
       /\ y = 399 => 0 + (k + 1) * 400 = Y + 1
  BY <1>1
<1>11. QED
  BY <1>4, <1>7, <1>9, <1>10

\* One day later civil_from_unix_secs gives the calendar's next date, from
\* 0000-03-01 on.
THEOREM CivilTomorrow ==
    ASSUME NEW d \in Int, d + 719468 \in Nat
    PROVE  CivilDate(d + 1) = Tomorrow(CivilDate(d))
<1> DEFINE z == d + 719468
           e == DayOfEra(z)
           y == YearOfEra(e)
           n == DayOfYear(e)
<1>1. CivilDate(d) = DateOf(Era(z), y, n)
  BY CivilIsDateOf
<1>2. CivilDate(d + 1) =
          DateOf(Era(z + 1), YearOfEra(DayOfEra(z + 1)), DayOfYear(DayOfEra(z + 1)))
  <2>1. (d + 1) + 719468 = z + 1
    OBVIOUS
  <2>2. QED
    BY <2>1, CivilIsDateOf
<1>3. z \in Nat
  OBVIOUS
<1> HIDE DEF z
<1>4. /\ e \in EraDays /\ Era(z) \in Int
      /\ e + 1 \in EraDays => Era(z + 1) = Era(z) /\ DayOfEra(z + 1) = e + 1
      /\ e + 1 \notin EraDays => Era(z + 1) = Era(z) + 1 /\ DayOfEra(z + 1) = 0
  BY <1>3, NextOfEra
<1> HIDE DEF e
<1>5. /\ y \in EraYears /\ n \in Nat /\ n < YearLength(y)
      /\ n + 1 < YearLength(y) =>
             e + 1 \in EraDays /\ YearOfEra(e + 1) = y /\ DayOfYear(e + 1) = n + 1
      /\ n + 1 = YearLength(y) /\ e + 1 \in EraDays =>
             YearOfEra(e + 1) = y + 1 /\ DayOfYear(e + 1) = 0
      /\ e + 1 \notin EraDays => y = 399 /\ n + 1 = YearLength(y)
  BY <1>4, NextOfYear
<1> HIDE DEF y, n
<1>6. CASE n + 1 < YearLength(y)
  BY <1>1, <1>2, <1>4, <1>5, <1>6, NextInYear
<1>7. CASE n + 1 = YearLength(y) /\ e + 1 \in EraDays
  BY <1>1, <1>2, <1>4, <1>5, <1>7, NextOverYear
<1>8. CASE e + 1 \notin EraDays
  <2>1. YearOfEra(0) = 0 /\ DayOfYear(0) = 0
    BY DEF YearOfEra, DayOfYear
  <2>2. QED
    BY <1>1, <1>2, <1>4, <1>5, <1>8, <2>1, NextOverYear
<1>9. QED
  <2>1. YearLength(y) \in Nat
    BY <1>5, YearTypes
  <2>2. n + 1 < YearLength(y) \/ n + 1 = YearLength(y)
    BY <1>5, <2>1
  <2>3. QED
    BY <1>6, <1>7, <1>8, <2>2

-----------------------------------------------------------------------------
(* The clock.                                                               *)

Times == [hour : 0..23, minute : 0..59, second : 0..59]
Seconds(t) == 3600 * t.hour + 60 * t.minute + t.second

LEMMA Sixtieths ==
    ASSUME NEW r \in Nat, r < 60, NEW q \in Nat, NEW x \in Int, x = 60 * q + r
    PROVE  x \div 60 = q /\ x % 60 = r
OBVIOUS

LEMMA Hours ==
    ASSUME NEW r \in Nat, r < 3600, NEW q \in Nat, NEW x \in Int, x = 3600 * q + r
    PROVE  x \div 3600 = q /\ x % 3600 = r
OBVIOUS

LEMMA CivilTimeIs ==
    ASSUME NEW t \in Times
    PROVE  CivilTime(Seconds(t)) = t
<1>1. PICK h \in 0..23, m \in 0..59, s \in 0..59 :
        t = [hour |-> h, minute |-> m, second |-> s]
  BY DEF Times
<1> DEFINE x == 3600 * h + 60 * m + s
           r == 60 * m + s
<1>2. Seconds(t) = x
  BY <1>1 DEF Seconds
<1>3. r \in Nat /\ r < 3600 /\ x \in Nat /\ x = 3600 * h + r /\ x = 60 * (60 * h + m) + s
  OBVIOUS
<1> HIDE DEF x
<1>4. x \div 3600 = h /\ x % 3600 = r
  BY <1>3, Hours
<1>5. r \div 60 = m
  BY Sixtieths
<1>6. x % 60 = s
  <2>1. 60 * h + m \in Nat
    OBVIOUS
  <2> DEFINE q == 60 * h + m
  <2>2. x = 60 * q + s /\ q \in Nat
    BY <1>3, <2>1
  <2> HIDE DEF q
  <2>3. QED
    BY <1>3, <2>2, Sixtieths
<1>7. QED
  BY <1>1, <1>2, <1>4, <1>5, <1>6 DEF CivilTime

LEMMA CarryAdds ==
    ASSUME NEW t \in Times, Carry(t).hour < 24
    PROVE  Carry(t) \in Times /\ Seconds(Carry(t)) = Seconds(t) + 3661
<1>1. /\ t.hour \in 0..23 /\ t.minute \in 0..59 /\ t.second \in 0..59
  BY DEF Times
<1> DEFINE s == t.second + 1
           m == t.minute + 1 + s \div 60
           h == t.hour + 1 + m \div 60
<1>2. s \in 1..60 /\ s \div 60 \in 0..1 /\ s = 60 * (s \div 60) + (s % 60) /\ s % 60 \in 0..59
  BY <1>1
<1> HIDE DEF s
<1>3. m \in 1..61 /\ m \div 60 \in 0..1 /\ m = 60 * (m \div 60) + (m % 60) /\ m % 60 \in 0..59
  BY <1>1, <1>2
<1> HIDE DEF m
<1>4. h \in 1..25
  BY <1>1, <1>3
<1> HIDE DEF h
<1>5. Carry(t) = [hour |-> h, minute |-> m % 60, second |-> s % 60]
  BY DEF Carry, s, m, h
<1>6. Carry(t) \in Times
  BY <1>2, <1>3, <1>4, <1>5 DEF Times
<1>7. Seconds(Carry(t)) = 3600 * h + 60 * (m % 60) + (s % 60)
  BY <1>5 DEF Seconds
<1>8. s = t.second + 1 /\ m = t.minute + 1 + s \div 60 /\ h = t.hour + 1 + m \div 60
  BY DEF s, m, h
<1>9. Seconds(t) = 3600 * t.hour + 60 * t.minute + t.second
  BY DEF Seconds
<1>10. QED
  <2> DEFINE a == s \div 60
             b == m \div 60
             u == s % 60
             v == m % 60
  <2>1. /\ s \in Int /\ a \in Int /\ u \in Int /\ s = 60 * a + u
        /\ m \in Int /\ b \in Int /\ v \in Int /\ m = 60 * b + v
        /\ h \in Int
    BY <1>2, <1>3, <1>4
  <2>2. s = t.second + 1 /\ m = t.minute + 1 + a /\ h = t.hour + 1 + b
    BY <1>8
  <2>3. Seconds(Carry(t)) = 3600 * h + 60 * v + u
    BY <1>7
  <2> HIDE DEF a, b, u, v
  <2>4. t.hour \in Int /\ t.minute \in Int /\ t.second \in Int
    BY <1>1
  <2>5. t.second + 1 = 60 * a + u /\ t.minute + 1 + a = 60 * b + v
    BY <2>1, <2>2
  <2>6. 3600 * (t.hour + 1 + b) + 60 * v + u =
            (3600 * t.hour + 60 * t.minute + t.second) + 3661
    <3> DEFINE H == t.hour
               M == t.minute
               S == t.second
    <3>1. H \in Int /\ M \in Int /\ S \in Int /\ S + 1 = 60 * a + u /\ M + 1 + a = 60 * b + v
      BY <2>4, <2>5
    <3>2. a \in Int /\ b \in Int /\ u \in Int /\ v \in Int
      BY <2>1
    <3> HIDE DEF H, M, S
    <3>3. 3600 * (H + 1 + b) + 60 * v + u = (3600 * H + 60 * M + S) + 3661
      BY <3>1, <3>2, SMTT(30)
    <3>4. QED
      BY <3>3 DEF H, M, S
  <2>7. QED
    BY <1>6, <1>9, <2>2, <2>3, <2>6

Clock ==
    /\ day \in Nat /\ date = CivilDate(day)
    /\ time \in Times /\ tod = Seconds(time)

LEMMA InitClock == Init => Clock
<1> SUFFICES ASSUME Init PROVE Clock
  OBVIOUS
<1>1. Midnight \in Times /\ Seconds(Midnight) = 0
  BY DEF Midnight, Times, Seconds
<1>2. CivilDate(0) = [year |-> 1970, month |-> 1, day |-> 1]
  BY DEF CivilDate, Era, DayOfEra, YearOfEra, DayOfYear, Month
<1>3. QED
  BY <1>1, <1>2 DEF Init, Clock

LEMMA NextClock == Clock /\ [Next]_vars => Clock'
<1> SUFFICES ASSUME Clock, [Next]_vars PROVE Clock'
  OBVIOUS
<1>1. CASE Tick
  <2>1. day' \in Nat /\ date' = CivilDate(day')
    <3>1. day \in Int /\ day + 719468 \in Nat /\ day' = day + 1 /\ day' \in Nat
      BY <1>1 DEF Clock, Tick
    <3>2. CivilDate(day + 1) = Tomorrow(CivilDate(day))
      BY <3>1, CivilTomorrow
    <3>3. QED
      BY <1>1, <3>1, <3>2 DEF Clock, Tick
  <2>2. CASE Carry(time).hour < 24
    BY <1>1, <2>1, <2>2, CarryAdds DEF Clock, Tick
  <2>3. CASE ~(Carry(time).hour < 24)
    <3>1. Midnight \in Times /\ Seconds(Midnight) = 0
      BY DEF Midnight, Times, Seconds
    <3>2. QED
      BY <1>1, <2>1, <2>3, <3>1 DEF Clock, Tick
  <2>4. QED
    BY <2>2, <2>3
<1>2. CASE UNCHANGED vars
  BY <1>2 DEF vars, Clock
<1>3. QED
  BY <1>1, <1>2 DEF Next

\* However many days pass after the epoch, the date and the time written into a
\* deposit or a storage log are the calendar's (civil_from_unix_secs).
THEOREM CivilHolds == Spec => []CivilIsCalendar
<1>1. Clock => CivilIsCalendar
  BY CivilTimeIs DEF Clock, CivilIsCalendar
<1>2. QED
  BY <1>1, InitClock, NextClock, PTL DEF Spec

=============================================================================
