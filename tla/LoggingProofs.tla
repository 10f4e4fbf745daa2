--------------------------- MODULE LoggingProofs ---------------------------
(***************************************************************************)
(* Logger, LogStream and Date for every day, number and quantity.          *)
(***************************************************************************)
EXTENDS Logging, SequenceTheorems, WellFoundedInduction, TLAPS

\* The constants of TimeZone and Date.
LEMMA Epoch == kSecondsPerDay = 86400 /\ kJulianDayOf1970_01_01 = 2440588
BY DEF kSecondsPerDay, kJulianDayOf1970_01_01, getJulianDayNumber

-----------------------------------------------------------------------------
(* The calendar.                                                           *)

\* A date of the calendar.
IsDate(c) ==
  /\ c \in [year : Int, month : 1..12, day : Nat \ {0}]
  /\ c.year > -4800 /\ c.day <= DaysIn(c.year, c.month)

\* The day number of c.
Julian(c) == getJulianDayNumber(c.year, c.month, c.day)

\* The same with years that begin in March, counted from 4800 years before our era.
MarchDay(y, m, d) ==
  d + (153 * m + 2) \div 5 + y * 365 + y \div 4 - y \div 100 + y \div 400 - 32045

\* Quotients of a number and the next.
LEMMA NextQuotient ==
  ASSUME NEW n \in Nat
  PROVE  /\ (n + 1) \div 4 = n \div 4 + (IF (n + 1) % 4 = 0 THEN 1 ELSE 0)
         /\ (n + 1) \div 100 = n \div 100 + (IF (n + 1) % 100 = 0 THEN 1 ELSE 0)
         /\ (n + 1) \div 400 = n \div 400 + (IF (n + 1) % 400 = 0 THEN 1 ELSE 0)
         /\ n \div 4 \in Nat /\ n \div 100 \in Nat /\ n \div 400 \in Nat
<1>1. (n + 1) \div 4 = n \div 4 + (IF (n + 1) % 4 = 0 THEN 1 ELSE 0) /\ n \div 4 \in Nat
  OBVIOUS
<1>2. (n + 1) \div 100 = n \div 100 + (IF (n + 1) % 100 = 0 THEN 1 ELSE 0) /\ n \div 100 \in Nat
  OBVIOUS
<1>3. (n + 1) \div 400 = n \div 400 + (IF (n + 1) % 400 = 0 THEN 1 ELSE 0) /\ n \div 400 \in Nat
  OBVIOUS
<1> QED BY <1>1, <1>2, <1>3

\* 4800 is a leap year.
LEMMA LeapShift ==
  ASSUME NEW year \in Int
  PROVE  LeapYear(year) <=>
           (year + 4800) % 4 = 0 /\ ((year + 4800) % 100 = 0 => (year + 4800) % 400 = 0)
<1>1. (year + 4800) % 4 = year % 4
  OBVIOUS
<1>2. (year + 4800) % 100 = year % 100
  OBVIOUS
<1>3. (year + 4800) % 400 = year % 400
  OBVIOUS
<1> QED BY <1>1, <1>2, <1>3 DEF LeapYear

\* The shift of getJulianDayNumber.
LEMMA Shifted ==
  ASSUME NEW year \in Int, NEW month \in 1..12, NEW d \in Nat
  PROVE  /\ month <= 2 => getJulianDayNumber(year, month, d) = MarchDay(year + 4799, month + 9, d)
         /\ month > 2 => getJulianDayNumber(year, month, d) = MarchDay(year + 4800, month - 3, d)
<1>1. (14 - month) \div 12 = IF month <= 2 THEN 1 ELSE 0
  OBVIOUS
<1>2. CASE month <= 2
  BY <1>1, <1>2 DEF getJulianDayNumber, MarchDay
<1>3. CASE month > 2
  BY <1>1, <1>3 DEF getJulianDayNumber, MarchDay
<1> QED BY <1>2, <1>3

\* How long the months are, counted from March.
MarchMonth(m) ==
  CASE m \in {1, 3, 6, 8} -> 30 [] m \in {0, 2, 4, 5, 7, 9, 10} -> 31 [] OTHER -> 28

\* The days of the months from March to January are those that the formula tells apart.
LEMMA MonthFormula ==
  ASSUME NEW m \in 0..10
  PROVE  (153 * (m + 1) + 2) \div 5 = (153 * m + 2) \div 5 + MarchMonth(m)
<1>1. m \in {0, 1, 2, 3, 4, 5, 6, 7, 8, 9, 10}
  OBVIOUS
<1> QED BY <1>1 DEF MarchMonth

\* The length of a month, by its shifted number.
LEMMA MonthLength ==
  ASSUME NEW year \in Int, NEW month \in 1..12
  PROVE  /\ month = 1 => DaysIn(year, month) = MarchMonth(10)
         /\ month = 2 => DaysIn(year, month) = IF LeapYear(year) THEN 29 ELSE 28
         /\ month > 2 => DaysIn(year, month) = MarchMonth(month - 3)
         /\ DaysIn(year, month) \in 28..31
<1>1. month \in {1, 2, 3, 4, 5, 6, 7, 8, 9, 10, 11, 12}
  OBVIOUS
<1> QED BY <1>1 DEF DaysIn, MarchMonth

\* The day after a date of the calendar has the next number.
LEMMA NextDate ==
  ASSUME NEW c, IsDate(c)
  PROVE  IsDate(NextCivil(c)) /\ Julian(NextCivil(c)) = Julian(c) + 1
<1>1. PICK year \in Int, month \in 1..12, d \in Nat \ {0} :
          /\ c = [year |-> year, month |-> month, day |-> d]
          /\ year > -4800 /\ d <= DaysIn(year, month)
  BY DEF IsDate
<1>2. /\ DaysIn(year, month) \in 28..31 /\ c.year = year /\ c.month = month /\ c.day = d
  BY <1>1, MonthLength
<1>3. CASE d < DaysIn(year, month)
  <2>1. NextCivil(c) = [year |-> year, month |-> month, day |-> d + 1]
    BY <1>1, <1>2, <1>3 DEF NextCivil
  <2>2. getJulianDayNumber(year, month, d + 1) = getJulianDayNumber(year, month, d) + 1
    BY DEF getJulianDayNumber
  <2>3. d + 1 \in Nat \ {0} /\ d + 1 <= DaysIn(year, month)
    BY <1>2, <1>3
  <2>4. IsDate(NextCivil(c))
    BY <1>1, <2>1, <2>3 DEF IsDate
  <2> QED BY <1>2, <2>1, <2>2, <2>4 DEF Julian
<1>4. CASE d = DaysIn(year, month) /\ month < 12
  <2>1. NextCivil(c) = [year |-> year, month |-> month + 1, day |-> 1]
    <3>1. /\ ~(c.day < DaysIn(c.year, c.month))
          /\ c.day = DaysIn(c.year, c.month) /\ c.month < 12
      BY <1>2, <1>4
    <3>2. NextCivil(c) = [c EXCEPT !.day = 1, !.month = c.month + 1]
      BY <3>1, Zenon DEF NextCivil
    <3>3. NextCivil(c) = [c EXCEPT !.day = 1, !.month = month + 1]
      BY <1>2, <3>2
    <3>4. PICK e : e = [c EXCEPT !.day = 1]
      OBVIOUS
    <3>5. e = [year |-> year, month |-> month, day |-> 1]
      BY <1>1, <3>4
    <3>6. NextCivil(c) = [e EXCEPT !.month = month + 1]
      BY <3>3, <3>4
    <3> QED BY <3>5, <3>6
  <2>2. IsDate(NextCivil(c))
    <3>1. DaysIn(year, month + 1) \in 28..31 /\ month + 1 \in 1..12
      BY <1>4, MonthLength
    <3>2. 1 <= DaysIn(year, month + 1)
      BY <3>1
    <3> QED BY <1>1, <2>1, <3>1, <3>2 DEF IsDate
  <2>3. getJulianDayNumber(year, month + 1, 1) = getJulianDayNumber(year, month, d) + 1
    <3>1. CASE month = 1
      <4>1. getJulianDayNumber(year, 1, d) = MarchDay(year + 4799, 10, d)
        BY Shifted
      <4>2. getJulianDayNumber(year, 2, 1) = MarchDay(year + 4799, 11, 1)
        BY Shifted
      <4>3. d = 31
        BY <1>4, <3>1, MonthLength DEF MarchMonth
      <4> QED BY <3>1, <4>1, <4>2, <4>3 DEF MarchDay
    <3>2. CASE month > 2
      <4>1. PICK m \in 0..8 : m = month - 3
        BY <1>4, <3>2
      <4>2. d = MarchMonth(m) /\ (153 * (m + 1) + 2) \div 5 = (153 * m + 2) \div 5 + MarchMonth(m)
        BY <1>4, <3>2, <4>1, MonthLength, MonthFormula
      <4>3. getJulianDayNumber(year, month, d) = MarchDay(year + 4800, m, d)
        BY <3>2, <4>1, Shifted
      <4>4. getJulianDayNumber(year, month + 1, 1) = MarchDay(year + 4800, m + 1, 1)
        <5>1. PICK n \in 1..12 : n = month + 1 /\ n > 2 /\ n - 3 = m + 1
          BY <1>4, <3>2, <4>1
        <5>2. getJulianDayNumber(year, n, 1) = MarchDay(year + 4800, n - 3, 1)
          BY ONLY year \in Int, n \in 1..12, <5>1, 1 \in Nat, Shifted
        <5> QED BY ONLY <5>1, <5>2
      <4> QED BY <4>2, <4>3, <4>4 DEF MarchDay
    <3>3. CASE month = 2
      <4>1. PICK y \in Nat : y = year + 4799
        BY <1>1
      <4>2. getJulianDayNumber(year, 2, d) = MarchDay(y, 11, d)
        BY <4>1, Shifted
      <4>3. getJulianDayNumber(year, 3, 1) = MarchDay(y + 1, 0, 1)
        BY <4>1, Shifted
      <4>4. d = IF LeapYear(year) THEN 29 ELSE 28
        BY <1>4, <3>3, MonthLength
      <4>5. LeapYear(year) <=> (y + 1) % 4 = 0 /\ ((y + 1) % 100 = 0 => (y + 1) % 400 = 0)
        BY <4>1, LeapShift
      <4>6. ((y + 1) % 400 = 0 => (y + 1) % 100 = 0) /\ ((y + 1) % 100 = 0 => (y + 1) % 4 = 0)
        OBVIOUS
      <4>7. (y + 1) \div 4 - (y + 1) \div 100 + (y + 1) \div 400
              = y \div 4 - y \div 100 + y \div 400 + (IF LeapYear(year) THEN 1 ELSE 0)
        BY <4>5, <4>6, NextQuotient
      <4>8. (153 * 11 + 2) \div 5 = 337 /\ (153 * 0 + 2) \div 5 = 0
        OBVIOUS
      <4>9. MarchDay(y + 1, 0, 1) = MarchDay(y, 11, d) + 1
        BY <4>4, <4>7, <4>8, NextQuotient DEF MarchDay
      <4> QED BY <3>3, <4>2, <4>3, <4>9
    <3> QED BY <3>1, <3>2, <3>3
  <2> QED BY <1>2, <2>1, <2>2, <2>3 DEF Julian
<1>5. CASE d = DaysIn(year, month) /\ month = 12
  <2>1. NextCivil(c) = [year |-> year + 1, month |-> 1, day |-> 1]
    BY <1>1, <1>2, <1>5 DEF NextCivil
  <2>2. IsDate(NextCivil(c))
    <3>1. DaysIn(year + 1, 1) \in 28..31
      BY MonthLength
    <3> QED BY <1>1, <2>1, <3>1 DEF IsDate
  <2>3. getJulianDayNumber(year + 1, 1, 1) = getJulianDayNumber(year, 12, 31) + 1
    <3>1. getJulianDayNumber(year + 1, 1, 1) = MarchDay(year + 4800, 10, 1)
      BY Shifted
    <3>2. getJulianDayNumber(year, 12, 31) = MarchDay(year + 4800, 9, 31)
      BY Shifted
    <3> QED BY <3>1, <3>2 DEF MarchDay
  <2>4. d = 31
    BY <1>5, MonthLength DEF MarchMonth
  <2> QED BY <1>2, <1>5, <2>1, <2>2, <2>3, <2>4 DEF Julian
<1> QED BY <1>1, <1>2, <1>3, <1>4, <1>5

\* The steps of getYearMonthDay, and the days that its formulas put before a month, a
\* year and a century.
DaysBefore(m) == (153 * m + 2) \div 5
MonthOf(e) == (5 * e + 2) \div 153
YearDays(y) == (1461 * y) \div 4
YearOf(c) == (4 * c + 3) \div 1461
CenturyDays(h) == (h * 146097) \div 4
CenturyOf(a) == (4 * a + 3) \div 146097

\* A quotient, by its bounds.
LEMMA Quotient ==
  ASSUME NEW n \in Nat, NEW q \in Nat, NEW k \in {4, 5, 153, 1461, 146097},
         k * q <= n, n < k * (q + 1)
  PROVE  n \div k = q
<1>1. CASE k = 4
  BY <1>1
<1>2. CASE k = 5
  BY <1>2
<1>3. CASE k = 153
  BY <1>3
<1>4. CASE k = 1461
  BY <1>4
<1>5. CASE k = 146097
  BY <1>5
<1> QED BY <1>1, <1>2, <1>3, <1>4, <1>5

\* d is a day of month m of a year that begins in March, e days after its first.
DayOfYear(m, d, e) ==
  /\ m \in 0..11 /\ d \in Nat \ {0} /\ (m < 11 => d <= MarchMonth(m)) /\ (m = 11 => d <= 29)
  /\ e = DaysBefore(m) + d - 1

MonthAnswer(m, d, e) ==
  /\ e \in 0..365 /\ (e = 365 => m = 11 /\ d = 29)
  /\ MonthOf(e) = m /\ e - DaysBefore(m) + 1 = d

\* The month of a day of the year.
LEMMA MonthFound ==
  ASSUME NEW m, NEW d, NEW e, DayOfYear(m, d, e)
  PROVE  MonthAnswer(m, d, e)
<1> SUFFICES
      ASSUME m \in 0..11, d \in Nat \ {0}, m < 11 => d <= MarchMonth(m), m = 11 => d <= 29,
             e = (153 * m + 2) \div 5 + d - 1
      PROVE  /\ e \in 0..365 /\ (e = 365 => m = 11 /\ d = 29)
             /\ (5 * e + 2) \div 153 = m /\ e - (153 * m + 2) \div 5 + 1 = d
  BY DEF DayOfYear, MonthAnswer, DaysBefore, MonthOf
<1>1. m \in {0, 1, 2, 3, 4, 5, 6, 7, 8, 9, 10, 11}
  OBVIOUS
<1>2. PICK f \in Nat : f = (153 * m + 2) \div 5
  OBVIOUS
<1>3. /\ (m = 0 => f = 0)   /\ (m = 1 => f = 31)  /\ (m = 2 => f = 61)  /\ (m = 3 => f = 92)
      /\ (m = 4 => f = 122) /\ (m = 5 => f = 153) /\ (m = 6 => f = 184) /\ (m = 7 => f = 214)
      /\ (m = 8 => f = 245) /\ (m = 9 => f = 275) /\ (m = 10 => f = 306) /\ (m = 11 => f = 337)
  BY <1>2
<1>4. e = f + d - 1 /\ e \in Nat
  BY <1>2
<1>5. e \in 0..365 /\ (e = 365 => m = 11 /\ d = 29)
  BY <1>1, <1>3, <1>4 DEF MarchMonth
<1>6. 153 * m <= 5 * e + 2 /\ 5 * e + 2 < 153 * (m + 1)
  BY <1>1, <1>3, <1>4 DEF MarchMonth
<1>7. (5 * e + 2) \div 153 = m
  BY <1>4, <1>6, Quotient
<1> QED BY <1>2, <1>4, <1>5, <1>7

\* A day is e days after the first of year y of its century, and c days after the first of that.
DayOfCentury(y, e, c) ==
  /\ y \in 0..99 /\ e \in 0..365 /\ (e = 365 => (y + 1) % 4 = 0)
  /\ c = 365 * y + y \div 4 + e

YearAnswer(y, e, c) ==
  /\ YearOf(c) = y /\ c - YearDays(y) = e /\ c \in Nat
  /\ (c = 36524 => y = 99 /\ e = 365) /\ c <= 36524

\* The year of a day of the century.
LEMMA YearFound ==
  ASSUME NEW y, NEW e, NEW c, DayOfCentury(y, e, c)
  PROVE  YearAnswer(y, e, c)
<1> SUFFICES
      ASSUME y \in 0..99, e \in 0..365, e = 365 => (y + 1) % 4 = 0, c = 365 * y + y \div 4 + e
      PROVE  /\ (4 * c + 3) \div 1461 = y /\ c - (1461 * y) \div 4 = e /\ c \in Nat
             /\ (c = 36524 => y = 99 /\ e = 365) /\ c <= 36524
  BY DEF DayOfCentury, YearAnswer, YearOf, YearDays
<1>1. PICK q \in Nat, s \in 0..3 : q = y \div 4 /\ s = y % 4 /\ y = 4 * q + s
  OBVIOUS
<1>2. (e = 365 => s = 3) /\ c \in Nat /\ q <= 24
  BY <1>1
<1>3. (1461 * y) \div 4 = 365 * y + q
  <2>1. 4 * (365 * y + q) <= 1461 * y /\ 1461 * y < 4 * ((365 * y + q) + 1)
    BY <1>1
  <2> QED BY <2>1, Quotient
<1>4. (4 * c + 3) \div 1461 = y
  <2>1. 1461 * y <= 4 * c + 3 /\ 4 * c + 3 < 1461 * (y + 1)
    BY <1>1, <1>2
  <2> QED BY <1>2, <2>1, Quotient
<1> QED BY <1>1, <1>2, <1>3, <1>4

\* A day is c days after the first of century h, and a days after the first of all.
DayOfEra(h, c, a) ==
  /\ h \in Nat /\ c \in Nat /\ c <= 36524 /\ (c = 36524 => (h + 1) % 4 = 0)
  /\ a = 36524 * h + h \div 4 + c

CenturyAnswer(h, c, a) == CenturyOf(a) = h /\ a - CenturyDays(h) = c

\* The century of a day.
LEMMA CenturyFound ==
  ASSUME NEW h, NEW c, NEW a, DayOfEra(h, c, a)
  PROVE  CenturyAnswer(h, c, a)
<1> SUFFICES
      ASSUME h \in Nat, c \in Nat, c <= 36524, c = 36524 => (h + 1) % 4 = 0,
             a = 36524 * h + h \div 4 + c
      PROVE  (4 * a + 3) \div 146097 = h /\ a - (h * 146097) \div 4 = c
  BY DEF DayOfEra, CenturyAnswer, CenturyOf, CenturyDays
<1>1. PICK q \in Nat, s \in 0..3 : q = h \div 4 /\ s = h % 4 /\ h = 4 * q + s
  OBVIOUS
<1>2. (c = 36524 => s = 3) /\ a \in Nat
  BY <1>1
<1>3. (h * 146097) \div 4 = 36524 * h + q
  <2>1. 4 * (36524 * h + q) <= h * 146097 /\ h * 146097 < 4 * ((36524 * h + q) + 1)
    BY <1>1
  <2> QED BY <2>1, Quotient
<1>4. (4 * a + 3) \div 146097 = h
  <2>1. 146097 * h <= 4 * a + 3 /\ 4 * a + 3 < 146097 * (h + 1)
    BY <1>1, <1>2
  <2> QED BY <1>2, <2>1, Quotient
<1> QED BY <1>1, <1>2, <1>3, <1>4

\* The centuries and years of a number of years.
LEMMA Centuries ==
  ASSUME NEW y \in Nat
  PROVE  \E h \in Nat, r \in 0..99 :
           /\ y = 100 * h + r /\ y \div 100 = h /\ y \div 4 = 25 * h + r \div 4
           /\ y \div 400 = h \div 4
           /\ (y + 1) % 4 = 0 => (r + 1) % 4 = 0
           /\ r = 99 /\ (y + 1) % 400 = 0 => (h + 1) % 4 = 0
           /\ r = 99 => (y + 1) % 100 = 0
<1>1. PICK h \in Nat, r \in 0..99 : y = 100 * h + r /\ y \div 100 = h
  OBVIOUS
<1>2. PICK q \in Nat, s \in 0..3 : r = 4 * q + s /\ r \div 4 = q
  OBVIOUS
<1>3. y \div 4 = 25 * h + q
  BY <1>1, <1>2
<1>4. PICK g \in Nat, t \in 0..3 : h = 4 * g + t /\ h \div 4 = g
  OBVIOUS
<1>5. y \div 400 = g
  BY <1>1, <1>4
<1>6. (y + 1) % 4 = 0 => (r + 1) % 4 = 0
  BY <1>1
<1>7. r = 99 /\ (y + 1) % 400 = 0 => (h + 1) % 4 = 0
  BY <1>1
<1>8. r = 99 => (y + 1) % 100 = 0
  BY <1>1
<1>9. y \div 4 = 25 * h + r \div 4 /\ y \div 400 = h \div 4
  BY <1>2, <1>3, <1>4, <1>5
<1> QED BY <1>1, <1>6, <1>7, <1>8, <1>9, Zenon

\* The names of getYearMonthDay.
LEMMA Decoded ==
  ASSUME NEW j, NEW a, NEW b, NEW c, NEW d, NEW e, NEW m,
         a = j + 32044, b = CenturyOf(a), c = a - CenturyDays(b),
         d = YearOf(c), e = c - YearDays(d), m = MonthOf(e)
  PROVE  getYearMonthDay(j) = [year |-> b * 100 + d - 4800 + m \div 10,
                               month |-> AsInt8(m + 3 - 12 * (m \div 10)),
                               day |-> AsInt8(e - DaysBefore(m) + 1)]
<1>1. getYearMonthDay(j) =
        LET x == j + 32044
            y == CenturyOf(x)
            z == x - CenturyDays(y)
            u == YearOf(z)
            v == z - YearDays(u)
            w == MonthOf(v)
        IN  [year |-> y * 100 + u - 4800 + w \div 10,
             month |-> AsInt8(w + 3 - 12 * (w \div 10)),
             day |-> AsInt8(v - DaysBefore(w) + 1)]
  BY DEF getYearMonthDay, CenturyOf, CenturyDays, YearOf, YearDays, MonthOf, DaysBefore
<1>2. getYearMonthDay(j) =
        LET y == CenturyOf(a)
            z == a - CenturyDays(y)
            u == YearOf(z)
            v == z - YearDays(u)
            w == MonthOf(v)
        IN  [year |-> y * 100 + u - 4800 + w \div 10,
             month |-> AsInt8(w + 3 - 12 * (w \div 10)),
             day |-> AsInt8(v - DaysBefore(w) + 1)]
  BY <1>1
<1>3. getYearMonthDay(j) =
        LET u == YearOf(c)
            v == c - YearDays(u)
            w == MonthOf(v)
        IN  [year |-> b * 100 + u - 4800 + w \div 10,
             month |-> AsInt8(w + 3 - 12 * (w \div 10)),
             day |-> AsInt8(v - DaysBefore(w) + 1)]
  BY <1>2
<1> QED BY <1>3

\* getYearMonthDay finds a date by its number.
LEMMA DateFound ==
  ASSUME NEW c, IsDate(c)
  PROVE  getYearMonthDay(Julian(c)) = c
<1>1. PICK year \in Int, month \in 1..12, d \in Nat \ {0} :
          /\ c = [year |-> year, month |-> month, day |-> d]
          /\ year > -4800 /\ d <= DaysIn(year, month)
  BY DEF IsDate
<1>2. PICK y \in Nat, m \in 0..11 :
          /\ Julian(c) = MarchDay(y, m, d)
          /\ year = y - 4800 + m \div 10 /\ month = m + 3 - 12 * (m \div 10)
          /\ m < 11 => d <= MarchMonth(m)
          /\ m = 11 => d <= 29
          /\ m = 11 /\ d = 29 => (y + 1) % 4 = 0 /\ ((y + 1) % 100 = 0 => (y + 1) % 400 = 0)
  <2>1. Julian(c) = getJulianDayNumber(year, month, d)
    BY <1>1 DEF Julian
  <2>2. CASE month = 2
    <3>1. PICK y \in Nat : y = year + 4799
      BY <1>1
    <3>2. Julian(c) = MarchDay(y, 11, d) /\ 11 \div 10 = 1
      BY <2>1, <2>2, <3>1, Shifted
    <3>3. d <= 29 /\ (d = 29 => LeapYear(year))
      BY <1>1, <2>2, MonthLength
    <3>4. LeapYear(year) => (y + 1) % 4 = 0 /\ ((y + 1) % 100 = 0 => (y + 1) % 400 = 0)
      BY <3>1, LeapShift
    <3>5. year = y - 4800 + 1 /\ 2 = 11 + 3 - 12 * 1
      BY <3>1
    <3> QED BY <2>2, <3>2, <3>3, <3>4, <3>5
  <2>3. CASE month = 1
    <3>1. PICK y \in Nat : y = year + 4799
      BY <1>1
    <3>2. Julian(c) = MarchDay(y, 10, d) /\ 10 \div 10 = 1
      BY <2>1, <2>3, <3>1, Shifted
    <3>3. d <= MarchMonth(10)
      BY <1>1, <2>3, MonthLength
    <3>4. year = y - 4800 + 1 /\ 1 = 10 + 3 - 12 * 1
      BY <3>1
    <3> QED BY <2>3, <3>2, <3>3, <3>4
  <2>4. CASE month > 2
    <3>1. PICK y \in Nat, m \in 0..9 : y = year + 4800 /\ m = month - 3
      BY <1>1, <2>4
    <3>2. Julian(c) = MarchDay(y, m, d) /\ m \div 10 = 0
      BY <2>1, <2>4, <3>1, Shifted
    <3>3. d <= MarchMonth(m)
      BY <1>1, <2>4, <3>1, MonthLength
    <3>4. year = y - 4800 + 0 /\ month = m + 3 - 12 * 0 /\ m < 11 /\ m \in 0..11
      BY <3>1
    <3> QED BY <3>2, <3>3, <3>4
  <2> QED BY <2>2, <2>3, <2>4
<1>3. PICK h \in Nat, r \in 0..99 :
          /\ y = 100 * h + r /\ y \div 100 = h /\ y \div 4 = 25 * h + r \div 4
          /\ y \div 400 = h \div 4
          /\ (y + 1) % 4 = 0 => (r + 1) % 4 = 0
          /\ r = 99 /\ (y + 1) % 400 = 0 => (h + 1) % 4 = 0
          /\ r = 99 => (y + 1) % 100 = 0
  BY Centuries
<1>4. PICK e : e = DaysBefore(m) + d - 1
  OBVIOUS
<1>5. /\ e \in 0..365 /\ (e = 365 => m = 11 /\ d = 29)
      /\ MonthOf(e) = m /\ e - DaysBefore(m) + 1 = d
  <2>1. DayOfYear(m, d, e)
    BY <1>2, <1>4 DEF DayOfYear
  <2> QED BY <2>1, MonthFound DEF MonthAnswer
<1>6. PICK n : n = 365 * r + r \div 4 + e
  OBVIOUS
<1>7. /\ YearOf(n) = r /\ n - YearDays(r) = e /\ n \in Nat
      /\ (n = 36524 => r = 99 /\ e = 365) /\ n <= 36524
  <2>1. e = 365 => (r + 1) % 4 = 0
    BY <1>2, <1>3, <1>5
  <2>2. DayOfCentury(r, e, n)
    BY <1>5, <1>6, <2>1 DEF DayOfCentury
  <2> QED BY <2>2, YearFound DEF YearAnswer
<1>8. PICK a : a = 36524 * h + h \div 4 + n
  OBVIOUS
<1>9. CenturyOf(a) = h /\ a - CenturyDays(h) = n
  <2>1. n = 36524 => (h + 1) % 4 = 0
    BY <1>2, <1>3, <1>5, <1>7
  <2>2. DayOfEra(h, n, a)
    BY <1>7, <1>8, <2>1 DEF DayOfEra
  <2> QED BY <2>2, CenturyFound DEF CenturyAnswer
<1>10. Julian(c) + 32044 = a
  <2>1. PICK f \in Nat, p \in Nat, g \in Nat : f = DaysBefore(m) /\ p = r \div 4 /\ g = h \div 4
    BY DEF DaysBefore
  <2>2. MarchDay(y, m, d) = d + f + y * 365 + (25 * h + p) - h + g - 32045
    BY <1>3, <2>1 DEF MarchDay, DaysBefore
  <2> QED BY <1>2, <1>3, <1>4, <1>6, <1>8, <2>1, <2>2
<1>11. getYearMonthDay(Julian(c)) =
         [year |-> h * 100 + r - 4800 + m \div 10,
          month |-> AsInt8(m + 3 - 12 * (m \div 10)), day |-> AsInt8(d)]
  <2>1. PICK j : j = Julian(c)
    OBVIOUS
  <2>2. /\ a = j + 32044 /\ h = CenturyOf(a) /\ n = a - CenturyDays(h)
        /\ r = YearOf(n) /\ e = n - YearDays(r) /\ m = MonthOf(e)
    BY <1>5, <1>7, <1>9, <1>10, <2>1
  <2>3. getYearMonthDay(j) = [year |-> h * 100 + r - 4800 + m \div 10,
                              month |-> AsInt8(m + 3 - 12 * (m \div 10)),
                              day |-> AsInt8(e - DaysBefore(m) + 1)]
    BY <2>2, Decoded
  <2> QED BY <1>5, <2>1, <2>3
<1>12. \A k \in 0..127 : AsInt8(k) = k
  BY DEF AsInt8
<1>13. month \in 0..127 /\ d \in 0..127
  BY <1>1, MonthLength
<1> QED BY <1>1, <1>2, <1>3, <1>11, <1>12, <1>13


\* t is second s of day n.
SecondOfDay(t, n, s) == n \in Int /\ s \in Nat /\ s < 86400 /\ t = n * 86400 + s

\* Any second of any day, before 1970 too, belongs to that day: the remainder of the
\* division is brought above zero.
LEMMA DaySplit ==
  ASSUME NEW t, NEW n, NEW s, SecondOfDay(t, n, s)
  PROVE  SplitDays(t).days = n /\ SplitDays(t).seconds = s
<1>1. t \in Int /\ n \in Int /\ s \in Nat /\ s < 86400 /\ t = n * 86400 + s
  BY DEF SecondOfDay
<1>2. CASE n >= 0
  <2>1. t >= 0 /\ t \div 86400 = n
    BY <1>1, <1>2
  <2>2. Quot(t, 86400) = n /\ Rem(t, 86400) = s
    BY <1>1, <2>1 DEF Quot, Rem
  <2> QED BY <1>1, <2>2, Epoch DEF SplitDays
<1>3. CASE n < 0 /\ s = 0
  <2>1. t < 0 /\ (-t) \div 86400 = -n
    BY <1>1, <1>3
  <2>2. Quot(t, 86400) = n /\ Rem(t, 86400) = 0
    BY <1>1, <1>3, <2>1 DEF Quot, Rem
  <2> QED BY <1>1, <1>3, <2>2, Epoch DEF SplitDays
<1>4. CASE n < 0 /\ s > 0
  <2>1. t < 0 /\ (-t) \div 86400 = -n - 1
    BY <1>1, <1>4
  <2>2. Quot(t, 86400) = n + 1 /\ Rem(t, 86400) = s - 86400
    BY <1>1, <1>4, <2>1 DEF Quot, Rem
  <2> QED BY <1>1, <1>4, <2>2, Epoch DEF SplitDays
<1> QED BY <1>1, <1>2, <1>3, <1>4

\* The clock and the calendar name the same day.
ClockInv ==
  /\ day \in Int /\ second \in Nat /\ second < 86400
  /\ IsDate(civil) /\ Julian(civil) = day + kJulianDayOf1970_01_01

\* With that, the code agrees with the calendar.
LEMMA ClockAgrees ==
  ASSUME ClockInv
  PROVE  CalendarAgrees
<1>1. /\ day \in Int /\ second \in Nat /\ second < 86400
      /\ IsDate(civil) /\ Julian(civil) = day + kJulianDayOf1970_01_01
  BY DEF ClockInv
<1>2. getJulianDayNumber(civil.year, civil.month, civil.day) = day + kJulianDayOf1970_01_01
  BY <1>1 DEF Julian
<1>3. getYearMonthDay(day + kJulianDayOf1970_01_01) = civil
  <2>1. getYearMonthDay(Julian(civil)) = civil
    BY ONLY <1>1, DateFound
  <2> QED BY ONLY <1>1, <2>1
<1>4. weekDay(day + kJulianDayOf1970_01_01) = (day + 4) % 7
  <2>1. (day + 2440588 + 1) % 7 = (day + 4) % 7
    BY <1>1
  <2> QED BY <1>1, <2>1, Epoch DEF weekDay, kDaysPerWeek
<1>5. PICK midnight : midnight = DateTime(civil, [hour |-> 0, minute |-> 0, second |-> 0])
  OBVIOUS
<1>6. fromUTCTime(midnight) = day * kSecondsPerDay
  <2>1. /\ midnight.year = civil.year /\ midnight.month = civil.month
        /\ midnight.day = civil.day /\ midnight.hour = 0 /\ midnight.minute = 0
        /\ midnight.second = 0
    BY <1>5 DEF DateTime
  <2>2. PICK j : j = getJulianDayNumber(midnight.year, midnight.month, midnight.day)
    OBVIOUS
  <2>3. j = day + 2440588
    BY <1>2, <2>1, <2>2, Epoch
  <2>4. fromUTCTime(midnight) = (j - 2440588) * 86400 + 0 * 3600 + 0 * 60 + 0
    BY <2>1, <2>2, Epoch DEF fromUTCTime
  <2> QED BY <1>1, <2>3, <2>4, Epoch
<1>7. PICK broken : broken = BreakTime(now)
  OBVIOUS
<1>8. [year |-> broken.year, month |-> broken.month, day |-> broken.day] = civil
  <2>1. SplitDays(now).days = day
    <3>1. SecondOfDay(now, day, second)
      BY ONLY <1>1, Epoch DEF now, SecondOfDay
    <3> QED BY ONLY <3>1, DaySplit
  <2>2. broken = DateTime(civil, fillHMS(SplitDays(now).seconds))
    BY <1>3, <1>7, <2>1 DEF BreakTime
  <2>3. broken.year = civil.year /\ broken.month = civil.month /\ broken.day = civil.day
    BY <2>2 DEF DateTime
  <2>4. civil \in [year : Int, month : 1..12, day : Nat \ {0}]
    BY <1>1 DEF IsDate
  <2> QED BY <2>3, <2>4
<1> QED BY <1>2, <1>3, <1>4, <1>5, <1>6, <1>7, <1>8 DEF CalendarAgrees

\* Date and TimeZone agree with the calendar on every day from 4800 years before our era
\* on, forward for as long as the clock runs: Julian day number and date (Date.cc), day
\* of the week, seconds and date (BreakTime, fromUTCTime).
THEOREM CalendarAlwaysAgrees == Spec => []CalendarAgrees
<1>1. Init => ClockInv
  <2> SUFFICES ASSUME Init PROVE ClockInv
    OBVIOUS
  <2>1. PICK s \in Starts : day = s.day /\ civil = s.civil
    BY DEF Init
  <2> QED BY <2>1, StartsAssumption DEF Init, ClockInv, IsDate, Julian
<1>2. ClockInv /\ [Next]_vars => ClockInv'
  <2> SUFFICES ASSUME ClockInv, [Next]_vars PROVE ClockInv'
    OBVIOUS
  <2>1. /\ day \in Int /\ second \in Nat /\ second < 86400
        /\ IsDate(civil) /\ Julian(civil) = day + kJulianDayOf1970_01_01
    BY DEF ClockInv
  <2>2. CASE HalfHour
    <3>1. PICK n : /\ n = second + (IF second % 1800 = 0 THEN 1799 ELSE 1)
                   /\ n < kSecondsPerDay /\ second' = n
                   /\ day' = day /\ civil' = civil
      BY <2>2 DEF HalfHour
    <3>2. second' \in Nat /\ second' < 86400
      BY <2>1, <3>1, Epoch
    <3> QED BY <2>1, <3>1, <3>2 DEF ClockInv
  <2>3. CASE NextDay
    <3>1. day' = day + 1 /\ second' = 0 /\ civil' = NextCivil(civil)
      BY <2>3 DEF NextDay
    <3>2. IsDate(NextCivil(civil)) /\ Julian(NextCivil(civil)) = Julian(civil) + 1
      BY ONLY <2>1, NextDate
    <3>3. Julian(civil') = day' + kJulianDayOf1970_01_01
      BY <2>1, <3>1, <3>2, Epoch
    <3>4. day' \in Int /\ second' \in Nat /\ second' < 86400 /\ IsDate(civil')
      BY <2>1, <3>1, <3>2
    <3> QED BY <3>3, <3>4 DEF ClockInv
  <2>4. CASE UNCHANGED <<day, second, civil>>
    BY <2>1, <2>4 DEF ClockInv
  <2>5. ASSUME Load \/ setTimeZone \/ (\E east \in Fixed : fixedZone(east))
        PROVE  UNCHANGED <<day, second, civil>>
    BY <2>5 DEF Load, loadZoneFile, setTimeZone, fixedZone
  <2>6. ASSUME \E level \in Levels : Open(level)
        PROVE  UNCHANGED <<day, second, civil>>
    BY <2>6 DEF Open
  <2>7. ASSUME Insert
        PROVE  UNCHANGED <<day, second, civil>>
    BY <2>7 DEF Insert, InsertText, InsertNumber, InsertPointer, InsertDouble, InsertSI, InsertIEC,
                lineOnly
  <2>8. ASSUME Close \/ UNCHANGED vars
        PROVE  UNCHANGED <<day, second, civil>>
    BY <2>8 DEF Close, vars
  <2> QED BY <2>2, <2>3, <2>4, <2>5, <2>6, <2>7, <2>8 DEF Next
<1>3. ClockInv => CalendarAgrees
  BY ClockAgrees
<1> QED BY <1>1, <1>2, <1>3, PTL DEF Spec


-----------------------------------------------------------------------------
(* Numbers.                                                                *)

\* Induction over the natural numbers, for a set.
LEMMA SetInduction ==
  ASSUME NEW S, 0 \in S, \A n \in Nat : n \in S => n + 1 \in S
  PROVE  Nat \subseteq S
<1> DEFINE R == OpToRel(<, Nat)
           T == Nat \ S
<1>1. IsWellFoundedOn(R, Nat)
  BY NatLessThanWellFounded
<1>2. \A x, y \in Nat : x < y => <<x, y>> \in R
  BY DEF OpToRel
<1> HIDE DEF R
<1> SUFFICES ASSUME T # {} PROVE FALSE
  OBVIOUS
<1>3. PICK x \in T : \A y \in T : ~ (<<y, x>> \in R)
  BY <1>1, WFMin
<1>4. x \in Nat /\ x # 0 /\ x - 1 \in Nat /\ x - 1 < x /\ (x - 1) + 1 = x
  BY <1>3
<1>5. x - 1 \in T
  BY <1>3, <1>4
<1> QED BY <1>2, <1>3, <1>4, <1>5

\* The radices of convert and convertHex.
Radix == {10, 16}

\* A division by one of them makes a number smaller.
LEMMA Divided ==
  ASSUME NEW n \in Nat, NEW r \in Radix, ~(n < r)
  PROVE  n \div r \in Nat /\ n \div r < n /\ n % r \in Nat
<1>1. CASE r = 10
  BY <1>1
<1>2. CASE r = 16
  BY <1>2
<1> QED BY <1>1, <1>2 DEF Radix

\* f is the table by which LowDigits finds the digits of the numbers up to i.
DigitTable(f, i, r) ==
  f = [n \in 0..i |-> IF n < r THEN <<n>> ELSE <<n % r>> \o f[n \div r]]

\* There is such a table.
LEMMA DigitTableExists ==
  ASSUME NEW i \in Nat, NEW r \in Radix
  PROVE  \E f : DigitTable(f, i, r)
<1> DEFINE S == {m \in Nat : \E f : DigitTable(f, m, r)}
<1>1. 0 \in S
  <2>1. PICK f : f = [n \in 0..0 |-> <<n>>]
    OBVIOUS
  <2>2. \A n \in 0..0 : n < r
    BY DEF Radix
  <2>3. DigitTable(f, 0, r)
    BY <2>1, <2>2 DEF DigitTable
  <2> QED BY <2>3
<1>2. ASSUME NEW m \in Nat, m \in S PROVE m + 1 \in S
  <2>1. PICK f : DigitTable(f, m, r)
    BY <1>2
  <2>2. PICK g : g = [n \in 0..(m + 1) |-> IF n < r THEN <<n>> ELSE <<n % r>> \o f[n \div r]]
    OBVIOUS
  <2>3. \A n \in 0..m : g[n] = f[n]
    <3>1. \A n \in 0..m : f[n] = IF n < r THEN <<n>> ELSE <<n % r>> \o f[n \div r]
      BY <2>1 DEF DigitTable
    <3>2. \A n \in 0..m : n \in 0..(m + 1)
      OBVIOUS
    <3>3. \A n \in 0..m : g[n] = IF n < r THEN <<n>> ELSE <<n % r>> \o f[n \div r]
      BY <2>2, <3>2
    <3> QED BY <3>1, <3>3
  <2>4. ASSUME NEW n \in 0..(m + 1), ~(n < r) PROVE n \div r \in 0..m
    <3>1. n \div r \in Nat /\ n \div r < n
      BY <2>4, Divided
    <3> QED BY <3>1
  <2>5. \A n \in 0..(m + 1) : ~(n < r) => f[n \div r] = g[n \div r]
    BY <2>3, <2>4
  <2>6. g = [n \in 0..(m + 1) |-> IF n < r THEN <<n>> ELSE <<n % r>> \o g[n \div r]]
    BY <2>2, <2>5
  <2>7. DigitTable(g, m + 1, r)
    BY <2>6 DEF DigitTable
  <2> QED BY <2>7
<1> HIDE DEF S
<1>3. Nat \subseteq S
  BY <1>1, <1>2, SetInduction
<1> QED BY <1>3 DEF S

\* Two such tables agree.
LEMMA DigitTablesAgree ==
  ASSUME NEW f, NEW g, NEW i \in Nat, NEW j \in Nat, NEW r \in Radix, i <= j,
         DigitTable(f, i, r), DigitTable(g, j, r)
  PROVE  \A n \in 0..i : f[n] = g[n]
<1> DEFINE S == {m \in Nat : \A n \in 0..m : n <= i => f[n] = g[n]}
<1>1. ASSUME NEW n \in Nat, n <= i
      PROVE  /\ n < r => f[n] = g[n]
             /\ ~(n < r) /\ f[n \div r] = g[n \div r] => f[n] = g[n]
  <2>1. n \in 0..i /\ n \in 0..j
    BY <1>1
  <2>2. /\ f[n] = IF n < r THEN <<n>> ELSE <<n % r>> \o f[n \div r]
        /\ g[n] = IF n < r THEN <<n>> ELSE <<n % r>> \o g[n \div r]
    BY <2>1 DEF DigitTable
  <2> QED BY <2>2, Zenon
<1>2. 0 \in S
  <2>1. 0 < r
    BY DEF Radix
  <2>2. f[0] = g[0]
    <3>1. 0 \in Nat /\ 0 <= i
      OBVIOUS
    <3> QED BY ONLY <1>1, <2>1, <3>1
  <2> QED BY <2>2
<1>3. ASSUME NEW m \in Nat, m \in S PROVE m + 1 \in S
  <2>1. ASSUME m + 1 <= i PROVE f[m + 1] = g[m + 1]
    <3>0. m + 1 \in Nat /\ m + 1 <= i
      BY <2>1
    <3>1. CASE m + 1 < r
      BY ONLY <1>1, <3>0, <3>1
    <3>2. CASE ~(m + 1 < r)
      <4>1. PICK k \in Nat : k = (m + 1) \div r /\ k < m + 1
        BY <3>2, Divided
      <4>2. k \in 0..m /\ k <= i
        BY <2>1, <4>1
      <4>3. f[k] = g[k]
        BY <1>3, <4>2
      <4> QED BY ONLY <1>1, <3>0, <3>2, <4>1, <4>3
    <3> QED BY <3>1, <3>2
  <2>2. \A n \in 0..(m + 1) : n \in 0..m \/ n = m + 1
    OBVIOUS
  <2> QED BY <1>3, <2>1, <2>2
<1> HIDE DEF S
<1>4. Nat \subseteq S
  BY <1>2, <1>3, SetInduction
<1> QED BY <1>4 DEF S

\* LowDigits reads the table.
LEMMA LowDigitsTable ==
  ASSUME NEW i \in Nat, NEW r \in Radix
  PROVE  \E f : DigitTable(f, i, r) /\ LowDigits(i, r) = f[i]
<1> DEFINE h == CHOOSE f : f = [n \in 0..i |-> IF n < r THEN <<n>> ELSE <<n % r>> \o f[n \div r]]
<1>1. LowDigits(i, r) = h[i]
  BY DEF LowDigits
<1>2. \E f : f = [n \in 0..i |-> IF n < r THEN <<n>> ELSE <<n % r>> \o f[n \div r]]
  BY DigitTableExists DEF DigitTable
<1>3. h = [n \in 0..i |-> IF n < r THEN <<n>> ELSE <<n % r>> \o h[n \div r]]
  BY <1>2
<1> HIDE DEF h
<1>4. DigitTable(h, i, r)
  BY <1>3 DEF DigitTable
<1> QED BY <1>1, <1>4

\* The loop of convert: one digit, then the digits of the quotient.
LEMMA OneDigit ==
  ASSUME NEW n \in Nat, NEW r \in Radix
  PROVE  LowDigits(n, r) = IF n < r THEN <<n>> ELSE <<n % r>> \o LowDigits(n \div r, r)
<1>1. PICK f : DigitTable(f, n, r) /\ LowDigits(n, r) = f[n]
  BY LowDigitsTable
<1>2. LowDigits(n, r) = IF n < r THEN <<n>> ELSE <<n % r>> \o f[n \div r]
  <2>1. n \in 0..n
    OBVIOUS
  <2> QED BY <1>1, <2>1 DEF DigitTable
<1>3. ASSUME ~(n < r) PROVE f[n \div r] = LowDigits(n \div r, r)
  <2>1. PICK k \in Nat : k = n \div r /\ k <= n
    BY <1>3, Divided
  <2>2. PICK g : DigitTable(g, k, r) /\ LowDigits(k, r) = g[k]
    BY LowDigitsTable
  <2>3. k \in 0..k
    OBVIOUS
  <2>4. g[k] = f[k]
    BY ONLY <1>1, <2>1, <2>2, <2>3, n \in Nat, r \in Radix, DigitTablesAgree
  <2> QED BY <2>1, <2>2, <2>4
<1> QED BY <1>2, <1>3

\* There is at least one digit.
LEMMA DigitsType ==
  ASSUME NEW i \in Nat, NEW r \in Radix
  PROVE  LowDigits(i, r) \in Seq(Nat) /\ Len(LowDigits(i, r)) \in Nat \ {0}
<1> DEFINE S == {m \in Nat : \A n \in 0..m : LowDigits(n, r) \in Seq(Nat) /\ LowDigits(n, r) # <<>>}
<1>1. 0 \in S
  <2>1. 0 < r
    BY DEF Radix
  <2>2. LowDigits(0, r) = <<0>>
    BY <2>1, OneDigit
  <2>3. <<0>> \in Seq(Nat) /\ <<0>> # <<>> /\ \A n \in 0..0 : n = 0
    OBVIOUS
  <2> QED BY <2>2, <2>3
<1>2. ASSUME NEW m \in Nat, m \in S PROVE m + 1 \in S
  <2>1. LowDigits(m + 1, r) \in Seq(Nat) /\ LowDigits(m + 1, r) # <<>>
    <3>1. CASE m + 1 < r
      <4>1. PICK k \in Nat : k = m + 1
        OBVIOUS
      <4>2. LowDigits(k, r) = <<k>>
        BY <3>1, <4>1, OneDigit
      <4>3. <<k>> \in Seq(Nat) /\ <<k>> # <<>>
        OBVIOUS
      <4> QED BY <4>1, <4>2, <4>3
    <3>2. CASE ~(m + 1 < r)
      <4>1. PICK k \in Nat, d \in Nat : k = (m + 1) \div r /\ d = (m + 1) % r /\ k < m + 1
        BY <3>2, Divided
      <4>2. k \in 0..m
        BY <4>1
      <4>3. PICK t \in Seq(Nat) : t = LowDigits(k, r)
        BY <1>2, <4>2
      <4>4. LowDigits(m + 1, r) = <<d>> \o t
        BY <3>2, <4>1, <4>3, OneDigit
      <4> QED BY <4>4
    <3> QED BY <3>1, <3>2
  <2>2. \A n \in 0..(m + 1) : n \in 0..m \/ n = m + 1
    OBVIOUS
  <2> QED BY <1>2, <2>1, <2>2
<1> HIDE DEF S
<1>3. Nat \subseteq S
  BY <1>1, <1>2, SetInduction
<1>4. LowDigits(i, r) \in Seq(Nat) /\ LowDigits(i, r) # <<>>
  <2>1. i \in 0..i /\ i \in S
    BY <1>3
  <2> QED BY <2>1 DEF S
<1> QED BY <1>4


\* Reversed, the digit found first comes last.
LEMMA ReverseDigits ==
  ASSUME NEW d \in Nat, NEW t \in Seq(Nat)
  PROVE  Reverse(<<d>> \o t) = Append(Reverse(t), d) /\ Reverse(t) \in Seq(Nat)
<1>1. PICK n \in Nat : n = Len(t)
  OBVIOUS
<1>2. PICK u \in Seq(Nat) : u = <<d>> \o t
  <2>1. <<d>> \in Seq(Nat)
    OBVIOUS
  <2>2. <<d>> \o t \in Seq(Nat)
    BY <2>1
  <2> QED BY <2>2
<1>3. Len(u) = n + 1 /\ u[1] = d /\ \A i \in 1..n : u[i + 1] = t[i]
  BY <1>1, <1>2
<1>4. PICK v : v = Reverse(t)
  OBVIOUS
<1>5. v \in Seq(Nat) /\ Len(v) = n /\ \A i \in 1..n : v[i] = t[(n - i) + 1]
  <2>1. v = [i \in 1..n |-> t[(n - i) + 1]]
    BY <1>1, <1>4 DEF Reverse
  <2>2. \A i \in 1..n : t[(n - i) + 1] \in Nat
    BY <1>1
  <2> QED BY <2>1, <2>2
<1>6. PICK w : w = Reverse(u)
  OBVIOUS
<1>7. w \in Seq(Nat) /\ Len(w) = n + 1 /\ \A i \in 1..(n + 1) : w[i] = u[((n + 1) - i) + 1]
  <2>1. w = [i \in 1..(n + 1) |-> u[((n + 1) - i) + 1]]
    BY <1>3, <1>6 DEF Reverse
  <2>2. \A i \in 1..(n + 1) : u[((n + 1) - i) + 1] \in Nat
    BY <1>3
  <2> QED BY <2>1, <2>2
<1>8. PICK x \in Seq(Nat) : x = Append(v, d)
  <2>1. Append(v, d) \in Seq(Nat)
    BY <1>5
  <2> QED BY <2>1
<1>9. Len(x) = n + 1 /\ x[n + 1] = d /\ \A i \in 1..n : x[i] = v[i]
  BY <1>5, <1>8
<1>10. ASSUME NEW i \in 1..(n + 1) PROVE w[i] = x[i]
  <2>1. CASE i = n + 1
    BY <1>3, <1>7, <1>9, <2>1
  <2>2. CASE i \in 1..n
    <3>1. (n - i) + 1 \in 1..n /\ ((n + 1) - i) + 1 = ((n - i) + 1) + 1
      BY <2>2
    <3>2. PICK j \in 1..n : j = (n - i) + 1
      BY <3>1
    <3>3. w[i] = u[j + 1]
      BY <1>7, <3>1, <3>2
    <3>4. u[j + 1] = t[j] /\ v[i] = t[j] /\ x[i] = v[i]
      BY <1>3, <1>5, <1>9, <2>2, <3>2
    <3> QED BY <3>3, <3>4
  <2> QED BY <2>1, <2>2
<1>11. w = x
  BY <1>7, <1>9, <1>10
<1> QED BY <1>2, <1>4, <1>5, <1>6, <1>8, <1>11

\* f is the table by which ReadAs reads the first n digits.
ValueTable(f, s, n) == f = [i \in 0..n |-> IF i = 0 THEN 0 ELSE 10 * f[i - 1] + s[i]]

\* There is such a table.
LEMMA ValueTableExists ==
  ASSUME NEW s, NEW n \in Nat
  PROVE  \E f : ValueTable(f, s, n)
<1> DEFINE S == {m \in Nat : \E f : ValueTable(f, s, m)}
<1>1. 0 \in S
  <2>1. PICK f : f = [i \in 0..0 |-> 0]
    OBVIOUS
  <2>2. \A i \in 0..0 : i = 0
    OBVIOUS
  <2>3. ValueTable(f, s, 0)
    BY <2>1, <2>2 DEF ValueTable
  <2> QED BY <2>3
<1>2. ASSUME NEW m \in Nat, m \in S PROVE m + 1 \in S
  <2>1. PICK f : ValueTable(f, s, m)
    BY <1>2
  <2>2. PICK g : g = [i \in 0..(m + 1) |-> IF i = 0 THEN 0 ELSE 10 * f[i - 1] + s[i]]
    OBVIOUS
  <2>3. \A i \in 0..m : g[i] = f[i]
    <3>1. \A i \in 0..m : f[i] = IF i = 0 THEN 0 ELSE 10 * f[i - 1] + s[i]
      BY <2>1 DEF ValueTable
    <3>2. \A i \in 0..m : i \in 0..(m + 1)
      OBVIOUS
    <3>3. \A i \in 0..m : g[i] = IF i = 0 THEN 0 ELSE 10 * f[i - 1] + s[i]
      BY <2>2, <3>2
    <3> QED BY <3>1, <3>3
  <2>4. \A i \in 0..(m + 1) : i # 0 => i - 1 \in 0..m
    OBVIOUS
  <2>5. g = [i \in 0..(m + 1) |-> IF i = 0 THEN 0 ELSE 10 * g[i - 1] + s[i]]
    BY <2>2, <2>3, <2>4
  <2>6. ValueTable(g, s, m + 1)
    BY <2>5 DEF ValueTable
  <2> QED BY <2>6
<1> HIDE DEF S
<1>3. Nat \subseteq S
  BY <1>1, <1>2, SetInduction
<1> QED BY <1>3 DEF S

\* Two texts begin with the same n digits.
SameStart(s, t, n) == \A i \in 1..n : s[i] = t[i]

\* Tables of two texts agree on what the texts begin with.
LEMMA ValueTablesAgree ==
  ASSUME NEW s, NEW t, NEW f, NEW g, NEW n \in Nat, NEW m \in Nat, n <= m,
         ValueTable(f, s, n), ValueTable(g, t, m), SameStart(s, t, n)
  PROVE  f[n] = g[n]
<1> DEFINE S == {i \in Nat : i \in 0..n => f[i] = g[i]}
<1>1. 0 \in S
  <2>1. 0 \in 0..n /\ 0 \in 0..m
    OBVIOUS
  <2>2. f[0] = 0 /\ g[0] = 0
    BY <2>1 DEF ValueTable
  <2> QED BY <2>2
<1>2. ASSUME NEW i \in Nat, i \in S PROVE i + 1 \in S
  <2> SUFFICES ASSUME i + 1 \in 0..n PROVE f[i + 1] = g[i + 1]
    OBVIOUS
  <2>1. i + 1 \in 0..n /\ i + 1 \in 0..m /\ i + 1 # 0 /\ (i + 1) - 1 = i /\ i + 1 \in 1..n /\ i \in 0..n
    OBVIOUS
  <2>2. f[i + 1] = 10 * f[(i + 1) - 1] + s[i + 1] /\ g[i + 1] = 10 * g[(i + 1) - 1] + t[i + 1]
    BY <2>1 DEF ValueTable
  <2>3. s[i + 1] = t[i + 1] /\ f[i] = g[i]
    BY <1>2, <2>1 DEF SameStart
  <2> QED BY <2>1, <2>2, <2>3
<1> HIDE DEF S
<1>3. Nat \subseteq S
  BY <1>1, <1>2, SetInduction
<1>4. n \in 0..n /\ n \in S
  BY <1>3
<1> QED BY <1>4 DEF S

\* ReadAs reads the table.
LEMMA ReadTable ==
  ASSUME NEW s \in Seq(Nat)
  PROVE  \E f : ValueTable(f, s, Len(s)) /\ ReadAs(s) = f[Len(s)]
<1> DEFINE h == CHOOSE f : f = [i \in 0..Len(s) |-> IF i = 0 THEN 0 ELSE 10 * f[i - 1] + s[i]]
<1>1. ReadAs(s) = h[Len(s)]
  BY DEF ReadAs
<1>2. \E f : f = [i \in 0..Len(s) |-> IF i = 0 THEN 0 ELSE 10 * f[i - 1] + s[i]]
  BY ValueTableExists DEF ValueTable
<1>3. h = [i \in 0..Len(s) |-> IF i = 0 THEN 0 ELSE 10 * h[i - 1] + s[i]]
  BY <1>2
<1> HIDE DEF h
<1>4. ValueTable(h, s, Len(s))
  BY <1>3 DEF ValueTable
<1> QED BY <1>1, <1>4

\* A digit more.
LEMMA ReadDigit ==
  ASSUME NEW s \in Seq(Nat), NEW d \in Nat
  PROVE  ReadAs(Append(s, d)) = 10 * ReadAs(s) + d
<1>1. PICK n \in Nat : n = Len(s)
  OBVIOUS
<1>0. Append(s, d) \in Seq(Nat)
  OBVIOUS
<1>2. PICK t \in Seq(Nat) : t = Append(s, d)
  BY <1>0
<1>3. Len(t) = n + 1 /\ t[n + 1] = d /\ \A i \in 1..n : s[i] = t[i]
  BY <1>1, <1>2
<1>4. PICK f : ValueTable(f, s, n) /\ ReadAs(s) = f[n]
  BY <1>1, ReadTable
<1>5. PICK g : ValueTable(g, t, n + 1) /\ ReadAs(t) = g[n + 1]
  BY <1>3, ReadTable
<1>6. n + 1 \in Nat /\ n <= n + 1 /\ n + 1 \in 0..(n + 1) /\ n + 1 # 0 /\ (n + 1) - 1 = n
  OBVIOUS
<1>7. f[n] = g[n]
  <2>1. PICK m \in Nat : m = n + 1
    OBVIOUS
  <2>2. n <= m /\ ValueTable(g, t, m) /\ ValueTable(f, s, n) /\ SameStart(s, t, n)
    BY <1>3, <1>4, <1>5, <2>1 DEF SameStart
  <2> QED BY ONLY <2>2, n \in Nat, m \in Nat, ValueTablesAgree
<1>8. g[n + 1] = 10 * g[n] + t[n + 1]
  <2>1. g[n + 1] = 10 * g[(n + 1) - 1] + t[n + 1]
    BY <1>5, <1>6 DEF ValueTable
  <2> QED BY <1>6, <2>1
<1> QED BY <1>2, <1>3, <1>4, <1>5, <1>7, <1>8

\* One digit is the number itself.
LEMMA ReadFirst ==
  ASSUME NEW d \in Nat
  PROVE  ReadAs(<<d>>) = d
<1>0. <<d>> \in Seq(Nat)
  OBVIOUS
<1>1. PICK s \in Seq(Nat) : s = <<d>>
  BY <1>0
<1>2. Len(s) = 1 /\ s[1] = d
  BY <1>1
<1>3. PICK f : ValueTable(f, s, 1) /\ ReadAs(s) = f[1]
  BY <1>2, ReadTable
<1>4. 0 \in 0..1 /\ 1 \in 0..1 /\ 1 # 0 /\ 1 - 1 = 0
  OBVIOUS
<1>5. f[0] = 0 /\ f[1] = 10 * f[1 - 1] + s[1]
  BY <1>3, <1>4 DEF ValueTable
<1>6. f[1] = 10 * 0 + d
  BY <1>2, <1>4, <1>5
<1> QED BY <1>1, <1>3, <1>6

\* convert: the digits of a number, reversed, read as the number.
LEMMA DigitsRead ==
  ASSUME NEW i \in Nat
  PROVE  ReadAs(Reverse(LowDigits(i, 10))) = i
<1> DEFINE S == {m \in Nat : \A n \in 0..m : ReadAs(Reverse(LowDigits(n, 10))) = n}
<1>0. 10 \in Radix
  BY DEF Radix
<1>1. ASSUME NEW n \in Nat, n < 10 PROVE ReadAs(Reverse(LowDigits(n, 10))) = n
  <2>1. LowDigits(n, 10) = <<n>>
    BY <1>0, <1>1, OneDigit
  <2>2. Reverse(<<n>>) = <<n>>
    BY DEF Reverse
  <2> QED BY <2>1, <2>2, ReadFirst
<1>2. 0 \in S
  <2>1. \A n \in 0..0 : n \in Nat /\ n < 10
    OBVIOUS
  <2> QED BY <1>1, <2>1
<1>3. ASSUME NEW m \in Nat, m \in S PROVE m + 1 \in S
  <2>1. PICK n \in Nat : n = m + 1
    OBVIOUS
  <2>2. CASE n < 10
    <3>1. ReadAs(Reverse(LowDigits(n, 10))) = n
      BY <1>1, <2>2
    <3>2. \A j \in 0..(m + 1) : j \in 0..m \/ j = n
      BY <2>1
    <3> QED BY <1>3, <2>1, <3>1, <3>2
  <2>3. CASE ~(n < 10)
    <3>1. PICK k \in Nat, d \in Nat : k = n \div 10 /\ d = n % 10 /\ k < n /\ n = 10 * k + d
      BY <2>3
    <3>2. k \in 0..m
      BY <2>1, <3>1
    <3>3. PICK t \in Seq(Nat) : t = LowDigits(k, 10)
      BY <1>0, DigitsType
    <3>4. LowDigits(n, 10) = <<d>> \o t
      BY <1>0, <2>3, <3>1, <3>3, OneDigit
    <3>5. Reverse(<<d>> \o t) = Append(Reverse(t), d) /\ Reverse(t) \in Seq(Nat)
      BY ReverseDigits
    <3>6. ReadAs(Reverse(t)) = k
      BY <1>3, <3>2, <3>3
    <3>7. ReadAs(Append(Reverse(t), d)) = 10 * k + d
      BY <3>5, <3>6, ReadDigit
    <3>8. ReadAs(Reverse(LowDigits(n, 10))) = n
      BY <3>1, <3>4, <3>5, <3>7
    <3>9. \A j \in 0..(m + 1) : j \in 0..m \/ j = n
      BY <2>1
    <3> QED BY <1>3, <2>1, <3>8, <3>9
  <2> QED BY <2>2, <2>3
<1> HIDE DEF S
<1>4. Nat \subseteq S
  BY <1>2, <1>3, SetInduction
<1>5. i \in 0..i /\ i \in S
  BY <1>4
<1> QED BY <1>5 DEF S


\* How many digits a small number has.
LEMMA DigitCount ==
  ASSUME NEW n \in Nat
  PROVE  /\ Len(LowDigits(n, 10)) \in Nat
         /\ n < 10 => Len(LowDigits(n, 10)) <= 1
         /\ n < 100 => Len(LowDigits(n, 10)) <= 2
         /\ n < 1000 => Len(LowDigits(n, 10)) <= 3
         /\ n < 10000 => Len(LowDigits(n, 10)) <= 4
<1>0. 10 \in Radix
  BY DEF Radix
<1>1. ASSUME NEW m \in Nat, m < 10 PROVE Len(LowDigits(m, 10)) <= 1
  <2>1. LowDigits(m, 10) = <<m>>
    BY <1>0, <1>1, OneDigit
  <2>2. Len(<<m>>) <= 1
    OBVIOUS
  <2> QED BY <2>1, <2>2
<1>2. ASSUME NEW m \in Nat, ~(m < 10)
      PROVE  \E k \in Nat : /\ k = m \div 10
                            /\ Len(LowDigits(m, 10)) = Len(LowDigits(k, 10)) + 1
  <2>1. PICK k \in Nat, d \in Nat : k = m \div 10 /\ d = m % 10
    BY <1>2
  <2>2. PICK t \in Seq(Nat) : t = LowDigits(k, 10)
    BY <1>0, DigitsType
  <2>3. LowDigits(m, 10) = <<d>> \o t
    BY <1>0, <1>2, <2>1, <2>2, OneDigit
  <2>4. <<d>> \in Seq(Nat) /\ Len(<<d>>) = 1
    OBVIOUS
  <2>5. Len(<<d>> \o t) = Len(t) + 1
    BY <2>4
  <2> QED BY <2>1, <2>2, <2>3, <2>5
<1>3. \A m \in Nat : Len(LowDigits(m, 10)) \in Nat
  BY <1>0, DigitsType
<1>4. ASSUME NEW m \in Nat, m < 100 PROVE Len(LowDigits(m, 10)) <= 2
  <2>1. CASE ~(m < 10)
    <3>1. PICK k \in Nat : k = m \div 10 /\ Len(LowDigits(m, 10)) = Len(LowDigits(k, 10)) + 1
      BY <1>2, <2>1
    <3>2. k < 10
      BY <1>4, <3>1
    <3>3. PICK a \in Nat : a = Len(LowDigits(k, 10))
      BY <1>3
    <3>4. a <= 1
      BY <1>1, <3>2, <3>3
    <3> QED BY <3>1, <3>3, <3>4
  <2>2. CASE m < 10
    <3>1. PICK a \in Nat : a = Len(LowDigits(m, 10))
      BY <1>3
    <3>2. a <= 1
      BY ONLY <1>1, <2>2, <3>1, m \in Nat
    <3> QED BY <3>1, <3>2
  <2> QED BY <2>1, <2>2
<1>5. ASSUME NEW m \in Nat, m < 1000 PROVE Len(LowDigits(m, 10)) <= 3
  <2>1. CASE ~(m < 10)
    <3>1. PICK k \in Nat : k = m \div 10 /\ Len(LowDigits(m, 10)) = Len(LowDigits(k, 10)) + 1
      BY <1>2, <2>1
    <3>2. k < 100
      BY <1>5, <3>1
    <3>3. PICK a \in Nat : a = Len(LowDigits(k, 10)) /\ a <= 2
      BY <1>3, <1>4, <3>2
    <3> QED BY <3>1, <3>3
  <2>2. CASE m < 10
    <3>1. PICK a \in Nat : a = Len(LowDigits(m, 10))
      BY <1>3
    <3>2. a <= 1
      BY ONLY <1>1, <2>2, <3>1, m \in Nat
    <3> QED BY <3>1, <3>2
  <2> QED BY <2>1, <2>2
<1>6. ASSUME NEW m \in Nat, m < 10000 PROVE Len(LowDigits(m, 10)) <= 4
  <2>1. CASE ~(m < 10)
    <3>1. PICK k \in Nat : k = m \div 10 /\ Len(LowDigits(m, 10)) = Len(LowDigits(k, 10)) + 1
      BY <1>2, <2>1
    <3>2. k < 1000
      BY <1>6, <3>1
    <3>3. PICK a \in Nat : a = Len(LowDigits(k, 10)) /\ a <= 3
      BY <1>3, <1>5, <3>2
    <3> QED BY <3>1, <3>3
  <2>2. CASE m < 10
    <3>1. PICK a \in Nat : a = Len(LowDigits(m, 10))
      BY <1>3
    <3>2. a <= 1
      BY ONLY <1>1, <2>2, <3>1, m \in Nat
    <3> QED BY <3>1, <3>2
  <2> QED BY <2>1, <2>2
<1>7. n < 10 => Len(LowDigits(n, 10)) <= 1
  BY <1>1
<1>8. n < 100 => Len(LowDigits(n, 10)) <= 2
  BY <1>4
<1>9. n < 1000 => Len(LowDigits(n, 10)) <= 3
  BY <1>5
<1>10. n < 10000 => Len(LowDigits(n, 10)) <= 4
  BY <1>6
<1> QED BY <1>3, <1>7, <1>8, <1>9, <1>10

-----------------------------------------------------------------------------
(* Units.                                                                  *)

\* The digits before the point of what a column shows: one, two or three, and in the
\* last column of formatIEC up to four.
LEMMA WholeFits ==
  ASSUME NEW q \in [lead : Nat, power : Nat, less : Nat]
  PROVE  /\ q.lead <= 9995 =>
              WholePart(q, 2, 1000) \in Nat /\ WholePart(q, 2, 1000) <= 9
         /\ q.lead < 99950 \/ (q.lead = 99950 /\ q.less # 0) =>
              WholePart(q, 1, 1000) \in Nat /\ WholePart(q, 1, 1000) <= 99
         /\ q.lead <= 99950 =>
              WholePart(q, 1, 1000) \in Nat /\ WholePart(q, 1, 1000) <= 100
         /\ q.lead <= 999500 =>
              WholePart(q, 0, 1000) \in Nat /\ WholePart(q, 0, 1000) <= 1000
         /\ q.lead <= 10234 =>
              WholePart(q, 2, 1024) \in Nat /\ WholePart(q, 2, 1024) <= 9
         /\ q.lead <= 102348 =>
              WholePart(q, 1, 1024) \in Nat /\ WholePart(q, 1, 1024) <= 99
         /\ q.lead <= 1048064 =>
              WholePart(q, 0, 1024) \in Nat /\ WholePart(q, 0, 1024) <= 1024
<1>1. PICK l \in Nat : l = q.lead
  OBVIOUS
<1>2. ASSUME l <= 9995 PROVE WholePart(q, 2, 1000) \in Nat /\ WholePart(q, 2, 1000) <= 9
  <2>1. PICK w \in Nat, t \in Nat : /\ w = (2 * l * 100) \div (2 * 1000)
                                    /\ t = (2 * l * 100) % (2 * 1000)
    OBVIOUS
  <2>2. PICK u \in {0, 1} : /\ WholePart(q, 2, 1000) = (w + u) \div 100
                            /\ u = 1 => t > 1000
    <3>1. l \notin Halves
      BY <1>2 DEF Halves
    <3> QED BY <1>1, <2>1, <3>1 DEF WholePart
  <2>3. w + u <= 999
    BY <1>2, <2>1, <2>2
  <2> QED BY <2>2, <2>3
<1>3. ASSUME l < 99950 \/ (l = 99950 /\ q.less # 0) PROVE WholePart(q, 1, 1000) \in Nat /\ WholePart(q, 1, 1000) <= 99
  <2>1. PICK w \in Nat, t \in Nat : /\ w = (2 * l * 10) \div (2 * 1000)
                                    /\ t = (2 * l * 10) % (2 * 1000)
    OBVIOUS
  <2>2. PICK u \in {0, 1} : /\ WholePart(q, 1, 1000) = (w + u) \div 10
                            /\ u = 1 => t > 1000
    <3>1. l \notin Halves \/ q.less # 0
      BY <1>3 DEF Halves
    <3> QED BY <1>1, <2>1, <3>1 DEF WholePart
  <2>3. w + u <= 999
    BY <1>3, <2>1, <2>2
  <2> QED BY <2>2, <2>3
<1>4. ASSUME l <= 999500 PROVE WholePart(q, 0, 1000) \in Nat /\ WholePart(q, 0, 1000) <= 1000
  <2>1. PICK w \in Nat, t \in Nat : /\ w = (2 * l * 1) \div (2 * 1000)
                                    /\ t = (2 * l * 1) % (2 * 1000)
    OBVIOUS
  <2>2. PICK u \in {0, 1} : WholePart(q, 0, 1000) = (w + u) \div 1
    BY <1>1, <2>1 DEF WholePart
  <2>3. w + u <= 1000
    BY <1>4, <2>1, <2>2
  <2> QED BY <2>2, <2>3
<1>5. ASSUME l <= 10234 PROVE WholePart(q, 2, 1024) \in Nat /\ WholePart(q, 2, 1024) <= 9
  <2>1. PICK w \in Nat, t \in Nat : /\ w = (2 * l * 100) \div (2 * 1024)
                                    /\ t = (2 * l * 100) % (2 * 1024)
    OBVIOUS
  <2>2. PICK u \in {0, 1} : /\ WholePart(q, 2, 1024) = (w + u) \div 100
                            /\ u = 1 => t >= 1024
    BY <1>1, <2>1 DEF WholePart
  <2>3. w + u <= 999
    BY <1>5, <2>1, <2>2
  <2> QED BY <2>2, <2>3
<1>6. ASSUME l <= 102348 PROVE WholePart(q, 1, 1024) \in Nat /\ WholePart(q, 1, 1024) <= 99
  <2>1. PICK w \in Nat, t \in Nat : /\ w = (2 * l * 10) \div (2 * 1024)
                                    /\ t = (2 * l * 10) % (2 * 1024)
    OBVIOUS
  <2>2. PICK u \in {0, 1} : /\ WholePart(q, 1, 1024) = (w + u) \div 10
                            /\ u = 1 => t >= 1024
    BY <1>1, <2>1 DEF WholePart
  <2>3. w + u <= 999
    BY <1>6, <2>1, <2>2
  <2> QED BY <2>2, <2>3
<1>7. ASSUME l <= 1048064 PROVE WholePart(q, 0, 1024) \in Nat /\ WholePart(q, 0, 1024) <= 1024
  <2>1. PICK w \in Nat, t \in Nat : /\ w = (2 * l * 1) \div (2 * 1024)
                                    /\ t = (2 * l * 1) % (2 * 1024)
    OBVIOUS
  <2>2. PICK u \in {0, 1} : WholePart(q, 0, 1024) = (w + u) \div 1
    BY <1>1, <2>1 DEF WholePart
  <2>3. w + u <= 1024
    BY <1>7, <2>1, <2>2
  <2> QED BY <2>2, <2>3
<1>8. ASSUME l <= 99950 PROVE WholePart(q, 1, 1000) \in Nat /\ WholePart(q, 1, 1000) <= 100
  <2>1. PICK w \in Nat : w = (2 * l * 10) \div (2 * 1000)
    OBVIOUS
  <2>2. PICK u \in {0, 1} : WholePart(q, 1, 1000) = (w + u) \div 10
    BY <1>1, <2>1 DEF WholePart
  <2>3. w + u <= 1000
    BY <1>8, <2>1, <2>2
  <2> QED BY <2>2, <2>3
<1> QED BY <1>1, <1>2, <1>3, <1>4, <1>5, <1>6, <1>7, <1>8

\* The characters of a number with its unit.
LEMMA WidthFits ==
  ASSUME NEW w \in Nat, NEW unit \in 0..2
  PROVE  /\ w < 10 => NumberWidth(w, 2, unit) \in Nat /\ NumberWidth(w, 2, unit) <= 4 + unit
         /\ w < 100 => NumberWidth(w, 1, unit) \in Nat /\ NumberWidth(w, 1, unit) <= 4 + unit
         /\ w < 1000 => NumberWidth(w, 1, unit) \in Nat /\ NumberWidth(w, 1, unit) <= 5 + unit
         /\ w < 1000 => NumberWidth(w, 0, unit) \in Nat /\ NumberWidth(w, 0, unit) <= 3 + unit
         /\ w < 10000 => NumberWidth(w, 0, unit) \in Nat /\ NumberWidth(w, 0, unit) <= 4 + unit
<1>1. PICK l \in Nat : l = Len(LowDigits(w, 10))
  BY DigitCount
<1>2. /\ w < 10 => l <= 1
      /\ w < 100 => l <= 2
      /\ w < 1000 => l <= 3
      /\ w < 10000 => l <= 4
  BY <1>1, DigitCount
<1>3. /\ NumberWidth(w, 2, unit) = l + (1 + 2) + unit
      /\ NumberWidth(w, 1, unit) = l + (1 + 1) + unit
      /\ NumberWidth(w, 0, unit) = l + 0 + unit
  BY <1>1 DEF NumberWidth
<1> QED BY <1>2, <1>3

\* What QuantitiesAssumption says of a quantity.
IsQuantity(q, base) ==
  /\ base \in {1000, 1024} /\ q \in [lead : Nat, power : Nat, less : Nat]
  /\ q.power = 0 => q.less = 0

\* The column that formatSI takes, by what is before the point.
LEMMA ColumnSI ==
  ASSUME NEW q \in [lead : Nat, power : Nat, less : Nat]
  PROVE  /\ Decimals(q, SILimits, 1000) \in {-1, 0, 1, 2}
         /\ Decimals(q, SILimits, 1000) = 2 => q.lead <= 9995
         /\ Decimals(q, SILimits, 1000) = 1 =>
              q.lead < 99950 \/ (q.lead = 99950 /\ q.less > 0)
         /\ Decimals(q, SILimits, 1000) = 0 => q.lead <= 999500
<1>1. PICK l \in Nat, s \in Nat : l = q.lead /\ s = q.less
  OBVIOUS
<1>2. SILimits[1] = 9995 /\ SILimits[2] = 99950 /\ SILimits[3] = 999500
  BY DEF SILimits
<1>3. /\ Below(q, 9995, 1000) => l <= 9995
      /\ Below(q, 99950, 1000) => l < 99950 \/ (l = 99950 /\ s > 0)
      /\ Below(q, 999500, 1000) => l <= 999500
  BY <1>1 DEF Below
<1>4. Decimals(q, SILimits, 1000) =
        IF Below(q, 9995, 1000) THEN 2 ELSE IF Below(q, 99950, 1000) THEN 1
        ELSE IF Below(q, 999500, 1000) THEN 0 ELSE -1
  BY <1>2 DEF Decimals
<1> QED BY <1>1, <1>3, <1>4

\* The column that formatIEC takes.
LEMMA ColumnIEC ==
  ASSUME NEW q \in [lead : Nat, power : Nat, less : Nat]
  PROVE  /\ Decimals(q, IECLimits, 1024) \in {-1, 0, 1, 2}
         /\ Decimals(q, IECLimits, 1024) = 2 => q.lead <= 10234
         /\ Decimals(q, IECLimits, 1024) = 1 => q.lead <= 102348
         /\ Decimals(q, IECLimits, 1024) = 0 => q.lead <= 1048064
<1>1. PICK l \in Nat, s \in Nat : l = q.lead /\ s = q.less
  OBVIOUS
<1>2. IECLimits[1] = 9995 /\ IECLimits[2] = 99950 /\ IECLimits[3] = 1023500
  BY DEF IECLimits
<1>3. /\ Below(q, 9995, 1024) => l <= 10234
      /\ Below(q, 99950, 1024) => l <= 102348
      /\ Below(q, 1023500, 1024) => l <= 1048064
  BY <1>1 DEF Below
<1>4. Decimals(q, IECLimits, 1024) =
        IF Below(q, 9995, 1024) THEN 2 ELSE IF Below(q, 99950, 1024) THEN 1
        ELSE IF Below(q, 1023500, 1024) THEN 0 ELSE -1
  BY <1>2 DEF Decimals
<1> QED BY <1>1, <1>3, <1>4

\* The double of a quantity: of the ones that a limit tells apart, only 99.95P loses what
\* it is less by.
LEMMA DoubleKept ==
  ASSUME NEW q, IsQuantity(q, 1000)
  PROVE  /\ AsDouble(q) \in [lead : Nat, power : Nat, less : Nat]
         /\ AsDouble(q).lead = q.lead
         /\ q.lead = 99950 /\ q.less > 0 /\ ~Carries(q) => AsDouble(q).less > 0
<1>1. q \in [lead : Nat, power : Nat, less : Nat]
  BY DEF IsQuantity
<1>2. HalfSpacing(99950) = 8
  BY DEF HalfSpacing
<1>3. CASE q.power = 4 /\ q.less <= HalfSpacing(q.lead)
  <2>1. AsDouble(q) = [q EXCEPT !.less = 0]
    BY <1>3 DEF AsDouble
  <2>2. ~(q.lead = 99950 /\ q.less > 0 /\ ~Carries(q))
    BY <1>1, <1>2, <1>3 DEF Carries
  <2> QED BY <1>1, <2>1, <2>2
<1>4. CASE ~(q.power = 4 /\ q.less <= HalfSpacing(q.lead))
  <2>1. AsDouble(q) = q
    BY <1>4 DEF AsDouble
  <2> QED BY <1>1, <2>1
<1> QED BY <1>3, <1>4

\* formatSI gives at most five characters, and six just below 99.95P.
LEMMA SIFits ==
  ASSUME NEW q, IsQuantity(q, 1000)
  PROVE  formatSI(q) \in Nat /\ formatSI(q) <= (IF Carries(q) THEN 6 ELSE 5)
<1>1. q \in [lead : Nat, power : Nat, less : Nat]
  BY DEF IsQuantity
<1>2. CASE q.power = 0 /\ q.lead - q.less < 1000
  <2>1. PICK w \in Nat : w = q.lead - q.less /\ w < 1000
    BY <1>1, <1>2 DEF IsQuantity
  <2>2. formatSI(q) = NumberWidth(w, 0, 0)
    BY <1>2, <2>1 DEF formatSI
  <2>3. 0 \in 0..2
    OBVIOUS
  <2>4. formatSI(q) \in Nat /\ formatSI(q) <= 3
    BY ONLY <2>1, <2>2, <2>3, WidthFits
  <2> QED BY ONLY <2>4
<1>3. CASE ~(q.power = 0 /\ q.lead - q.less < 1000)
  <2>0. 1 \in 0..2
    OBVIOUS
  <2>1. PICK d : d = Decimals(q, SILimits, 1000)
    OBVIOUS
  <2>2. PICK p \in [lead : Nat, power : Nat, less : Nat] :
            /\ p = AsDouble(q) /\ p.lead = q.lead
            /\ q.lead = 99950 /\ q.less > 0 /\ ~Carries(q) => p.less > 0
    BY DoubleKept
  <2>3. formatSI(q) = IF d < 0 THEN NumberWidth(1, 2, 1)
                      ELSE NumberWidth(WholePart(p, d, 1000), d, 1)
    BY <1>3, <2>1, <2>2 DEF formatSI
  <2>4. /\ d \in {-1, 0, 1, 2}
        /\ d = 2 => p.lead <= 9995
        /\ d = 1 => p.lead <= 99950
        /\ d = 1 /\ ~Carries(q) => p.lead < 99950 \/ (p.lead = 99950 /\ p.less # 0)
        /\ d = 0 => p.lead <= 999500
    BY <1>1, <2>1, <2>2, ColumnSI
  <2>5. CASE d = -1
    <3>1. formatSI(q) = NumberWidth(1, 2, 1)
      BY <2>3, <2>5
    <3> QED BY <2>0, <3>1, WidthFits
  <2>6. CASE d = 2
    <3>1. PICK w \in Nat : w = WholePart(p, 2, 1000) /\ w < 10
      BY <2>4, <2>6, WholeFits
    <3>2. formatSI(q) = NumberWidth(w, 2, 1)
      BY <2>3, <2>6, <3>1
    <3> QED BY <2>0, <3>1, <3>2, WidthFits
  <2>7. CASE d = 1
    <3>1. PICK w \in Nat : w = WholePart(p, 1, 1000) /\ w < 1000 /\ (~Carries(q) => w < 100)
      BY <2>4, <2>7, WholeFits
    <3>2. formatSI(q) = NumberWidth(w, 1, 1)
      BY <2>3, <2>7, <3>1
    <3> QED BY <2>0, <3>1, <3>2, WidthFits
  <2>8. CASE d = 0
    <3>1. PICK w \in Nat : w = WholePart(p, 0, 1000) /\ w < 10000
      BY <2>4, <2>8, WholeFits
    <3>2. formatSI(q) = NumberWidth(w, 0, 1)
      BY <2>3, <2>8, <3>1
    <3> QED BY <2>0, <3>1, <3>2, WidthFits
  <2> QED BY <2>4, <2>5, <2>6, <2>7, <2>8
<1> QED BY <1>2, <1>3

\* formatIEC gives at most six characters.
LEMMA IECFits ==
  ASSUME NEW q, IsQuantity(q, 1024)
  PROVE  formatIEC(q) \in Nat /\ formatIEC(q) <= 6
<1>1. q \in [lead : Nat, power : Nat, less : Nat]
  BY DEF IsQuantity
<1>2. CASE q.power = 0 /\ q.lead - q.less < 1024
  <2>1. PICK w \in Nat : w = q.lead - q.less /\ w < 10000
    BY <1>1, <1>2 DEF IsQuantity
  <2>2. formatIEC(q) = NumberWidth(w, 0, 0)
    BY <1>2, <2>1 DEF formatIEC
  <2>3. 0 \in 0..2
    OBVIOUS
  <2> QED BY <2>1, <2>2, <2>3, WidthFits
<1>3. CASE ~(q.power = 0 /\ q.lead - q.less < 1024)
  <2>0. 2 \in 0..2
    OBVIOUS
  <2>1. PICK d : d = Decimals(q, IECLimits, 1024)
    OBVIOUS
  <2>3. formatIEC(q) = IF d < 0 THEN NumberWidth(1, 2, 2)
                       ELSE NumberWidth(WholePart(q, d, 1024), d, 2)
    BY <1>3, <2>1 DEF formatIEC
  <2>4. /\ d \in {-1, 0, 1, 2}
        /\ d = 2 => q.lead <= 10234
        /\ d = 1 => q.lead <= 102348
        /\ d = 0 => q.lead <= 1048064
    BY <1>1, <2>1, ColumnIEC
  <2>5. CASE d = -1
    <3>1. formatIEC(q) = NumberWidth(1, 2, 2)
      BY <2>3, <2>5
    <3> QED BY <2>0, <3>1, WidthFits
  <2>6. CASE d = 2
    <3>1. PICK w \in Nat : w = WholePart(q, 2, 1024) /\ w < 10
      BY <1>1, <2>4, <2>6, WholeFits
    <3>2. formatIEC(q) = NumberWidth(w, 2, 2)
      BY <2>3, <2>6, <3>1
    <3> QED BY <2>0, <3>1, <3>2, WidthFits
  <2>7. CASE d = 1
    <3>1. PICK w \in Nat : w = WholePart(q, 1, 1024) /\ w < 100
      BY <1>1, <2>4, <2>7, WholeFits
    <3>2. formatIEC(q) = NumberWidth(w, 1, 2)
      BY <2>3, <2>7, <3>1
    <3> QED BY <2>0, <3>1, <3>2, WidthFits
  <2>8. CASE d = 0
    <3>1. PICK w \in Nat : w = WholePart(q, 0, 1024) /\ w < 10000
      BY <1>1, <2>4, <2>8, WholeFits
    <3>2. formatIEC(q) = NumberWidth(w, 0, 2)
      BY <2>3, <2>8, <3>1
    <3> QED BY <2>0, <3>1, <3>2, WidthFits
  <2> QED BY <2>4, <2>5, <2>6, <2>7, <2>8
<1> QED BY <1>2, <1>3


-----------------------------------------------------------------------------
(* Lines.                                                                  *)

\* FixedBuffer::append takes a text whole or not at all.
LEMMA AppendType ==
  ASSUME NEW length \in Nat, NEW len \in Nat
  PROVE  append(length, len) \in Nat /\ Numeric(length, len) \in Nat
BY LogStreamAssumption DEF append, Numeric, avail

\* f is the table of Appended for the first n of s.
LengthTable(f, s, n) == f = [i \in 0..n |-> IF i = 0 THEN 0 ELSE append(f[i - 1], s[i])]

\* There is such a table.
LEMMA LengthTableExists ==
  ASSUME NEW s, NEW n \in Nat
  PROVE  \E f : LengthTable(f, s, n)
<1> DEFINE S == {m \in Nat : \E f : LengthTable(f, s, m)}
<1>1. 0 \in S
  <2>1. PICK f : f = [i \in 0..0 |-> 0]
    OBVIOUS
  <2>2. \A i \in 0..0 : i = 0
    OBVIOUS
  <2>3. LengthTable(f, s, 0)
    BY <2>1, <2>2 DEF LengthTable
  <2> QED BY <2>3
<1>2. ASSUME NEW m \in Nat, m \in S PROVE m + 1 \in S
  <2>1. PICK f : LengthTable(f, s, m)
    BY <1>2
  <2>2. PICK g : g = [i \in 0..(m + 1) |-> IF i = 0 THEN 0 ELSE append(f[i - 1], s[i])]
    OBVIOUS
  <2>3. \A i \in 0..m : g[i] = f[i]
    <3>1. \A i \in 0..m : f[i] = IF i = 0 THEN 0 ELSE append(f[i - 1], s[i])
      BY <2>1 DEF LengthTable
    <3>2. \A i \in 0..m : i \in 0..(m + 1)
      OBVIOUS
    <3>3. \A i \in 0..m : g[i] = IF i = 0 THEN 0 ELSE append(f[i - 1], s[i])
      BY <2>2, <3>2
    <3> QED BY <3>1, <3>3
  <2>4. \A i \in 0..(m + 1) : i # 0 => i - 1 \in 0..m
    OBVIOUS
  <2>5. g = [i \in 0..(m + 1) |-> IF i = 0 THEN 0 ELSE append(g[i - 1], s[i])]
    BY <2>2, <2>3, <2>4
  <2>6. LengthTable(g, s, m + 1)
    BY <2>5 DEF LengthTable
  <2> QED BY <2>6
<1> HIDE DEF S
<1>3. Nat \subseteq S
  BY <1>1, <1>2, SetInduction
<1> QED BY <1>3 DEF S

\* The length of a line is a number.
LEMMA AppendedType ==
  ASSUME NEW s \in Seq(Nat)
  PROVE  Appended(s) \in Nat
<1> DEFINE h == CHOOSE f : f = [i \in 0..Len(s) |-> IF i = 0 THEN 0 ELSE append(f[i - 1], s[i])]
<1>1. Appended(s) = h[Len(s)]
  BY DEF Appended
<1>2. \E f : f = [i \in 0..Len(s) |-> IF i = 0 THEN 0 ELSE append(f[i - 1], s[i])]
  BY LengthTableExists DEF LengthTable
<1>3. h = [i \in 0..Len(s) |-> IF i = 0 THEN 0 ELSE append(h[i - 1], s[i])]
  BY <1>2
<1> HIDE DEF h
<1> DEFINE S == {i \in Nat : i <= Len(s) => h[i] \in Nat}
<1>4. 0 \in S
  <2>1. 0 \in 0..Len(s)
    OBVIOUS
  <2>2. h[0] = 0
    BY <1>3, <2>1
  <2> QED BY <2>2
<1>5. ASSUME NEW i \in Nat, i \in S PROVE i + 1 \in S
  <2> SUFFICES ASSUME i + 1 <= Len(s) PROVE h[i + 1] \in Nat
    OBVIOUS
  <2>1. i + 1 \in 0..Len(s) /\ i + 1 # 0 /\ (i + 1) - 1 = i /\ i <= Len(s)
    OBVIOUS
  <2>2. h[i + 1] = append(h[(i + 1) - 1], s[i + 1])
    BY <1>3, <2>1
  <2>3. s[i + 1] \in Nat /\ h[i] \in Nat
    BY <1>5, <2>1
  <2> QED BY <2>1, <2>2, <2>3, AppendType
<1> HIDE DEF S
<1>6. Nat \subseteq S
  BY <1>4, <1>5, SetInduction
<1>7. Len(s) \in S /\ Len(s) <= Len(s)
  BY <1>6
<1> QED BY <1>1, <1>7 DEF S

\* What comes before the message.
LEMMA HeaderType ==
  ASSUME NEW level, NEW header \in Headers(level)
  PROVE  header \in Seq(Nat)
<1>1. ASSUME NEW withErrno \in BOOLEAN, NEW withFunc \in BOOLEAN
      PROVE  Header(withErrno, withFunc) \in Seq(Nat)
  <2>1. PICK z \in Nat : z = IF g_logTimeZone # Invalid THEN 8 ELSE 9
    OBVIOUS
  <2>2. <<17, z, 6, 6>> \in Seq(Nat)
    OBVIOUS
  <2>3. PICK e \in Seq(Nat) : e = IF withErrno THEN <<20, 8, 2, 2>> ELSE <<>>
    <3>1. <<20, 8, 2, 2>> \in Seq(Nat) /\ <<>> \in Seq(Nat)
      OBVIOUS
    <3> QED BY <3>1
  <2>4. PICK f \in Seq(Nat) : f = IF withFunc THEN <<8, 1>> ELSE <<>>
    <3>1. <<8, 1>> \in Seq(Nat) /\ <<>> \in Seq(Nat)
      OBVIOUS
    <3> QED BY <3>1
  <2>5. Header(withErrno, withFunc) = (<<17, z, 6, 6>> \o e) \o f
    BY <2>1, <2>3, <2>4 DEF Header, TidLength, ErrnoText, FuncLength
  <2> QED BY <2>2, <2>5
<1>2. \/ header = Header(FALSE, TRUE) \/ header = Header(FALSE, FALSE)
      \/ header = Header(TRUE, FALSE)
  BY DEF Headers
<1> QED BY <1>1, <1>2

\* What is told of a number that was written: it reads back and lies in the buffer.
IsEntry(n) ==
  /\ n.value = (IF n.text.negative THEN -ReadAs(n.text.digits) ELSE ReadAs(n.text.digits))
  /\ n.bytes <= kSmallBuffer

\* The fields of a line.
LineOf(open, fatal, length, inserts, number, si, iec, carries) ==
  [open |-> open, fatal |-> fatal, length |-> length, inserts |-> inserts,
   number |-> number, si |-> si, iec |-> iec, carries |-> carries]

\* A line, open or not: its length is a number, the last quantity was short, and the last
\* number reads back.
IsLine(l) ==
  /\ l = LineOf(l.open, l.fatal, l.length, l.inserts, l.number, l.si, l.iec, l.carries)
  /\ l.length \in Nat /\ l.si \in Nat /\ l.iec \in Nat
  /\ l.si <= (IF l.carries THEN 6 ELSE 5) /\ l.iec <= 6
  /\ \A i \in DOMAIN l.number : IsEntry(l.number[i])

\* A line by its fields.
LEMMA LineMade ==
  ASSUME NEW open, NEW fatal, NEW length \in Nat, NEW inserts, NEW number,
         NEW si \in Nat, NEW iec \in Nat, NEW carries,
         si <= (IF carries THEN 6 ELSE 5), iec <= 6,
         \A i \in DOMAIN number : IsEntry(number[i])
  PROVE  IsLine(LineOf(open, fatal, length, inserts, number, si, iec, carries))
<1>1. PICK l : l = LineOf(open, fatal, length, inserts, number, si, iec, carries)
  OBVIOUS
<1>2. /\ l.open = open /\ l.fatal = fatal /\ l.length = length /\ l.inserts = inserts
      /\ l.number = number /\ l.si = si /\ l.iec = iec /\ l.carries = carries
  BY <1>1 DEF LineOf
<1>3. l = LineOf(l.open, l.fatal, l.length, l.inserts, l.number, l.si, l.iec, l.carries)
  BY <1>1, <1>2
<1> QED BY <1>1, <1>2, <1>3 DEF IsLine

\* An insertion.
LEMMA InsertedFields ==
  ASSUME IsLine(line), NEW length
  PROVE  Inserted(length)
           = LineOf(line.open, line.fatal, length, line.inserts + 1, <<>>, 0, 0, FALSE)
<1>1. PICK open, fatal, l, inserts, number, si, iec, carries :
        line = [open |-> open, fatal |-> fatal, length |-> l, inserts |-> inserts,
                number |-> number, si |-> si, iec |-> iec, carries |-> carries]
  BY DEF IsLine, LineOf
<1>2. line.open = open /\ line.fatal = fatal /\ line.inserts = inserts
  BY <1>1
<1>3. Inserted(length) = [line EXCEPT !.length = length, !.inserts = inserts + 1,
                                      !.number = <<>>, !.si = 0, !.iec = 0,
                                      !.carries = FALSE]
  BY <1>1, <1>2 DEF Inserted
<1>4. Inserted(length) = [open |-> open, fatal |-> fatal, length |-> length,
                          inserts |-> inserts + 1, number |-> <<>>, si |-> 0, iec |-> 0,
                          carries |-> FALSE]
  BY <1>1, <1>3
<1> QED BY <1>2, <1>4 DEF LineOf

\* Text of any kind.
LEMMA InsertedLine ==
  ASSUME IsLine(line), NEW length \in Nat
  PROVE  IsLine(Inserted(length))
<1>1. \A i \in DOMAIN <<>> : IsEntry(<<>>[i])
  OBVIOUS
<1>2. 0 \in Nat /\ 0 <= (IF FALSE THEN 6 ELSE 5) /\ 0 <= 6
  OBVIOUS
<1>3. PICK none : none = <<>>
  OBVIOUS
<1>4. IsLine(LineOf(line.open, line.fatal, length, line.inserts + 1, none, 0, 0, FALSE))
  BY <1>1, <1>2, <1>3, LineMade
<1> QED BY <1>3, <1>4, InsertedFields

\* The text of a number: its length, and what it reads as.
LEMMA Converted ==
  ASSUME NEW value \in Int
  PROVE  /\ TextLength(convert(value)) \in Nat \ {0}
         /\ value = IF convert(value).negative THEN -ReadAs(convert(value).digits)
                    ELSE ReadAs(convert(value).digits)
<1>1. PICK m \in Nat : m = Magnitude(value)
  BY DEF Magnitude
<1>2. PICK t : t = LowDigits(m, 10)
  OBVIOUS
<1>3. t \in Seq(Nat) /\ Len(t) \in Nat \ {0}
  <2>1. 10 \in Radix
    BY DEF Radix
  <2> QED BY <1>2, <2>1, DigitsType
<1>4. PICK u : u = Reverse(t)
  OBVIOUS
<1>5. Len(u) = Len(t)
  BY <1>3, <1>4 DEF Reverse
<1>6. ReadAs(u) = m
  BY <1>2, <1>4, DigitsRead
<1>7. convert(value) = [negative |-> value < 0, digits |-> u]
  BY <1>1, <1>2, <1>4 DEF convert
<1>8. convert(value).negative = (value < 0) /\ convert(value).digits = u
  BY <1>7
<1>9. TextLength(convert(value)) = Len(t) + (IF value < 0 THEN 1 ELSE 0)
  BY <1>5, <1>8 DEF TextLength
<1>10. value = IF value < 0 THEN -m ELSE m
  BY <1>1 DEF Magnitude
<1>11. TextLength(convert(value)) \in Nat \ {0}
  BY ONLY <1>3, <1>9
<1>12. value = IF convert(value).negative THEN -ReadAs(convert(value).digits)
               ELSE ReadAs(convert(value).digits)
  BY ONLY <1>6, <1>8, <1>10, Zenon
<1> QED BY <1>11, <1>12

\* operator<< of an integer.
LEMMA NumberLine ==
  ASSUME IsLine(line), NEW value \in Numbers, InsertNumber(value)
  PROVE  IsLine(line')
<1>1. PICK length \in Nat : length = line.length
  BY DEF IsLine
<1>2. PICK n \in Nat \ {0} : n = TextLength(convert(value)) /\ n < kMaxNumericSize
  BY InsertsAssumption, Converted
<1>3. PICK end : end = formatInteger(length, value)
  OBVIOUS
<1>4. /\ end \in Nat
      /\ end # length => end + 1 <= kSmallBuffer
  <2>1. end = IF kSmallBuffer - length >= kMaxNumericSize THEN length + n ELSE length
    BY <1>2, <1>3 DEF formatInteger, Numeric, avail
  <2> QED BY <1>2, <2>1, LogStreamAssumption
<1>5. PICK number : number = IF end = length THEN <<>>
                             ELSE <<[value |-> value, text |-> convert(value), bytes |-> end + 1]>>
  OBVIOUS
<1>6. line' = [Inserted(end) EXCEPT !.number = number]
  BY <1>1, <1>3, <1>5 DEF InsertNumber
<1>7. line' = LineOf(line.open, line.fatal, end, line.inserts + 1, number, 0, 0, FALSE)
  <2>1. PICK open, fatal, inserts, no :
            /\ open = line.open /\ fatal = line.fatal /\ inserts = line.inserts + 1
            /\ no = FALSE
    OBVIOUS
  <2>2. Inserted(end) = [open |-> open, fatal |-> fatal, length |-> end, inserts |-> inserts,
                         number |-> <<>>, si |-> 0, iec |-> 0, carries |-> no]
    BY <2>1, InsertedFields DEF LineOf
  <2>3. line' = [open |-> open, fatal |-> fatal, length |-> end, inserts |-> inserts,
                 number |-> number, si |-> 0, iec |-> 0, carries |-> no]
    BY ONLY <1>6, <2>2
  <2> QED BY <2>1, <2>3 DEF LineOf
<1>8. \A i \in DOMAIN number : IsEntry(number[i])
  <2>1. CASE end = length
    BY <1>5, <2>1
  <2>2. CASE end # length
    <3>1. PICK e : e = [value |-> value, text |-> convert(value), bytes |-> end + 1]
      OBVIOUS
    <3>2. number = <<e>>
      BY <1>5, <2>2, <3>1
    <3>3. e.value = value /\ e.text = convert(value) /\ e.bytes = end + 1
      BY <3>1
    <3>4. value \in Int
      BY InsertsAssumption
    <3>5. IsEntry(e)
      BY <1>4, <2>2, <3>3, <3>4, Converted DEF IsEntry
    <3> QED BY <3>2, <3>5
  <2> QED BY <2>1, <2>2
<1>9. 0 \in Nat /\ 0 <= (IF FALSE THEN 6 ELSE 5) /\ 0 <= 6
  OBVIOUS
<1> QED BY ONLY <1>4, <1>7, <1>8, <1>9, LineMade


\* operator<< of a quantity formatted by formatSI or formatIEC.
LEMMA QuantityLine ==
  ASSUME IsLine(line),
         \/ \E q \in Quantities(1000) : InsertSI(q)
         \/ \E q \in Quantities(1024) : InsertIEC(q)
  PROVE  IsLine(line')
<1>1. PICK length \in Nat : length = line.length
  BY DEF IsLine
<1>2. \A i \in DOMAIN <<>> : IsEntry(<<>>[i])
  OBVIOUS
<1>3. 0 \in Nat /\ 0 <= (IF FALSE THEN 6 ELSE 5) /\ 0 <= 6
  OBVIOUS
<1>4. PICK none : none = <<>>
  OBVIOUS
<1>5. PICK open, fatal, inserts :
          open = line.open /\ fatal = line.fatal /\ inserts = line.inserts + 1
  OBVIOUS
<1>6. \A l : Inserted(l) = [open |-> open, fatal |-> fatal, length |-> l, inserts |-> inserts,
                            number |-> none, si |-> 0, iec |-> 0, carries |-> FALSE]
  BY <1>4, <1>5, InsertedFields DEF LineOf
<1>7. CASE \E q \in Quantities(1000) : InsertSI(q)
  <2>1. PICK q \in Quantities(1000) : InsertSI(q)
    BY <1>7
  <2>2. IsQuantity(q, 1000)
    BY QuantitiesAssumption DEF IsQuantity
  <2>3. PICK w \in Nat, c \in BOOLEAN :
            c = Carries(q) /\ w = formatSI(q) /\ w <= (IF c THEN 6 ELSE 5)
    <3>1. Carries(q) \in BOOLEAN
      BY DEF Carries
    <3>2. formatSI(q) \in Nat /\ formatSI(q) <= (IF Carries(q) THEN 6 ELSE 5)
      BY ONLY <2>2, SIFits
    <3> QED BY ONLY <3>1, <3>2, Zenon
  <2>4. PICK l \in Nat : l = append(length, w)
    BY AppendType
  <2>5. line' = [Inserted(l) EXCEPT !.si = w, !.carries = c]
    BY <1>1, <2>1, <2>3, <2>4 DEF InsertSI
  <2>6. line' = [open |-> open, fatal |-> fatal, length |-> l, inserts |-> inserts,
                 number |-> none, si |-> w, iec |-> 0, carries |-> c]
    BY ONLY <1>6, <2>5
  <2>7. line' = LineOf(open, fatal, l, inserts, none, w, 0, c)
    BY <2>6 DEF LineOf
  <2>8. \A i \in DOMAIN none : IsEntry(none[i])
    BY <1>2, <1>4
  <2> QED BY ONLY <1>3, <2>3, <2>4, <2>7, <2>8, LineMade
<1>8. CASE \E q \in Quantities(1024) : InsertIEC(q)
  <2>1. PICK q \in Quantities(1024) : InsertIEC(q)
    BY <1>8
  <2>2. IsQuantity(q, 1024)
    BY QuantitiesAssumption DEF IsQuantity
  <2>3. PICK w \in Nat : w = formatIEC(q) /\ w <= 6
    BY <2>2, IECFits
  <2>4. PICK l \in Nat : l = append(length, w)
    BY AppendType
  <2>5. line' = [Inserted(l) EXCEPT !.iec = w]
    BY <1>1, <2>1, <2>3, <2>4 DEF InsertIEC
  <2>6. line' = [open |-> open, fatal |-> fatal, length |-> l, inserts |-> inserts,
                 number |-> none, si |-> 0, iec |-> w, carries |-> FALSE]
    BY ONLY <1>6, <2>5
  <2>7. line' = LineOf(open, fatal, l, inserts, none, 0, w, FALSE)
    BY <2>6 DEF LineOf
  <2>8. \A i \in DOMAIN none : IsEntry(none[i])
    BY <1>2, <1>4
  <2> QED BY ONLY <1>3, <2>3, <2>4, <2>7, <2>8, LineMade
<1> QED BY <1>7, <1>8

\* No line.
LEMMA EmptyLine == IsLine(NoLine)
<1>1. \A i \in DOMAIN <<>> : IsEntry(<<>>[i])
  OBVIOUS
<1>2. 0 \in Nat /\ 0 <= (IF FALSE THEN 6 ELSE 5) /\ 0 <= 6
  OBVIOUS
<1>3. PICK none : none = <<>>
  OBVIOUS
<1>4. IsLine(LineOf(FALSE, FALSE, 0, 0, none, 0, 0, FALSE))
  BY <1>1, <1>2, <1>3, LineMade
<1> QED BY <1>3, <1>4 DEF NoLine, LineOf

\* Logger::Impl opens a line.
LEMMA OpenedLine ==
  ASSUME IsLine(line), NEW level, Open(level)
  PROVE  IsLine(line')
<1>1. CASE TimeFails
  BY <1>1 DEF Open
<1>2. CASE ~TimeFails
  <2>1. PICK header \in Headers(level) :
            line' = [NoLine EXCEPT !.open = TRUE, !.fatal = (level = FATAL),
                                   !.length = Appended(header)]
    BY <1>2 DEF Open
  <2>2. PICK l \in Nat : l = Appended(header)
    BY HeaderType, AppendedType
  <2>3. PICK fatal : fatal = (level = FATAL)
    OBVIOUS
  <2>4. PICK none : none = <<>>
    OBVIOUS
  <2>5. line' = [open |-> TRUE, fatal |-> fatal, length |-> l, inserts |-> 0,
                 number |-> none, si |-> 0, iec |-> 0, carries |-> FALSE]
    BY <2>1, <2>2, <2>3, <2>4 DEF NoLine
  <2>6. line' = LineOf(TRUE, fatal, l, 0, none, 0, 0, FALSE)
    BY <2>5 DEF LineOf
  <2>7. \A i \in DOMAIN none : IsEntry(none[i])
    BY <2>4
  <2>8. 0 \in Nat /\ 0 <= (IF FALSE THEN 6 ELSE 5) /\ 0 <= 6
    OBVIOUS
  <2> QED BY ONLY <2>2, <2>6, <2>7, <2>8, LineMade
<1> QED BY <1>1, <1>2

\* One insertion.
LEMMA InsertStep ==
  ASSUME IsLine(line), Insert
  PROVE  IsLine(line')
<1>1. PICK length \in Nat : length = line.length
  BY DEF IsLine
<1>2. CASE \E len \in Texts : InsertText(len)
  <2>1. PICK len \in Texts : line' = Inserted(append(length, len))
    BY <1>1, <1>2 DEF InsertText
  <2>2. append(length, len) \in Nat
    <3>1. len \in Nat
      BY InsertsAssumption
    <3> QED BY <3>1, AppendType
  <2> QED BY <2>1, <2>2, InsertedLine
<1>3. CASE \E value \in Numbers : InsertNumber(value)
  BY <1>3, NumberLine
<1>4. CASE \E value \in Numbers : value >= 0 /\ InsertPointer(value)
  <2>1. PICK value \in Numbers :
            value >= 0 /\ line' = Inserted(FormatPointer(length, value))
    BY <1>1, <1>4 DEF InsertPointer
  <2>2. value \in Nat
    BY <2>1, InsertsAssumption
  <2>3. PICK t \in Seq(Nat) : t = LowDigits(value, 16)
    <3>1. 16 \in Radix
      BY DEF Radix
    <3> QED BY <2>2, <3>1, DigitsType
  <2>4. Len(Reverse(t)) \in Nat
    BY DEF Reverse
  <2>5. PICK n \in Nat : n = 2 + Len(convertHex(value))
    BY <2>3, <2>4 DEF convertHex
  <2>6. FormatPointer(length, value) = Numeric(length, n)
    BY <2>5 DEF FormatPointer
  <2>7. FormatPointer(length, value) \in Nat
    BY <2>6, AppendType
  <2> QED BY <2>1, <2>7, InsertedLine
<1>5. CASE \E len \in Doubles : InsertDouble(len)
  <2>1. PICK len \in Doubles : line' = Inserted(Numeric(length, len))
    BY <1>1, <1>5 DEF InsertDouble, FormatDouble
  <2>2. Numeric(length, len) \in Nat
    <3>1. len \in Nat
      BY InsertsAssumption
    <3> QED BY <3>1, AppendType
  <2> QED BY <2>1, <2>2, InsertedLine
<1>6. CASE \/ \E q \in Quantities(1000) : InsertSI(q)
           \/ \E q \in Quantities(1024) : InsertIEC(q)
  BY <1>6, QuantityLine
<1> QED BY <1>2, <1>3, <1>4, <1>5, <1>6 DEF Insert

\* The line that is open, or none.
LineInv == IsLine(line)

\* It is an invariant of Logging.
LEMMA LineInvariant == Spec => []LineInv
<1>1. Init => LineInv
  BY EmptyLine DEF Init, LineInv
<1>2. LineInv /\ [Next]_vars => LineInv'
  <2> SUFFICES ASSUME IsLine(line), [Next]_vars PROVE IsLine(line')
    BY DEF LineInv
  <2>1. CASE HalfHour \/ NextDay \/ UNCHANGED vars
    BY <2>1 DEF HalfHour, NextDay, vars
  <2>2. CASE Load \/ setTimeZone \/ (\E east \in Fixed : fixedZone(east))
    <3>1. line' = line
      BY <2>2 DEF Load, loadZoneFile, setTimeZone, fixedZone
    <3> QED BY <3>1
  <2>3. CASE \E level \in Levels : Open(level)
    BY <2>3, OpenedLine
  <2>4. CASE Insert
    BY <2>4, InsertStep
  <2>5. CASE Close
    BY <2>5, EmptyLine DEF Close
  <2> QED BY <2>1, <2>2, <2>3, <2>4, <2>5 DEF Next
<1> QED BY <1>1, <1>2, PTL DEF Spec

\* Every number in a line reads back as the value inserted, and it and its '\0' lie in the
\* line's buffer, for every number and however full the line was (convert, formatInteger).
THEOREM NumbersAlwaysReadBack == Spec => []NumbersReadBack
<1>1. LineInv => NumbersReadBack
  BY DEF LineInv, IsLine, IsEntry, NumbersReadBack
<1> QED BY <1>1, LineInvariant, PTL

\* formatSI gives at most five characters and formatIEC at most six, for every quantity
\* (LogStream.h:150-158) but the eight below 99.95P, to which formatSI gives six at most.
THEOREM UnitsAlwaysFit == Spec => []UnitsFit
<1>1. LineInv => UnitsFit
  BY DEF LineInv, IsLine, UnitsFit
<1> QED BY <1>1, LineInvariant, PTL
=============================================================================
