----------------------------- MODULE MCLogging -----------------------------
(***************************************************************************)
(* The days, zones and values for which Logging is checked.                *)
(***************************************************************************)
EXTENDS Logging

Start(day_, y, m, d) == [day |-> day_, civil |-> [year |-> y, month |-> m, day |-> d]]

MCStarts == {Start(-25571, 1899, 12, 28), Start(-3, 1969, 12, 29), Start(7196, 1989, 9, 14),
             Start(24472, 2037, 1, 1), Start(36524, 2069, 12, 31)}
MCLastDay == 47542   \* 2100-03-02

DayOf(y, m, d) == getJulianDayNumber(y, m, d) - kJulianDayOf1970_01_01

\* The rows of the comment in findLocalTime.
Rows == <<DayOf(1989, 9, 16), DayOf(1990, 4, 14), DayOf(1990, 9, 15),
          DayOf(1991, 4, 13), DayOf(1991, 9, 14)>>
Hours == <<17, 18, 17, 18, 17>>

MCLogDay == DayOf(1990, 6, 1)
MCLoadDay == Rows[1] - 2
MCZoneDays == MCLoadDay..(Rows[5] + 2)
MCFineDays == {-1, 0, MCLogDay} \union UNION {{Rows[i], Rows[i] + 1} : i \in 1..5}

RowTimes == [i \in 1..5 |-> Rows[i] * kSecondsPerDay + Hours[i] * 3600]
PRC == Table([times |-> RowTimes, types |-> <<28800, 32400>>, indices |-> <<1, 2, 1, 2, 1>>])
\* The first change is backward.
Late == Table([times |-> SubSeq(RowTimes, 1, 3), types |-> <<10800, 7200>>, indices |-> <<2, 1, 2>>])
MCZones == {PRC, Late}
MCStub == FixedZone(0)

MCNumbers == {0, 9, 10, 1200, 2147483647, -7, -2147483647}

\* Both sides of the limits, at every unit.
MCQuantities(base) ==
  {q \in [lead : {5, 999, 1000, 1023, 1024, 9994, 9995, 9999, 10234, 10235, 99949, 99950, 99999,
                  102348, 102349, 999499, 999500, 999999, 1048063, 1048064},
          power : 0..4, less : {0, 1, 8, 9}] :
     /\ IF q.power > 0 THEN q.lead >= base ELSE q.less = 0
     /\ q.lead < base * base}
=============================================================================
