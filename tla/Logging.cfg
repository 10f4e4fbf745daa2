SPECIFICATION Spec
CONSTANTS
  kSmallBuffer = 4000
  kMaxNumericSize = 48
  Starts <- MCStarts
  LastDay <- MCLastDay
  FineDays <- MCFineDays
  LoadDay <- MCLoadDay
  ZoneDays <- MCZoneDays
  LogDay <- MCLogDay
  LogSeconds = {0, 9000}
  Zones <- MCZones
  Stub <- MCStub
  Fixed = {28800}
  Numbers <- MCNumbers
  Texts = {5, 1979}
  Doubles = {1, 19}
  Quantities <- MCQuantities
  MaxInserts = 3
  MaxLines = 2
INVARIANTS CalendarAgrees LocalTimeInverts ZoneLoadedWhole NumbersReadBack UnitsFit
CHECK_DEADLOCK FALSE
