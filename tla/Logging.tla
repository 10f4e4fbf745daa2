------------------------------ MODULE Logging ------------------------------
(***************************************************************************)
(* dws::Logger on one thread: a line is opened (Logger::Impl), takes what  *)
(* is inserted (LogStream), and is finished and put out; its time comes    *)
(* from TimeZone and Date through a cache that is renewed once a second.   *)
(*                                                                         *)
(* day and second are the clock, days and seconds since the epoch; civil   *)
(* is the same day by the rules of the calendar, counted independently.    *)
(***************************************************************************)
EXTENDS TimeZone, LogStream

CONSTANTS
  Starts, LastDay,     \* where the walk through the days begins, and its last day
  FineDays,            \* days whose half hours are walked too
  LoadDay,             \* when a zone file is loaded
  ZoneDays,            \* days on which a time zone may be in force
  LogDay, LogSeconds,  \* where lines are logged
  Zones, Stub,         \* the tables that zone files hold, and a first block of no use
  Fixed,               \* offsets of zones without a file
  Numbers, Texts, Doubles, Quantities(_),   \* what is inserted
  MaxInserts, MaxLines

ASSUME LoggingAssumption ==
  /\ LastDay \in Int /\ LogDay \in ZoneDays /\ LoadDay \in ZoneDays
  /\ LogSeconds \subseteq 0..(kSecondsPerDay - 1)
  /\ MaxInserts \in Nat /\ MaxLines \in Nat

\* What can be inserted.  A number takes less than the room asked for: staticCheck
\* asserts that kMaxNumericSize is large enough.
ASSUME InsertsAssumption ==
  /\ Numbers \subseteq Int /\ Texts \subseteq Nat /\ Doubles \subseteq Nat
  /\ \A value \in Numbers : TextLength(convert(value)) < kMaxNumericSize

\* A quantity is not below zero, and what it is less by does not reach the digits of lead.
ASSUME QuantitiesAssumption ==
  \A base \in {1000, 1024} : \A q \in Quantities(base) :
    /\ q \in [lead : Nat, power : Nat, less : 0..16]
    /\ q.power = 0 => q.less = 0

VARIABLES
  day, second, civil,   \* the clock
  g_logTimeZone,
  tz,                   \* a TimeZone just made, and what it was made from
  t_lastSecond, t_time, \* the thread's last second and its text
  line,                 \* the line that is open
  lines,                \* lines logged so far
  aborted               \* none, or what ended the process

zoneVars == <<g_logTimeZone, tz>>
cacheVars == <<t_lastSecond, t_time>>
vars == <<day, second, civil, zoneVars, cacheVars, line, lines, aborted>>

INFO == 2
ERROR == 4
FATAL == 5
Levels == 0..FATAL   \* from TRACE on

NoLine == [open |-> FALSE, fatal |-> FALSE, length |-> 0, inserts |-> 0,
           number |-> <<>>, si |-> 0, iec |-> 0, carries |-> FALSE]
NoTz == [whole |-> FALSE, made |-> FALSE]

now == day * kSecondsPerDay + second

Init ==
  /\ \E s \in Starts : day = s.day /\ civil = s.civil
  /\ second = 0
  /\ g_logTimeZone = Invalid /\ tz = NoTz
  /\ t_lastSecond = 0 /\ t_time = <<>>
  /\ line = NoLine /\ lines = 0 /\ aborted = "none"

-----------------------------------------------------------------------------
(* The clock and the calendar.                                             *)

LeapYear(y) == y % 4 = 0 /\ (y % 100 = 0 => y % 400 = 0)

DaysIn(y, m) ==
  CASE m = 2 -> IF LeapYear(y) THEN 29 ELSE 28
    [] m \in {4, 6, 9, 11} -> 30
    [] OTHER -> 31

NextCivil(c) ==
  CASE c.day < DaysIn(c.year, c.month) -> [c EXCEPT !.day = @ + 1]
    [] c.day = DaysIn(c.year, c.month) /\ c.month < 12 ->
         [c EXCEPT !.day = 1, !.month = @ + 1]
    [] OTHER -> [year |-> c.year + 1, month |-> 1, day |-> 1]

\* The walk begins on days that the calendar and the day number name alike.
ASSUME StartsAssumption ==
  \A s \in Starts :
    /\ s.day \in Int /\ s.civil \in [year : Int, month : 1..12, day : Nat \ {0}]
    /\ s.civil.year > -4800 /\ s.civil.day <= DaysIn(s.civil.year, s.civil.month)
    /\ getJulianDayNumber(s.civil.year, s.civil.month, s.civil.day)
         = s.day + kJulianDayOf1970_01_01

Idle == ~line.open /\ ~tz.made /\ aborted = "none"

\* To the last second of a half hour, and to the next half hour.
HalfHour ==
  /\ Idle /\ day \in FineDays
  /\ LET next == second + (IF second % 1800 = 0 THEN 1799 ELSE 1)
     IN  next < kSecondsPerDay /\ second' = next
  /\ UNCHANGED <<day, civil, zoneVars, cacheVars, line, lines, aborted>>

NextDay ==
  /\ Idle /\ lines = 0 /\ day < LastDay
  /\ second = IF day \in FineDays THEN kSecondsPerDay - 1 ELSE 0
  /\ g_logTimeZone = Invalid \/ day + 1 \in ZoneDays
  /\ day' = day + 1 /\ second' = 0 /\ civil' = NextCivil(civil)
  /\ UNCHANGED <<zoneVars, cacheVars, line, lines, aborted>>

-----------------------------------------------------------------------------
(* Zone files as RFC 8536 lays them out, and the zone of the log.          *)

Field(value, width) ==
  [i \in 1..width |-> IF i = 1 THEN [value |-> value, width |-> width]
                      ELSE [value |-> 0, width |-> 0]]

Fields(values, width) == FoldLeft(LAMBDA acc, v : acc \o Field(v, width), <<>>, values)

Indices(data) == [i \in DOMAIN data.transitions |-> data.transitions[i].index]

\* One header and data block; each type has an abbreviation of four bytes and is
\* marked as standard time, in UTC.
Block(data, version, timeSize) ==
  LET types == Len(data.local_times)
  IN  Field(TZif, 4) \o Field(version, 1) \o Field(0, 15)
      \o Fields(<<types, types, 0, Len(data.transitions), types, 4 * types>>, 4)
      \o Fields(UtcTimes(data), timeSize) \o Fields(Indices(data), 1)
      \o Fields(data.local_times, 6)
      \o Fields([i \in 1..types |-> 0], 4) \o Fields([i \in 1..(2 * types) |-> 0], 1)

\* A file of version 1 has one block; the others have a second one with wide times,
\* and the first may be a stub.
ZoneFile(data, first, version) ==
  Block(first, version, 4) \o (IF version = 0 THEN <<>> ELSE Block(data, version, 8))

\* TimeZone::loadZoneFile of a file of which only the first bytes are there.
loadZoneFile(data, first, version, junk) ==
  LET file == ZoneFile(data, first, version)
  IN  /\ \E bytes \in 0..Len(file) :
           tz' = [made |-> TRUE, whole |-> bytes = Len(file) /\ junk = {},
                  version |-> version, first |-> first, second |-> data,
                  data |-> readTimeZoneFile(SubSeq(file, 1, bytes), junk)]
      /\ UNCHANGED <<day, second, civil, g_logTimeZone, cacheVars, line, lines, aborted>>

\* TimeZone::TimeZone(eastOfUtc, name).
fixedZone(eastOfUtc) ==
  /\ Idle /\ day = LogDay
  /\ tz' = [made |-> TRUE, whole |-> FALSE, version |-> 0, first |-> Invalid,
            second |-> FixedZone(eastOfUtc), data |-> FixedZone(eastOfUtc)]
  /\ UNCHANGED <<day, second, civil, g_logTimeZone, cacheVars, line, lines, aborted>>

setTimeZone ==
  /\ tz.made
  /\ g_logTimeZone' = tz.data /\ tz' = NoTz
  /\ UNCHANGED <<day, second, civil, cacheVars, line, lines, aborted>>

-----------------------------------------------------------------------------
(* Lines.                                                                  *)

\* Characters of "%02d".
Width(n) == IF n \in -9..99 THEN 2 ELSE 3

\* Characters of "%4d%02d%02d %02d:%02d:%02d".
TimeWidth(dt) ==
  4 + Width(dt.month) + Width(dt.day) + 1 + Width(dt.hour) + 1 + Width(dt.minute)
  + 1 + Width(dt.second)

\* formatTime: what t_time becomes.  (t_lastSecond begins as the epoch.)
formatTime ==
  IF now = t_lastSecond THEN t_time
  ELSE <<IF g_logTimeZone # Invalid THEN toLocalTime(g_logTimeZone, now) ELSE toUTCTime(now)>>

TimeFails == now # t_lastSecond /\ TimeWidth(formatTime[1]) # 17

\* Lengths of what is inserted before the message.
TidLength == 6
ErrnoText == 20
FuncLength == 8

Header(withErrno, withFunc) ==
  <<17, IF g_logTimeZone # Invalid THEN 8 ELSE 9, TidLength, 6>>
  \o (IF withErrno THEN <<ErrnoText, 8, 2, 2>> ELSE <<>>)
  \o (IF withFunc THEN <<FuncLength, 1>> ELSE <<>>)

\* What the constructors of Logger put before the message: LOG(level), LOG_TRACE and
\* LOG_DEBUG name the function, LOG_SYSERR and LOG_SYSFATAL tell of errno, if it is set.
Headers(level) ==
  {Header(FALSE, TRUE)}
  \union (IF level >= INFO THEN {Header(FALSE, FALSE)} ELSE {})
  \union (IF level >= ERROR THEN {Header(TRUE, FALSE)} ELSE {})

\* The length of a line after insertions of these lengths.
Appended(lengths) ==
  LET total[i \in 0..Len(lengths)] == IF i = 0 THEN 0 ELSE append(total[i - 1], lengths[i])
  IN  total[Len(lengths)]

Open(level) ==
  /\ Idle /\ day = LogDay /\ second \in LogSeconds /\ lines < MaxLines
  /\ t_lastSecond' = now /\ t_time' = formatTime
  /\ IF TimeFails
     THEN aborted' = "assert" /\ UNCHANGED <<line, lines>>
     ELSE /\ \E header \in Headers(level) :
               line' = [NoLine EXCEPT !.open = TRUE, !.fatal = (level = FATAL),
                          !.length = Appended(header)]
          /\ lines' = lines + 1
          /\ UNCHANGED aborted
  /\ UNCHANGED <<day, second, civil, zoneVars>>

\* number, si, iec and carries tell of the last insertion.
Inserted(length) ==
  [line EXCEPT !.length = length, !.inserts = @ + 1, !.number = <<>>, !.si = 0, !.iec = 0,
               !.carries = FALSE]

lineOnly == UNCHANGED <<day, second, civil, zoneVars, cacheVars, lines, aborted>>

\* operator<< of strings, characters and bool.
InsertText(len) ==
  /\ line' = Inserted(append(line.length, len))
  /\ lineOnly

\* operator<< of the integers.  The digits and a '\0' are written at the end.
InsertNumber(value) ==
  /\ LET end == formatInteger(line.length, value)
     IN  line' = [Inserted(end) EXCEPT
                    !.number = IF end = line.length THEN <<>>
                               ELSE <<[value |-> value, text |-> convert(value),
                                       bytes |-> end + 1]>>]
  /\ lineOnly

InsertPointer(value) ==
  /\ line' = Inserted(FormatPointer(line.length, value))
  /\ lineOnly

InsertDouble(len) ==
  /\ line' = Inserted(FormatDouble(line.length, len))
  /\ lineOnly

\* The eight numbers below 99.95P that are 99.95P as doubles.
Carries(q) == q.power = 4 /\ q.lead = 99950 /\ q.less \in 1..8

\* The text of formatSI or of formatIEC.
InsertSI(q) ==
  /\ line' = [Inserted(append(line.length, formatSI(q))) EXCEPT
                !.si = formatSI(q), !.carries = Carries(q)]
  /\ lineOnly

InsertIEC(q) ==
  /\ line' = [Inserted(append(line.length, formatIEC(q))) EXCEPT !.iec = formatIEC(q)]
  /\ lineOnly

\* Logger::~Logger: finish, g_output, and abort() after a FATAL line.  What finish adds
\* goes out with the line and is not kept.
Close ==
  /\ line.open
  /\ line' = NoLine
  /\ aborted' = IF line.fatal THEN "fatal" ELSE aborted
  /\ UNCHANGED <<day, second, civil, zoneVars, cacheVars, lines>>

-----------------------------------------------------------------------------
Versions == {0, Version2, Version2 + 1}
Junk == {{}, {"head"}, {"version"}, {"head2"}}

Load ==
  /\ Idle /\ day = LoadDay /\ second = 0 /\ g_logTimeZone = Invalid
  /\ \E data \in Zones, version \in Versions, junk \in Junk :
       \E first \in {data, Stub} : loadZoneFile(data, first, version, junk)

Insert ==
  /\ line.open /\ line.inserts < MaxInserts
  /\ \/ \E len \in Texts : InsertText(len)
     \/ \E value \in Numbers : InsertNumber(value)
     \/ \E value \in Numbers : value >= 0 /\ InsertPointer(value)
     \/ \E len \in Doubles : InsertDouble(len)
     \/ \E q \in Quantities(1000) : InsertSI(q)
     \/ \E q \in Quantities(1024) : InsertIEC(q)

Next ==
  \/ HalfHour \/ NextDay
  \/ Load \/ setTimeZone \/ \E east \in Fixed : fixedZone(east)
  \/ \E level \in Levels : Open(level)
  \/ Insert
  \/ Close

Spec == Init /\ [][Next]_vars

-----------------------------------------------------------------------------
(* Properties.                                                             *)

\* The days whose seconds fit the numbers of the model.
Near == day \in -24854..24853

\* Date and TimeZone agree with the calendar on every day, leap years, centuries and the
\* days before 1970 included: the Julian day number and back, the day of the week, the
\* seconds of a date, and the date of a second (Date.cc, BreakTime and fromUTCTime).
CalendarAgrees ==
  LET julian == day + kJulianDayOf1970_01_01
      midnight == DateTime(civil, [hour |-> 0, minute |-> 0, second |-> 0])
      broken == BreakTime(now)
  IN  /\ getJulianDayNumber(civil.year, civil.month, civil.day) = julian
      /\ getYearMonthDay(julian) = civil
      /\ weekDay(julian) = (day + 4) % 7          \* 1970-01-01 was a Thursday
      /\ Near => /\ fromUTCTime(midnight) = day * kSecondsPerDay
                 /\ [year |-> broken.year, month |-> broken.month, day |-> broken.day] = civil

\* The date and time that a clock shows that is east of UTC.
ClockAt(east) ==
  LET s == second + east
      date == IF s < kSecondsPerDay THEN civil ELSE NextCivil(civil)
      r == s % kSecondsPerDay
  IN  DateTime(date, [hour |-> r \div 3600, minute |-> (r \div 60) % 60, second |-> r % 60])

\* The instants at which the clocks of a zone show local.
Instants(data, local) ==
  {u \in {local - data.local_times[i] : i \in DOMAIN data.local_times} :
     u + findLocalTime(data, u) = local}

\* Between the first and the last row of the table.  The search looks for no repeated hour
\* at these two (TimeZone.cc:309 and 341), and guesses before the first.
Inside(data, local) ==
  LET n == Len(data.transitions)
  IN  n > 1 /\ local > data.transitions[1].local_time + kSecondsPerDay
            /\ local < data.transitions[n].local_time

\* fromLocalTime finds when the clocks of a zone show a date and time.  Such a clock is
\* correct and ahead of UTC by the offset that findLocalTime gives for the instant; it is
\* not toLocalTime, which breaks the time down wrongly (TimeFits).  What the clocks show
\* gives an instant at which they show it.  Between the first and the last row, of an hour
\* that comes twice it is the later or the earlier one as asked, and an hour that the
\* clocks skip is read by the offset after or before the change (TimeZone.cc:295-359).
LocalTimeInverts ==
  g_logTimeZone # Invalid =>
    \A i \in DOMAIN g_logTimeZone.local_times, post \in BOOLEAN :
      LET east == g_logTimeZone.local_times[i]
          local == now + east
          result == fromLocalTime(g_logTimeZone, ClockAt(east), post)
          instants == Instants(g_logTimeZone, local)
          candidates == {local - g_logTimeZone.local_times[j] : j \in DOMAIN g_logTimeZone.local_times}
      IN  /\ instants # {} => result \in instants
          /\ Inside(g_logTimeZone, local) /\ instants # {} =>
               \A u \in instants : IF post THEN u <= result ELSE result <= u
          /\ Inside(g_logTimeZone, local) /\ instants = {} =>
               \A u \in candidates : IF post THEN result <= u ELSE u <= result

\* A zone file gives its whole table or no zone: a file cut short at any byte, or read
\* with rubbish behind a string, never leaves a table with some of the rows, and a whole
\* file of version 1 or 2 gives the table it holds (readTimeZoneFile, readDataBlock).
ZoneLoadedWhole ==
  tz.made =>
    /\ tz.data \in {Invalid, tz.first, tz.second}
    /\ tz.whole /\ tz.version = 0 => tz.data = tz.first
    /\ tz.whole /\ tz.version = Version2 => tz.data = tz.second

\* The number that digits are read as.
ReadAs(digits) ==
  LET value[i \in 0..Len(digits)] == IF i = 0 THEN 0 ELSE 10 * value[i - 1] + digits[i]
  IN  value[Len(digits)]

\* A number in a line reads back as the value inserted, and it and the '\0' that
\* convert() adds lie inside the line's buffer, however full the line was
\* (formatInteger, LogStream.cc:205).
NumbersReadBack ==
  \A i \in DOMAIN line.number :
    LET n == line.number[i]
        magnitude == ReadAs(n.text.digits)
    IN  /\ n.value = IF n.text.negative THEN -magnitude ELSE magnitude
        /\ n.bytes <= kSmallBuffer

\* formatSI gives at most five characters and formatIEC at most six, on both sides of
\* every change of unit and of decimals (LogStream.h:150-158), with one exception: just
\* below 99.95P, where formatSI tests the integer and prints the double, it gives six.
UnitsFit == line.iec <= 6 /\ line.si <= (IF line.carries THEN 6 ELSE 5)

\* The assertions of formatTime: every time takes 17 characters (Logging.cc:98).
TimeFits == aborted # "assert"
=============================================================================
