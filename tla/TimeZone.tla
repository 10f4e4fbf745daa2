------------------------------ MODULE TimeZone ------------------------------
(***************************************************************************)
(* dws::TimeZone: a table of transitions, read from a TZif file (RFC 8536),*)
(* and the conversions between UTC and local time that search it.          *)
(*                                                                         *)
(* A DateTime is a record of its six fields.  Of the contents of a file,   *)
(* what the reader looks at is kept: a file is a sequence of cells, one    *)
(* per byte; the first byte of a field carries the field and its width,    *)
(* the others are "more".  Abbreviations and the TZ string have no effect. *)
(***************************************************************************)
EXTENDS Date, Sequences

kSecondsPerDay == 24 * 60 * 60

\* The division of C++, which rounds toward zero.
Quot(a, b) == IF a >= 0 THEN a \div b ELSE -((-a) \div b)
Rem(a, b) == a - b * Quot(a, b)

-----------------------------------------------------------------------------
(* Seconds since the epoch and broken-down time.                           *)

\* The minutes of the day go through an int8_t.
fillHMS(seconds) ==
  LET minutes == AsInt8(Quot(seconds, 60))
  IN  [hour |-> AsInt8(Quot(minutes, 60)), minute |-> AsInt8(Rem(minutes, 60)),
       second |-> AsInt8(Rem(seconds, 60))]

\* Mutant: times before the epoch are not rounded down.
RoundedToZero(t) == [days |-> Quot(t, kSecondsPerDay), seconds |-> Rem(t, kSecondsPerDay)]

SplitDays(t) ==
  LET seconds == Rem(t, kSecondsPerDay)
      days == Quot(t, kSecondsPerDay)
  IN  IF seconds < 0 THEN [days |-> days - 1, seconds |-> seconds + kSecondsPerDay]
      ELSE [days |-> days, seconds |-> seconds]

DateTime(ymd, hms) ==
  [year |-> ymd.year, month |-> ymd.month, day |-> ymd.day,
   hour |-> hms.hour, minute |-> hms.minute, second |-> hms.second]

BreakTime(t) ==
  DateTime(getYearMonthDay(SplitDays(t).days + kJulianDayOf1970_01_01),
           fillHMS(SplitDays(t).seconds))

toUTCTime(t) == BreakTime(t)

fromUTCTime(dt) ==
  LET days == getJulianDayNumber(dt.year, dt.month, dt.day) - kJulianDayOf1970_01_01
  IN  days * kSecondsPerDay + dt.hour * 3600 + dt.minute * 60 + dt.second

-----------------------------------------------------------------------------
(* The table: local_times is a sequence of offsets, a transition has the   *)
(* place of one of them.  C++ indices are one less.                        *)

addTransition(local_times, utc_time, index) ==
  [utc_time |-> utc_time, local_time |-> utc_time + local_times[index], index |-> index]

Table(block) ==
  [local_times |-> block.types,
   transitions |-> [i \in DOMAIN block.times |->
                      addTransition(block.types, block.times[i], block.indices[i])]]

\* TimeZone(int eastOfUtc, const char *name).
FixedZone(eastOfUtc) == [local_times |-> <<eastOfUtc>>, transitions |-> <<>>]

UTC == FixedZone(0)

\* std::upper_bound: the first place whose key is larger, or the end.
UpperBound(keys, key) ==
  CHOOSE i \in 1..(Len(keys) + 1) :
    /\ i <= Len(keys) => keys[i] > key
    /\ \A j \in 1..(i - 1) : keys[j] <= key

UtcTimes(data) == [i \in DOMAIN data.transitions |-> data.transitions[i].utc_time]
LocalTimes(data) == [i \in DOMAIN data.transitions |-> data.transitions[i].local_time]

\* The offset in force from transition i on.
OffsetOf(data, i) == data.local_times[data.transitions[i].index]

\* findLocalTime(utcTime).
findLocalTime(data, utcTime) ==
  IF data.transitions = <<>> \/ utcTime < data.transitions[1].utc_time
  THEN data.local_times[1]
  ELSE OffsetOf(data, UpperBound(UtcTimes(data), utcTime) - 1)

\* The last local second before transition i, by the offset of transition "prior".
PriorSecond(data, i, prior) == data.transitions[i].utc_time - 1 + OffsetOf(data, prior)

\* Mutant: the hour that occurs twice is not looked for.
NoRepeat(data, localtime, i, post) == OffsetOf(data, i)

\* Row i is the last one that begins by localtime: has localtime occurred before it
\* too?  For the first row prior_trans and prior_second stay those of row 2, whose
\* test has failed, so that both answers are row 1.
AtRow(data, localtime, i, post) ==
  IF i > 1 /\ localtime <= PriorSecond(data, i, i - 1) /\ ~post
  THEN OffsetOf(data, i - 1)
  ELSE OffsetOf(data, i)

\* findLocalTime(local, postTransition).
findByLocalTime(data, localtime, post) ==
  LET i == UpperBound(LocalTimes(data), localtime)
  IN  IF data.transitions = <<>> \/ localtime < data.transitions[1].local_time
      THEN data.local_times[1]
      ELSE IF i > Len(data.transitions) THEN OffsetOf(data, i - 1)
      ELSE IF PriorSecond(data, i, i - 1) < localtime
      THEN OffsetOf(data, IF post THEN i ELSE i - 1)
      ELSE AtRow(data, localtime, i - 1, post)

toLocalTime(data, seconds) == BreakTime(seconds + findLocalTime(data, seconds))

fromLocalTime(data, dt, post) ==
  LET localSeconds == fromUTCTime(dt)
  IN  localSeconds - findByLocalTime(data, localSeconds, post)

-----------------------------------------------------------------------------
(* Reading a file.                                                         *)

Invalid == [local_times |-> <<>>, transitions |-> <<>>]   \* no Data: data_ is null

\* A read of n bytes at position p (from 0) meets a field, or nothing that means
\* anything: the file is too short, which is an exception, or the place is wrong.
Read(file, p, n) ==
  IF p + n <= Len(file) /\ file[p + 1].width = n THEN <<file[p + 1].value>> ELSE <<>>

\* n fields of the given width from position p on.
ReadArray(file, p, width, n) == [i \in 1..n |-> Read(file, p + (i - 1) * width, width)]

Good(reads) == \A i \in DOMAIN reads : reads[i] # <<>>
Values(reads) == [i \in DOMAIN reads |-> reads[i][1]]

\* The six counts: isutccnt, isstdcnt, leapcnt, timecnt, typecnt, charcnt.
Counts(file, p) == ReadArray(file, p, 4, 6)

\* readDataBlock with its counts at position p.  Every exception and every refusal
\* ends in the same way; local_times.at() throws at an index it does not know, and the
\* string of no abbreviation is made of a null pointer and throws too.
readDataBlock(file, p, v1) ==
  LET n == Values(Counts(file, p))
      timeSize == IF v1 THEN 4 ELSE 8
      atIndices == p + 24 + timeSize * n[4]
      atTypes == atIndices + n[4]
      times == ReadArray(file, p + 24, timeSize, n[4])
      indices == ReadArray(file, atIndices, 1, n[4])
      types == ReadArray(file, atTypes, 6, n[5])
  IN  IF /\ Good(Counts(file, p))
         /\ n[3] = 0 /\ n[1] \in {0, n[5]} /\ n[2] \in {0, n[5]}
         /\ Good(times) /\ Good(indices) /\ Good(types)
         /\ \A i \in DOMAIN indices : Values(indices)[i] \in DOMAIN types
         /\ n[6] > 0 /\ atTypes + 6 * n[5] + n[6] <= Len(file)
      THEN Table([times |-> Values(times), indices |-> Values(indices), types |-> Values(types)])
      ELSE Invalid

\* Mutant: the first data block is skipped as if its times had eight bytes.
SkipWide(n) == 8 * n[4] + n[4] + 6 * n[5] + n[6] + 8 * n[3] + n[2] + n[1]

\* The bytes of the first data block.
SkipV1(n) == 4 * n[4] + n[4] + 6 * n[5] + n[6] + 8 * n[3] + n[2] + n[1]

TZif == 1415211366   \* the four letters, and the version, as numbers
Version2 == 50

\* readBytes(n) makes a string of a buffer that has no room for a '\0': what follows
\* it on the heap, junk, may become part of the string, which then equals nothing.
readString(file, p, n, junk) == IF junk THEN <<>> ELSE Read(file, p, n)

\* readTimeZoneFile; junk says which of its three strings are read with too much.
readTimeZoneFile(file, junk) ==
  LET n == Values(Counts(file, 20))
      second == 44 + SkipV1(n)
  IN  IF \/ readString(file, 0, 4, "head" \in junk) # <<TZif>>
         \/ ~Good(Counts(file, 20))
      THEN Invalid
      ELSE IF readString(file, 4, 1, "version" \in junk) # <<Version2>>
      THEN readDataBlock(file, 20, TRUE)
      ELSE IF readString(file, second, 4, "head2" \in junk) # <<TZif>>
      THEN Invalid
      ELSE readDataBlock(file, second + 20, FALSE)
=============================================================================
