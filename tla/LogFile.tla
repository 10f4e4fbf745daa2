------------------------------ MODULE LogFile ------------------------------
(***************************************************************************)
(* dws::LogFile and FileUtil::AppendFile as the output of AsyncLogging:    *)
(* the logging thread appends whole buffers to a file, which is exchanged  *)
(* for a new one by size and by day, and flushes it after every round.     *)
(* A file holds lines on disk and lines that stdio still has; any write    *)
(* may fall short, which loses the rest of the buffer it was for.  What    *)
(* stdio has taken reaches the disk: fflush and fclose do not fail.        *)
(***************************************************************************)
EXTENDS AsyncLogging

CONSTANTS
  rollSize_, checkEveryN_, fileFlushInterval_,
  kRollPerSeconds_,
  NoticeLength,    \* of the line that tells of a cut backlog
  MaxTicks         \* bound: seconds that go by

ASSUME LogFileAssumption ==
  /\ rollSize_ \in Nat /\ checkEveryN_ \in Nat /\ fileFlushInterval_ \in Nat
  /\ kRollPerSeconds_ \in Nat \ {0} /\ NoticeLength \in Nat /\ MaxTicks \in Nat

VARIABLES
  now,       \* time(nullptr)
  output,    \* the LogFile
  written,   \* pieces of this round appended to it
  lost,      \* history: lines that no file has whole, as their write fell short
  torn       \* history: those of them of which a file has the beginning

logVars == <<now, output, written, lost, torn>>
allVars == <<vars, logVars>>

\* No LogFile yet: the constructor's values before rollFile.
Unopened == [files |-> <<>>, count_ |-> 0, startOfPeriod_ |-> 0, lastRoll_ |-> 0, lastFlush_ |-> 0]

NewAppendFile(name) == [name |-> name, disk |-> <<>>, held |-> <<>>, writtenBytes_ |-> 0]

\* fflush and fclose: what stdio has goes to disk.
Flushed(files) == [i \in DOMAIN files |->
                     [files[i] EXCEPT !.disk = @ \o files[i].held, !.held = <<>>]]
flush(o) == [o EXCEPT !.files = Flushed(@)]

Period(t) == (t \div kRollPerSeconds_) * kRollPerSeconds_

\* Mutant: a file may be exchanged twice in a second.
MayRollAgain(o, t) == t >= o.lastRoll_

\* The name of a file has the second in it.
MayRoll(o, t) == t > o.lastRoll_

rollFile(o, t) ==
  IF MayRoll(o, t)
  THEN [o EXCEPT !.lastRoll_ = t, !.lastFlush_ = t, !.startOfPeriod_ = Period(t),
                 !.files = Append(Flushed(@), NewAppendFile(t))]
  ELSE o

\* AppendFile::append: stdio has taken these lines and counted are this many bytes, none
\* of a write that fell short.
Written(o, lines, len) ==
  LET n == Len(o.files)
      open == o.files[n]
  IN  [o EXCEPT !.files[n] = [open EXCEPT !.held = @ \o lines, !.writtenBytes_ = @ + len]]

append_unlocked(o, lines, len, t) ==
  LET w == Written(o, lines, len)
      counted == [w EXCEPT !.count_ = @ + 1]
      checked == [w EXCEPT !.count_ = 0]
  IN  IF Last(w.files).writtenBytes_ > rollSize_ THEN rollFile(w, t)
      ELSE IF counted.count_ < checkEveryN_ THEN counted
      ELSE IF Period(t) # w.startOfPeriod_ THEN rollFile(checked, t)
      ELSE IF t - w.lastFlush_ > fileFlushInterval_ THEN flush([checked EXCEPT !.lastFlush_ = t])
      ELSE checked

-----------------------------------------------------------------------------
(* The steps of AsyncLogging that touch the file.                          *)

OpenOutput ==
  /\ ThreadBegins
  /\ output' = rollFile(Unopened, now)
  /\ UNCHANGED <<now, written, lost, torn>>

Cut == Len(buffersToWrite) > MaxToWrite

\* The appends of one round: the notice of a cut, then the buffers.
Pieces ==
  IF Cut THEN <<[lines |-> <<>>, length |-> NoticeLength]>> \o SubSeq(buffersToWrite, 1, 2)
  ELSE buffersToWrite

\* output.append of the next piece.
WritePiece ==
  /\ tpc = "write" /\ written < Len(Pieces)
  /\ LET piece == Pieces[written + 1]
     IN  output' = append_unlocked(output, piece.lines, piece.length, now)
  /\ written' = written + 1
  /\ UNCHANGED <<vars, now, lost, torn>>

\* The same, but the write falls short: behind the first whole lines of the piece, or in
\* the next one, whose beginning is then in the file.
WriteShort(whole, part) ==
  /\ tpc = "write" /\ written < Len(Pieces)
  /\ LET piece == Pieces[written + 1]
         n == Len(piece.lines)
     IN  /\ piece.length > 0
         /\ whole < n \/ (whole = n /\ n = 0 /\ ~part)
         /\ output' = append_unlocked(output,
                        SubSeq(piece.lines, 1, IF part THEN whole + 1 ELSE whole), 0, now)
         /\ lost' = lost \union Range(SubSeq(piece.lines, whole + 1, n))
         /\ torn' = IF part THEN torn \union {piece.lines[whole + 1]} ELSE torn
  /\ written' = written + 1
  /\ UNCHANGED <<vars, now>>

WriteOutput ==
  /\ WriteBuffers /\ written = Len(Pieces)
  /\ written' = 0
  /\ UNCHANGED <<now, output, lost, torn>>

FlushOutput ==
  /\ Recycle
  /\ output' = flush(output)
  /\ UNCHANGED <<now, written, lost, torn>>

\* The flush after the loop.
LeaveWhile ==
  /\ WhileRunning
  /\ output' = IF running_ THEN output ELSE flush(output)
  /\ UNCHANGED <<now, written, lost, torn>>

\* The clock matters only where it is read.
Tick ==
  /\ tpc = "write" /\ now < output.files[1].name + MaxTicks
  /\ now' = now + 1
  /\ UNCHANGED <<vars, output, written, lost, torn>>

-----------------------------------------------------------------------------
FileInit ==
  /\ Init
  /\ now \in 1..kRollPerSeconds_ /\ output = Unopened /\ written = 0
  /\ lost = {} /\ torn = {}

FileStep ==
  \/ OpenOutput \/ WriteOutput \/ FlushOutput \/ LeaveWhile
  \/ WritePiece \/ \E whole \in 0..MaxLines, part \in BOOLEAN : WriteShort(whole, part)

MemoryStep == (WaitForBuffers \/ TakeAtOnce \/ TakeNotified) /\ UNCHANGED logVars
TimeOut == TakeTimedOut /\ UNCHANGED logVars
Joined == Join /\ UNCHANGED logVars

FileNext ==
  \/ FileStep \/ MemoryStep \/ TimeOut \/ Joined \/ Tick
  \/ /\ \/ \E len \in Lens : AppendInCurrent(len) \/ AppendInFresh(len)
        \/ Start \/ LatchOpens \/ Stop
     /\ UNCHANGED logVars

\* The fairness of AsyncLogging.
FileSpec ==
  /\ FileInit /\ [][FileNext]_allVars
  /\ WF_allVars(FileStep \/ MemoryStep) /\ WF_allVars(TimeOut) /\ WF_allVars(Joined)

\* Lines of the files, whole or torn, in the order of their names.
OnDisk == FlattenSeq([i \in DOMAIN output.files |-> output.files[i].disk])

\* Between two rounds of the logging thread the files hold, on disk, every line that was
\* written, once and in order, whenever files were exchanged: a process that ends there
\* loses none of them.  Only of a write that fell short is the rest missing, from within
\* a line perhaps, whichever and however many these are.  No two files have one name, and
\* a file is given up only when it is over rollSize_ or its day is over
\* (LogFile.cc:47-81, FileUtil.cc:101-119).
LogsOnDisk ==
  /\ tpc \in {"while", "lock", "wait", "done"} =>
       /\ Range(OnDisk) = (Range(file) \ lost) \union torn
       /\ torn \subseteq lost /\ lost \subseteq Range(file)
       /\ \A i, j \in 1..Len(OnDisk) : i < j => OnDisk[i] < OnDisk[j]
  /\ \A i \in 1..(Len(output.files) - 1) :
       /\ output.files[i].name < output.files[i + 1].name
       /\ \/ output.files[i].writtenBytes_ > rollSize_
          \/ Period(output.files[i].name) < Period(output.files[i + 1].name)
=============================================================================
