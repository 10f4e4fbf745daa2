---------------------------- MODULE AsyncLogging ----------------------------
(***************************************************************************)
(* dws::AsyncLogging: any number of threads append log lines to a large    *)
(* buffer under mutex_; one logging thread swaps the filled buffers out    *)
(* every flushInterval_ or when told of a full one, writes them and gives  *)
(* two of them back as spares.  Lines are numbered in the order in which   *)
(* append took the mutex, so the threads need not be told apart.           *)
(***************************************************************************)
EXTENDS Integers, Sequences, SequencesExt

CONSTANTS
  Capacity,    \* kLargeBuffer
  Lens,        \* lengths of log lines
  MaxToWrite,  \* 25: a longer backlog is cut to its first two buffers
  MaxLines     \* bound: lines ever appended

ASSUME LoggingAssumption ==
  /\ Capacity \in Nat \ {0}
  /\ Lens \subseteq Nat \ {0}
  /\ MaxToWrite \in Nat /\ MaxToWrite >= 2
  /\ MaxLines \in Nat

VARIABLES
  running_,
  opc,              \* the thread that calls start() and stop()
  tpc,              \* the logging thread
  notified,         \* cond_ was notified while the logging thread waits
  currentBuffer_,
  nextBuffer_,
  buffers_,
  newBuffer1,
  newBuffer2,
  buffersToWrite,
  count,            \* history: lines appended
  rejected,         \* history: lines FixedBuffer::append ignored as too long
  dropped,          \* history: lines of the buffers erased from a long backlog
  file              \* history: lines written, in order

shared == <<currentBuffer_, nextBuffer_, buffers_>>
locals == <<newBuffer1, newBuffer2, buffersToWrite>>
history == <<count, rejected, dropped, file>>
vars == <<running_, opc, tpc, notified, shared, locals, history>>

Lines == 1..MaxLines
Buffer == [lines : Seq(Lines), length : 0..Capacity]
Empty == [lines |-> <<>>, length |-> 0]
Null == [lines |-> <<>>, length |-> -1]      \* the empty unique_ptr

avail(b) == Capacity - b.length

\* FixedBuffer::append copies nothing when the line does not fit.
Put(b, line, len) ==
  IF avail(b) > len
  THEN [lines |-> Append(b.lines, line), length |-> b.length + len]
  ELSE b

\* What a sequence of buffers holds, in order.
Content(bs) == FlattenSeq([i \in 1..Len(bs) |-> bs[i].lines])

TypeOK ==
  /\ running_ \in BOOLEAN
  /\ opc \in {"new", "latch", "up", "join", "stopped"}
  /\ tpc \in {"unborn", "begin", "while", "lock", "wait", "write", "recycle", "done"}
  /\ notified \in BOOLEAN
  /\ currentBuffer_ \in Buffer
  /\ nextBuffer_ \in Buffer \union {Null}
  /\ buffers_ \in Seq(Buffer)
  /\ newBuffer1 \in {Empty, Null} /\ newBuffer2 \in {Empty, Null}
  /\ buffersToWrite \in Seq(Buffer)
  /\ count \in 0..MaxLines
  /\ rejected \subseteq Lines /\ dropped \subseteq Lines
  /\ file \in Seq(Lines)

Init ==
  /\ running_ = FALSE
  /\ opc = "new" /\ tpc = "unborn" /\ notified = FALSE
  /\ currentBuffer_ = Empty /\ nextBuffer_ = Empty /\ buffers_ = <<>>
  /\ newBuffer1 = Null /\ newBuffer2 = Null /\ buffersToWrite = <<>>
  /\ count = 0 /\ rejected = {} /\ dropped = {} /\ file = <<>>

-----------------------------------------------------------------------------
(* append(logline, len), by any thread and at any time.                    *)

AppendInCurrent(len) ==
  /\ count < MaxLines
  /\ avail(currentBuffer_) > len
  /\ count' = count + 1
  /\ currentBuffer_' = Put(currentBuffer_, count + 1, len)
  /\ UNCHANGED <<running_, opc, tpc, notified, nextBuffer_, buffers_, locals, rejected,
                 dropped, file>>

\* Mutant: nobody is told.
Unannounced == notified

\* cond_.notify_one(): it reaches the logging thread only while that waits.
Announced == notified \/ tpc = "wait"

AppendInFresh(len) ==
  /\ count < MaxLines
  /\ ~(avail(currentBuffer_) > len)
  /\ count' = count + 1
  /\ LET fresh == IF nextBuffer_ # Null THEN nextBuffer_ ELSE Empty
     IN  /\ currentBuffer_' = Put(fresh, count + 1, len)
         /\ rejected' = IF avail(fresh) > len THEN rejected ELSE rejected \union {count + 1}
  /\ nextBuffer_' = Null
  /\ buffers_' = Append(buffers_, currentBuffer_)
  /\ notified' = Announced
  /\ UNCHANGED <<running_, opc, tpc, locals, dropped, file>>

-----------------------------------------------------------------------------
(* start() and stop().                                                     *)

Start ==
  /\ opc = "new"
  /\ opc' = "latch"
  /\ running_' = TRUE
  /\ tpc' = "begin"
  /\ UNCHANGED <<notified, shared, locals, history>>

LatchOpens ==
  /\ opc = "latch" /\ tpc # "begin"
  /\ opc' = "up"
  /\ UNCHANGED <<running_, tpc, notified, shared, locals, history>>

\* running_ is cleared and cond_ notified without mutex_.
Stop ==
  /\ opc = "up"
  /\ opc' = "join"
  /\ running_' = FALSE
  /\ notified' = Announced
  /\ UNCHANGED <<tpc, shared, locals, history>>

Join ==
  /\ opc = "join" /\ tpc = "done"
  /\ opc' = "stopped"
  /\ UNCHANGED <<running_, tpc, notified, shared, locals, history>>

-----------------------------------------------------------------------------
(* threadFunc.                                                             *)

ThreadBegins ==
  /\ tpc = "begin"
  /\ tpc' = "while"
  /\ newBuffer1' = Empty /\ newBuffer2' = Empty
  /\ UNCHANGED <<running_, opc, notified, shared, buffersToWrite, history>>

WhileRunning ==
  /\ tpc = "while"
  /\ tpc' = IF running_ THEN "lock" ELSE "done"
  /\ UNCHANGED <<running_, opc, notified, shared, locals, history>>

\* Mutant: buffers_ is copied and not emptied.
NotSwapped == buffers_

\* What the swap leaves in buffers_.
Swapped == buffersToWrite

\* The rest of the critical section: every buffer is taken, the spares put in.
TakeBuffers ==
  /\ buffersToWrite' = Append(buffers_, currentBuffer_)
  /\ buffers_' = Swapped
  /\ currentBuffer_' = newBuffer1
  /\ newBuffer1' = Null
  /\ nextBuffer_' = IF nextBuffer_ = Null THEN newBuffer2 ELSE nextBuffer_
  /\ newBuffer2' = IF nextBuffer_ = Null THEN Null ELSE newBuffer2
  /\ tpc' = "write"
  /\ UNCHANGED <<running_, opc, history>>

WaitForBuffers ==
  /\ tpc = "lock" /\ buffers_ = <<>>
  /\ tpc' = "wait"
  /\ notified' = FALSE
  /\ UNCHANGED <<running_, opc, shared, locals, history>>

TakeAtOnce ==
  /\ tpc = "lock" /\ buffers_ # <<>>
  /\ TakeBuffers
  /\ UNCHANGED notified

TakeNotified ==
  /\ tpc = "wait" /\ notified
  /\ notified' = FALSE
  /\ TakeBuffers

\* Mutant: the wait goes on until there is a full buffer.
TakeWhenFull ==
  /\ tpc = "wait" /\ ~notified /\ buffers_ # <<>>
  /\ UNCHANGED notified
  /\ TakeBuffers

\* flushInterval_ went by, or the wait ended spuriously.
TakeTimedOut ==
  /\ tpc = "wait" /\ ~notified
  /\ UNCHANGED notified
  /\ TakeBuffers

\* Mutant: one written buffer is kept.
KeepOne(n) == IF n > 1 THEN 1 ELSE n

\* How many of n written buffers are kept for the spares.
Keep(n) == IF n > 2 THEN 2 ELSE n

\* Outside the lock: cut a long backlog, write the rest, keep at most two buffers.
WriteBuffers ==
  /\ tpc = "write"
  /\ LET kept == IF Len(buffersToWrite) > MaxToWrite THEN SubSeq(buffersToWrite, 1, 2)
                 ELSE buffersToWrite
     IN  /\ file' = file \o Content(kept)
         /\ dropped' = dropped \union (Range(Content(buffersToWrite)) \ Range(Content(kept)))
         /\ buffersToWrite' = SubSeq(kept, 1, Keep(Len(kept)))
  /\ tpc' = "recycle"
  /\ UNCHANGED <<running_, opc, notified, shared, newBuffer1, newBuffer2, count, rejected>>

\* Each missing spare takes the last of the written buffers, emptied; the others
\* are freed and the file is flushed.
Recycle ==
  /\ tpc = "recycle"
  /\ newBuffer1' = Empty /\ newBuffer2' = Empty
  /\ buffersToWrite' = <<>>
  /\ tpc' = "while"
  /\ UNCHANGED <<running_, opc, notified, shared, history>>

-----------------------------------------------------------------------------

LoggingStep ==
  \/ ThreadBegins \/ WhileRunning \/ WaitForBuffers \/ TakeAtOnce \/ TakeNotified
  \/ WriteBuffers \/ Recycle

Next ==
  \/ \E len \in Lens : AppendInCurrent(len) \/ AppendInFresh(len)
  \/ Start \/ LatchOpens \/ Stop \/ Join
  \/ LoggingStep \/ TakeTimedOut

Spec == Init /\ [][Next]_vars

\* The logging thread runs, and cond_.wait_for returns at the latest when
\* flushInterval_ is over.
FairSpec == Spec /\ WF_vars(LoggingStep) /\ WF_vars(TakeTimedOut) /\ WF_vars(Join)

-----------------------------------------------------------------------------
(* Properties.                                                             *)

\* Null spares that Recycle has to refill.
Missing == (IF newBuffer1 = Null THEN 1 ELSE 0) + (IF newBuffer2 = Null THEN 1 ELSE 0)

\* The asserts of threadFunc (AsyncLogging.cc:55-57,72,92,99): two empty spares at
\* the top of the loop, something to write after the swap, and as many written
\* buffers left, also after a backlog was cut, as there are spares to refill.
SparesSuffice ==
  /\ tpc \in {"lock", "wait"} =>
       newBuffer1 = Empty /\ newBuffer2 = Empty /\ buffersToWrite = <<>>
  /\ tpc = "write" => buffersToWrite # <<>>
  /\ tpc = "recycle" => Missing <= Len(buffersToWrite)

\* Lines in memory that are still to be written, oldest first.
InFlight ==
  (IF tpc = "write" THEN Content(buffersToWrite) ELSE <<>>)
    \o Content(buffers_) \o currentBuffer_.lines

\* Every line appended is written or on its way, once and in the order of append,
\* unless it is longer than a buffer or was in a backlog that was cut.
LinesAccountedFor ==
  LET all == file \o InFlight
  IN  /\ \A i \in 1..(Len(all) - 1) : all[i] < all[i + 1]
      /\ Range(all) = (1..count) \ (rejected \union dropped)

\* The logging thread does not sleep on a full buffer it was not told of.
FullBufferNotified == tpc = "wait" /\ buffers_ # <<>> => notified

\* While the logger runs, whatever was appended gets to the file or is dropped with
\* a cut backlog, without any further append.
LinesGetWritten ==
  \A l \in Lines :
    (l \in Range(InFlight)) ~> (l \in Range(file) \union dropped \/ ~running_)

\* stop() returns although it notifies without holding mutex_: a missed notify
\* costs one flushInterval_.
StopReturns == (opc = "join") ~> (opc = "stopped")
=============================================================================
