# TLA+ verification of dws

dws is a C++ networking and logging library in the reactor style: an event loop
per thread, channels and pollers below it, timers, TCP servers and clients above
it, and an asynchronous logger beside it. This directory holds TLA+ models of its
state machines, TLC configurations that check them on small instances, and TLAPS
proofs of the results that matter most. `PROJECT.json` lists the components, the
runs, the mutants, the source lines behind every definition, the findings, the
hazards and the theorems.

Paths below are relative to `src/src/` (`net/src/EventLoop.cc` is
`src/src/net/src/EventLoop.cc`).

## 1. The system

### 1.1 Components, their state and operations

| Component | State | Operations | What makes it correct |
|---|---|---|---|
| EventLoop (`net/src/EventLoop.cc`) | `looping_`, `quit_`, `callingPendingFunctors_`, `pendingFunctors_` under `mutex_`, eventfd, `activeChannels_` | `loop`, `quit`, `runInLoop`, `queueInLoop`, `wakeup`, `handleRead`, `doPendingFunctors`, timer and channel front ends | no functor and no `quit()` is slept on; functors run once, in order; both take effect |
| TimerQueue, Timer, TimerId (`net/src/TimerQueue.cc`) | `timers_`, `activeTimers_`, `cancelingTimers_`, timerfd | `addTimer`, `cancel`, `handleRead`, `getExpired`, `reset`, `insert` | both sets agree, every Timer has one owner, the timerfd is set early enough, cancel is final, due timers fire |
| Channel (`net/src/Channel.cc`) | `events_`, `revents_`, `index_`, `addedToLoop_`, `eventHandling_`, `tie_` | enable/disable, `update`, `remove`, `handleEvent` | nothing is dispatched to a channel that is gone |
| PollPoller, EPollPoller | `channels_`, `pollfds_` / epoll set and `events_` | `updateChannel`, `removeChannel`, `poll`, `fillActiveChannels` | a channel's mark leads to its entry, and the kernel is asked for what the channel asks for |
| TcpConnection (`net/src/TcpConnection.cc`) | `state_`, `reading_`, `outputBuffer_`, its channel and socket, callbacks | `send`, `shutdown`, `forceClose`, `forceCloseWithDelay`, `startRead`, `stopRead`, `connectEstablished`, `connectDestroyed`, `handleRead/Write/Close/Error` | one UP and one DOWN callback, no shutdown before buffered bytes are out, destroyed exactly once and only when closed |
| TcpServer, EventLoopThreadPool | `connections_`, `nextConnId_`, `loops_`, `next_` | `start`, `newConnection`, `removeConnection`, destructor; `getNextLoop`, `getLoopForHash` | a connection is in the map until it is closed, and removed once |
| Acceptor (`net/src/Acceptor.cc`) | `listening_`, `idleFd_`, channel | `listen`, `handleRead` (with the spare descriptor for EMFILE) | descriptors are not leaked, the spare comes back |
| EventLoopThread | `loop_`, `exiting_`, thread | `startLoop`, `threadFunc`, destructor | `startLoop` returns a loop, the destructor ends it |
| Connector, TcpClient | `connect_`, `state_`, `channel_`, `retryDelayMs_`; `connection_` under a mutex | `start`, `stop`, `restart`, `connect`, `handleWrite`, `handleError`, `retry`; `connect`, `disconnect`, `newConnection`, `removeConnection` | one attempt at a time and never none while wanted, no descriptor is lost, stop takes effect |
| Buffer (`net/include/Buffer.h`) | reader and writer index over a vector | append, prepend, retrieve, peek, `readFd`, `makeSpace` | bytes come out as they went in |
| AsyncLogging (`base/src/AsyncLogging.cc`) | `currentBuffer_`, `nextBuffer_`, `buffers_` under `mutex_`; the thread's spares | `append`, `start`, `stop`, `threadFunc` | lines reach the file once and in order; the asserts hold; `stop` returns |
| LogFile, FileUtil::AppendFile | file, `count_`, roll and flush times | `append`, `flush`, `rollFile` | what was written is on disk after every round, in order; a file is left only when it is full or its day is over |
| Thread, ThreadPool, BlockQueue, BoundedBlockQueue, CountDownLatch | thread flags; task queue with two conditions; queues; a count | `start`, `join`; `start`, `stop`, `run`, `take`; `put`, `take`; `wait`, `countDown` | no task lost, `stop` returns, no waiter is missed |
| Logging, LogStream | `g_logTimeZone`, the thread's `t_time` and `t_lastSecond`, the line's buffer | constructors, `operator<<`, `finish`, destructor; `formatSI`, `formatIEC` | numbers read back and stay inside the line, the time has its width, quantities fit their columns |
| Date, TimeZone | a table of transitions | Julian day numbers, broken-down time, `toLocalTime`, `fromLocalTime`, `loadZoneFile` | dates agree with the calendar, a local time is found, a zone is loaded whole or not at all |
| Timestamp, InetAddress, Socket, SocketsOps, StringPiece, ProcessInfo, Exception, CurrentThread | values | formatting, thin wrappers of system calls | |

### 1.2 How they interact

An EventLoop belongs to one thread. That thread polls, calls `handleEvent` of the
active channels and runs the functors other threads queued; everything else
(timers, connections, acceptors, connectors) runs as a channel's callback or as a
functor on it. `runInLoop` is how one thread acts on another's objects: at once on
the loop thread, through `pendingFunctors_` and an eventfd write from elsewhere.
A TcpServer accepts on one loop and hands connections to the loops of its pool; a
connection's close goes from its loop to the server's and back. The logger is
called from any thread and shares only `AsyncLogging::mutex_` with its own thread.

### 1.3 What is hard

* interleavings: `queueInLoop`, `quit`, `shutdown`, `forceClose` and `addTimer`
  from other threads at any point of the loop thread;
* state that is tested on one thread and used later on another (`state_` in
  TcpConnection, `loop_` in EventLoopThread, `timer->sequence()` in addTimer);
* lifetimes: functors capture `this`, timers and channels are deleted while ids,
  indices or active lists still name them, addresses are reused;
* one-shot signals (eventfd, timerfd, condition variables) that must never be
  missed, and timeouts that make good for those that are;
* errno that is read after calls that do not set it, and limits (eventfd counter,
  backlog of log buffers, queue sizes, spare descriptor);
* arithmetic at its edges: indices of a buffer around the bytes kept free at its
  front, times before 1970, hours that come twice, files that are cut short,
  rounding at a change of unit.

`PROJECT.json` lists each hazard at its line with the properties aimed at it.

## 2. The modules

| Module | Models | State and actions |
|---|---|---|
| `FunctorQueue` | abstract specification: one FIFO queue of functors, each started at most once | `Enqueue`, `RunHead`, `RunNow` |
| `EventLoop` | `EventLoop::loop` and the calls around it | `lpc` is the loop thread's place, `cpc` that of the other threads; push, store and eventfd write of a caller are separate steps; user code on the loop thread (a channel's callback or a functor) may call the loop again |
| `EventLoopThread` | the thread that makes a loop, hands it out and runs it, composed with `EventLoop` | `tpc` is where `threadFunc` is, `opc` what the owner has done, `early` whether its destructor came before `loop()` was entered; a loop run by its maker is the case `tpc = "main"` |
| `HandoffProofs` | proofs about `EventLoop` and `ThreadPool` | |
| `TimerQueueProofs`, `PollPollerProofs`, `ConnectorProofs`, `TcpServerProofs` | proofs about `TimerQueue`, `PollPoller`, `Connector`, and `TcpServer` with `TcpConnection` | |
| `TimerQueue` | TimerQueue with Timer and TimerId | `heap` maps reusable addresses to Timer objects; `left` is the time on the timerfd; one action per operation, a callback runs between `RunTimer` and `CallbackReturns` |
| `Channel` | the channels of a loop and the dispatch of one poll | shared by the two pollers |
| `PollPoller`, `EPollPoller` | the pollers over `Channel` | `pollfds_` with place = `index_`, and `bare`, the channels first updated for nothing; the marks kNew, kAdded, kDeleted, and `errno` |
| `TcpConnection` | connections, their loops' queues and call stacks, other threads | `todo[l]` is what loop thread l is about to do: a handler replaces itself by what it calls; functors are marked by whether they own the connection or capture `this`; `late` names the connections for which a functor of the second kind was queued after their owner let go of them |
| `TcpServer` | the owner of the connections, composed with `TcpConnection` | `newConnection`, `removeConnection`, `removeConnectionInLoop`, the destructor (`DeleteServer`, then `EndLoop` for each loop of the pool), round-robin choice of the loop; `hasty` tells whether the server was deleted when it was not `QuietEnough` |
| `AsyncLogging` | the double-buffered logger | append under `mutex_`, `start`/`stop`, the logging thread step by step between locks |
| `LogFile` | LogFile and AppendFile as the output of the logger, composed with `AsyncLogging` | `output` is the LogFile with all files it has had, each with its lines on disk and in stdio; `lost` and `torn` are the lines that writes which fell short did not write, or wrote in part; the steps of `AsyncLogging` that touch the file are refined piece by piece |
| `AsyncLoggingProofs` | proofs about `AsyncLogging` and `LogFile` | |
| `Connector` | the connector with the calls TcpClient makes of it | `wanted` is the `connect_` of the TcpClient, `restarting` its loop thread between the test of it and `restart()`; `timers`, `pending` and `batch` are the parts of the loop its handlers depend on; `socket` says who has each descriptor; `due` stands for a call of `startInLoop`, entered from a timer, a functor, `start` or `restart` |
| `ThreadPool` | the pool of workers | one action per critical section; "wait" and "woken" are a thread in a condition variable's wait and one that has left it and wants `mutex_` |
| `ByteQueue` | abstract specification: a queue of bytes that is appended and prepended to, retrieved from, read as numbers and as lines | `content`, and `io`, the last call with its result |
| `Buffer` | `net::Buffer` with `readFd` | a vector, a reader and a writer index, one action per kind of call |
| `BufferProofs` | proofs about `Buffer` and `ByteQueue` | |
| `Date`, `TimeZone` | calendar arithmetic, the two searches of the transition table, the reader of zone files | operators; a file is a sequence of cells, one per byte, of which the first of a field carries it |
| `LogStream` | numbers as digits, the fixed buffer, `formatSI` and `formatIEC` as widths | operators |
| `Logging` | a line on one thread over `TimeZone` and `LogStream` | `day`, `second` and `civil` are the clock, and the calendar counted independently of `Date`; `tz` a zone just loaded; `line` the open line |
| `LoggingProofs` | proofs about `Logging`, `Date` and `LogStream` | |
| `MCLogging` | the instance of `Logging` | days, zones (the table of PRC from the comment of TimeZone.cc:265 and one in the other direction), quantities |

Composition. `TimerQueue` and `TcpConnection` use the loop through what
`FunctorQueue` promises (a FIFO queue per loop), and `EventLoop` is shown to
implement `FunctorQueue`, so the detail of vectors, swap and wakeups is checked
once. `Channel` is the part the pollers share; `TcpServer` extends
`TcpConnection`, `EventLoopThread` extends `EventLoop`, `LogFile` extends
`AsyncLogging` and `Logging` extends `TimeZone` and `LogStream`.

Asserts. Where an assert of the code can fail, the models that check it carry a
variable `aborted` that holds the place of the failed assert, after which nothing
moves; elsewhere the assert is stated as an invariant.

Abstractions. Functors, lines, descriptors and connections are model values or
numbers; message payloads, addresses and text other than numbers are left out (of
a log line, its length is kept).
Time in `TimerQueue` is counted in ticks of 100 microseconds, the least delay
`howMuchTimeFromNow` programs. The outcomes of system calls are choices.

## 3. The runs

| Run | Checks | Bounds |
|---|---|---|
| `event_loop` (`EventLoopThread`) | no wakeup and no `quit()` is slept on (`NoLostWakeup`, `NoLostQuit`); refinement of `FunctorQueue`; queued functors run, without help of the poll timeout; the destructor of an EventLoopThread, at any time after `startLoop`, returns if its `quit()` found the thread in `loop()`, and never does otherwise (`JoinReturns`) | two other threads, one of them the owner, three functors, eventfd saturating at 2: enough for a functor in the batch, one queued meanwhile and one racing the poll, and for a full counter |
| `timer_queue` | `SetsAgree`, `OneOwner`, `TimerfdArmed`, `CancelIsFinal`; every due timer fires or is cancelled (`DueTimersFire`) | three timers on two addresses, so that addresses are reused while a batch runs; one-shot and repeating, due at once, overdue later or in the future; three ticks; one functor of another thread queued |
| `async_logging` (`LogFile`) | the asserts of `threadFunc` (`SparesSuffice`), lines written once and in order (`LinesAccountedFor`), no sleep on a full buffer, written lines on disk after every round through every roll, and of a write that fell short what it did write (`LogsOnDisk`); lines get written (`LinesGetWritten`), `stop` returns (`StopReturns`) | three lines of two lengths against a buffer of three, one of them too long for any buffer, and a backlog cut at more than two buffers: full, next, fresh and rejected cases and a cut all happen; files roll at three bytes, are checked at every second append and have days of two seconds; two seconds go by, so that a file is left for its size and for its day; any write may fall short, at any byte, in any file |
| `poll_poller` | `index_` leads to the entry, and the asserts fail in two cases only, a removal after a single update for nothing and an update after a removal (`IndexLeadsToEntry`); entries match channels (`EntryMatchesChannel`); no handler of a deleted channel is called | three descriptors: removal of first, middle and last entry |
| `tcp_server` | asserts of connection, channel and server, and uses of what was freed (`NoAssertFails`): none but after a deletion that was not quiet or a send after the server let go; POLLOUT iff bytes are buffered; FIN after the buffer; one UP and one DOWN; functors that capture `this` find their connection (`NoDanglingFunctor`); closed connections are freed (`ClosedIsFreed`), shutdowns complete (`ShutdownCompletes`) | one connection, an accepting loop with or without a pool loop, one sending thread, two calls in all (a send and a shutdown, a close and another one; the proofs cover any number), the server deleted at any time; messages of two bytes at a high-water mark of two, so that full, partial and refused writes differ |
| `connector` | asserts of the connector, which fail only after a hasty `connect()` or an overtaken `stop()` (`NoAssertFails`), the socket of the attempt neither leaked nor closed under the poller (`AttemptOwnsSocket`), one attempt at a time and never none while wanted (`OneAttempt`), `stop` takes effect | two descriptors, so that one is reused while the connection before still has the other; delays 1, 2, 3; two functors of `start` and `stop` queued; a `start` on top of at most one other attempt |
| `thread_pool` | no notification lost (`NoTaskSleptOver`, `NoPlaceSleptOver`), nobody asleep after `stop`, `stop` returns | two workers, two producers, two places, five tasks: full and empty queues, a task taken from under a woken worker, waits that end by themselves |
| `buffer` | `Buffer` implements `ByteQueue` | two bytes kept free, an initial room of two, an extra buffer of two, at most six bytes in all: every way of moving, growing and overflowing into the extra buffer happens, before and after prepends |
| `logging` (`MCLogging`) | dates agree with the calendar (`CalendarAgrees`), `fromLocalTime` finds when a correct clock of the zone shows a time (`LocalTimeInverts`), zone files are read whole or not at all (`ZoneLoadedWhole`), numbers (`NumbersReadBack`), quantities fit their columns but for those just below 99.95P (`UnitsFit`) | every day from the end of 1899 to March 2100; half hours of the days around 1970 and around every change of two tables; files of versions 1, 2 and 3, with a full and with an empty first block, cut at every byte; lines of real size (4000 bytes) with up to three insertions |
| `epoll_poller_update` | violation: EPollPoller.cc:84 | two descriptors |
| `tcp_connection_force_close` | violation: TcpServer.cc:80 | one connection, one thread, one call |
| `log_time` (`MCLogging`) | violation: Logging.cc:98 | the instance of `logging` |

Deadlock is not checked where the bounds on lines, calls or timers make the model
stop, or where an aborted program does.

Fairness. The loop thread keeps running inside `loop()` and takes each step it can
(weak fairness on its steps); a thread that has begun a call finishes it; user code
returns. Nothing is assumed of poll's timeout in `event_loop`; `threadFunc`
of an EventLoopThread goes on like the loop it runs. `timer_queue`
adds that time passes and that a readable timerfd is handled, `async_logging`
that `wait_for` ends at the latest with its interval, and `connector` that a timer
that stays set expires (strong fairness of the poll that returns it). In `thread_pool` a
thread that wants the mutex gets it and tasks return; no wait has to end by itself. In
`tcp_server` strong fairness of `Functor` says what the loop does by construction: every
iteration ends with `doPendingFunctors`, however many events there are; the thread lets go of
a connection that is down; and, for `ShutdownCompletes`, the peer keeps reading, so
that the socket becomes writable and some write takes what is left.

Assumptions about callers, where the code relies on them: a handler removes only
its own channel or one that is not active (`MayRemove`, asserted in
EventLoop.cc:160-164); descriptor 0 reports nothing (`PollPoller`); callbacks do not start
reading on a connection that is down, and in `Spec` other threads only send
(`TcpConnection`; `RacingSpec` has their other calls); a retry delay (500 ms at least)
outlasts the loop iteration that sets it (`Connector`); tasks do not call `run()` and the
queue has places (`ThreadPool`); the owner of an EventLoopThread destroys it after
`startLoop` has returned; callers of a Buffer keep to the asserts that are about their
arguments.

What callers may do and the code does not bear is in the models, and the properties name it:

* a destructor of EventLoopThread that comes before its thread has entered `loop()`
  (`early`): its `quit()` is undone by EventLoop.cc:80 and `join()` does not return;
* a server deleted when it is not quiet (`hasty` in `TcpServer`): a connection is
  disconnecting or on its way out, a functor that captures `this` is queued for one, or
  the server has a pool and a connection lives;
* a `send()` of another thread after the server let go of the connection (`late`):
  nothing keeps the connection for its functor. A thread may drop its pointer at any time;
* a `connect()` before the `start()` or `stop()` before it is over (`hasty` in `Connector`),
  and a `stop()` between the test of TcpClient.cc:114 and the store of Connector.cc:99
  (`overtaken`);
* a first update of a channel for nothing (`bare` in `PollPoller`), and an update of a
  channel that was removed.

### Findings

Three violation runs, each against what an assert or a comment says:

1. EPollPoller.cc:92 stores the old mark instead of `kAdded`; the second update of
   any channel fails the assert at line 84 (`epoll_poller_update`).
2. `forceClose()` from another thread can overwrite `kDisconnected`; the connection
   is then closed and removed twice, against TcpServer.cc:80
   (`tcp_connection_force_close`). `shutdown()` has the same race and ends in the
   destructor's assert (TcpConnection.cc:46).
3. `fillHMS` (TimeZone.cc:236) casts the minutes of the day to `int8_t`. From 02:08 on
   the hour and minute of every log line are wrong, and where they become two-digit
   negative numbers the assert of Logging.cc:98 on the length of the text fails
   (`log_time`). The comment of TimeZone.cc:272-274 has an example whose result, 09:00,
   comes out as 00:28.

Four more are cases in which what the code says of itself does not hold. They are states
of the passing runs, and the property that would otherwise cover them names each as its
exception:

4. `connectDestroyed` (TcpConnection.cc:217) does not disable the channel of a connection
   that is disconnecting, so deleting a server then fails the assert of Channel.cc:46
   (`hasty` in `NoAssertFails` of `tcp_server`).
5. `TcpClient::connect()` starts the connector whatever it is doing; a second `connect()`
   during an attempt, with a retry timer set, or after a connection has come and gone
   fails the assert of Connector.cc:35 (`hasty` in `NoAssertFails` of `connector`).
6. A channel whose first update is for nothing is added to `pollfds_` as if enabled
   (PollPoller.cc:54-63); `~Acceptor` of an acceptor that never listened then fails the
   assert of PollPoller.cc:92 (`bare` in `IndexLeadsToEntry` and `EntryMatchesChannel`).
7. `formatSI` tests the integer and prints the double: the eight integers just below
   99.95P come out as `100.0P`, six characters against the five of LogStream.h:151
   (`carries` in `UnitsFit`).

Seen while modelling, and not the subject of a run:

* `sendInLoop` keeps unwritten bytes only when they cross the high-water mark
  (TcpConnection.cc:118);
* a loop of a pool that quits does not run what is queued, so deleting a server with a
  pool frees connections that were not destroyed (EventLoopThread.cc:18); this is in
  `tcp_server`, as a deletion that is not quiet;
* `Thread::start` (Thread.cc:127) destroys the ThreadData its thread runs from, and the
  thread deletes it once more; `TcpClient` (TcpClient.cc:50, 56, 113) queues functors that
  capture references to local pointers; `getLoopForHash` (EventLoopThreadPool.cc:54) masks
  where a remainder is meant; `EPollPoller::fillActiveChannels` takes -1 for a size after a
  signal (EPollPoller.cc:44); `Acceptor::handleRead` (line 55) competes for its spare
  descriptor; `restart` undoes a `stop` of another thread that comes after the client's
  test (Connector.cc:99; `overtaken` in `connector`); a ThreadPool with the default queue
  size of 0 accepts no task (ThreadPool.cc:62);
* `File::readBytes` (TimeZone.cc:96) makes a string of bytes that are not terminated; zone
  files of version 3 are read by their first block (line 213); a line that is full loses
  its newline; a new time zone is not seen
  until the second changes (Logging.cc:87); the comment at Buffer.h:184 asks `readInt64`
  for four bytes where its assert asks for eight.

## 4. The proofs

`HandoffProofs` proves of `EventLoop`, for any set of callers and functors and any eventfd
limit of at least one:

* `TypeCorrect`: `Spec => []TypeOK`;
* `WakeupNeverLost` and `QuitNeverLost`. Neither invariant is inductive. The
  strengthening, `InductiveInvariant`, says for *every* place of the loop thread, and
  not only in poll, what a queued functor or a `quit()` has that keeps the loop from
  sleeping on it: a wakeup in the eventfd or owed by its caller, or a step of the
  loop thread still to come (the test of `quit_`, the swap) that will see it. It needs
  to know in which places `callingPendingFunctors_` is set, because that decides
  whether the loop thread wakes itself, and where the batch is empty;
* `QueueRefinement`: with `functors \o pendingFunctors_` as the queue, every step of
  the loop is a step of `FunctorQueue` or leaves it unchanged. The invariant that the
  local batch is empty at the swap is what makes the swap invisible.

It proves of `ThreadPool`, whose specification is `PoolSpec`, for any number of workers
and producers and any queue size:

* `NoTaskIsSleptOver` and `NoPlaceIsSleptOver`. "Somebody is awake" is not inductive,
  because a thread that never waited may take what another was woken for; what is
  inductive is the count, as many woken threads as tasks (or free places) while
  anyone of that kind still waits. The lemmas count the woken threads when one is
  notified and when one moves on;
* `NobodySleepsAfterStop`, from the invariant that threads wait only while `running_`
  is set, which `NoPlaceIsSleptOver` also needs for a `run()` that gives up.

`AsyncLoggingProofs` proves `SparesAlwaysSuffice` for every capacity, set of line
lengths and backlog limit of at least two. The invariant records, for each place of
the logging thread, which spares are there and how many buffers were taken:
`nextBuffer_` can be missing after the swap only if a full buffer was queued, hence
two buffers were taken whenever two spares are to be refilled. `FullBufferNeverSleptOn`
needs no strengthening: the test of `buffers_` and the wait are one critical section,
and every append that fills a buffer notifies.

`LinesAlwaysAccountedFor` (for any number of lines too) rests on two things. The order
has to be stated for every pair of lines, not for neighbours, because a cut takes
lines out of the middle; from that follows that no line that was cut is among those that
stay, so `dropped` grows by exactly what was cut. And the lemmas on `FlattenSeq`: a buffer
appended adds its lines at the end, and the first two buffers hold a beginning of the
whole. `FlattenSeq` is recursive; the table of its partial results exists and is unique by
an induction over the numbers, which is stated for a set of numbers and follows from the
well-foundedness of `<` in the library (`SetInduction`). `LogFileImplementsLogging` carries
all of this over to the logger with its files, which is what the run checks.

`LogsAlwaysOnDisk` (`LogsOnDisk`) is about the files themselves, for every roll size,
flush interval, period, length of the notice and number of lines, and for any number of
writes that fall short, anywhere. The invariant (`FilesInv`) says what the property
says, but for every place of the logging thread and not only between rounds: the lines
in the files, on disk or still in stdio, are the lines whose write was tried, in a
finished round or in this one up to the piece being written, less what the writes that
fell short left out. Its part about one LogFile (`OutputInv`) says that only the last
file may hold bytes in stdio, that a file was given up only past its limits, and that
`lastRoll_` and `startOfPeriod_` belong to the last file, without which the next roll
could reuse a name. The pieces of a round are in order because the buffers are, which is
`LinesInv` of `AsyncLogging` again, through the refinement. The property says "the same
lines, ascending" of what is on disk; as line numbers only ascend, that is the sequence
of the lines written less the lost ones.

`BufferProofs` proves, for every initial size, room at the front, size of `extrabuf`,
set of bytes and length of a call, `IndicesInOrder` and `BufferRefinement`
(`ImplementsByteQueue`). The invariant (`BufferInv`) is the order of the indices within
a vector of at least `kCheapPrepend` bytes, without a lower bound on the reader: a
prepend may take it below `kCheapPrepend`, and the proof that `makeSpace` then grows the
vector, and does not move bytes over themselves, is the core of the refinement. The
lemmas say what each part of the class does to the readable bytes (a move, growth, a
read that runs over into `extrabuf`, the searches, the numbers in network order); the
steps follow from them.

`PollPollerProofs` proves, for any set of descriptors, `IndicesCorrect`
(`IndexLeadsToEntry`, the asserts and the two cases in which they fail included),
`KernelAsked` (`EntryMatchesChannel`) and `HandlersAlive` (`ActiveChannelsExist`). The
invariant (`PollInv`) adds that the map holds exactly the channels that were added, that
every entry beyond the zeroed ones is some channel's (so that the last entry, which a
removal swaps in, is a known one), and which channels a dispatch in progress may still
name.

`TimerQueueProofs` proves, for any number of timers, addresses, callers and ticks,
`SetsAlwaysAgree`, `TimersOwned` (`OneOwner`), `TimerfdNeverLate` (`TimerfdArmed`) and
`CancelledStayOut` (`CancelIsFinal`). The invariant (`TimerInv`) gives every live address
one owner (the sets, the batch, or a functor on its way), says that a batch exists only in
`handleRead`, that every sequence number seen is in the past, and that a timer cancelled
while its batch runs is noted in `cancelingTimers_`, without which `reset` could put it
back. That the timerfd is early enough needs the least expiration of the set, taken from
the well-foundedness of `<`.

`ConnectorProofs` proves, for all delays and descriptors, and for `connect()` and `stop()`
at any time and any number of times, `ConnectorAsserts` (`NoAssertFails`), `SocketOwned`
(`AttemptOwnsSocket`) and `AlwaysOneAttempt` (`OneAttempt`). `SocketOwned` holds whatever
the callers do. The asserts need the channel of one attempt gone before the next begins, so
the invariant (`ConnectorInv`) follows the functor that destroys it: a dead channel has
exactly one `resetChannel` queued, in the batch of this iteration or about to be, before any
functor that could start an attempt and before any timer is looked at. That holds as long
as no `connect()` was hasty; the two cases in which an assert then fails still are those
the property names.

`TcpServerProofs` proves, for any number of connections, loops, other threads and calls,
any message lengths and high-water mark, and with or without a pool:

* `ServerAsserts` (`NoAssertFails`): an assert of TcpConnection, Channel or TcpServer
  fails, or something freed is used, only after a deletion that was not quiet or by a send
  that came after the server let go;
* `FunctorsFindConnection` (`NoDanglingFunctor`);
* `CallbacksInOrder` (`UpThenDown`), `PollOutFollowsBuffer` (`WritingIffBuffered`) and
  `FlushBeforeShutdown` (`ShutdownAfterFlush`), each until the server is deleted when it is
  not quiet. The run checks these three after such a deletion too.

They share one inductive invariant, `ServerInv`: either `Sound`, or the program has ended in
a late functor (`Burnt`), or the server was deleted when it was not quiet. `Sound` has three
parts. `TcpInv` describes each loop thread's stack (`todo`: which steps may stand above
which others), each loop's queue (no notification of a connection behind its
`connectDestroyed`), and each connection's stage by counting the work that waits for it: one
`connectEstablished` until it is up, one close on its way to the server while it is down and
still in the map, then one `connectDestroyed` on its way back, and after that nothing that
needs it but late sends. `SendInv` says where sends of other threads are: one that was queued
while the server had the connection is in front of the `connectDestroyed` that keeps the
connection alive, so it runs first, although its own thread may have dropped its pointer.
`PoolInv` says that no connection is left when the loops of a pool end. None of the five
properties is inductive alone: that `connectDestroyed` runs once depends on what waits in the
queues of two loops, and that a functor with a raw `this` finds its connection on the owning
functor behind it. The remaining assumptions are those about callers in section 3, which are
guards of the model.

`LoggingProofs` proves three of the invariants of the `logging` run, for every start,
number, quantity, text length and buffer size:

* `CalendarAlwaysAgrees` (`CalendarAgrees`). The invariant (`ClockInv`) is that the
  calendar, counted day by day by its rules, has the Julian day number of the clock's day;
  `NextDate` shows that the next date has the next number, with the leap days of every
  year, and `DateFound` that `getYearMonthDay` inverts `getJulianDayNumber` on every date
  after the year -4800: a day lies within its century, its year and its month that begins
  in March, and each of the three divisions of the code finds the right one also on the
  last day of a leap year, of a century and of four centuries. `DaySplit` is the rounding
  toward zero that `BreakTime` undoes before 1970. What is assumed is that the walk starts
  on days whose date and number belong together (`StartsAssumption`, which TLC evaluates on
  the starts of the run);
* `NumbersAlwaysReadBack` (`NumbersReadBack`). `LowDigits` is a recursive function, so what
  it computes is proved along the table of its values, as for `FlattenSeq`: the table
  exists, two tables agree, and then by induction the digits of a number, reversed, are read
  as the number (`DigitsRead`). That the text and its `'\0'` stay in the buffer needs that a
  number takes less than `kMaxNumericSize` characters (`InsertsAssumption`), which is
  what `staticCheck` in LogStream.cc asserts;
* `UnitsAlwaysFit` (`UnitsFit`): each column of the two functions is bounded by its limit,
  and the rounding of the last digit cannot carry over it, except for the eight integers
  of finding 7, which carry (`QuantitiesAssumption` is the shape of a quantity, a leading
  part, a power of 1000 and up to sixteen units less, and leaves none of them out).

Only model-checked:

* liveness (`QueuedFunctorsRun`, `JoinReturns`, `DueTimersFire`, `LinesGetWritten` and the
  others), which rests on fairness and `ENABLED`;
* `ZoneLoadedWhole` and `LocalTimeInverts` of `Logging`: a zone file is laid out and read by
  folds with an operator over its cells, which the provers cannot unfold for a file of any
  length, and the searches are claimed only for tables that come from such a file and whose
  changes are at least a day apart;
* the violation runs, whose counterexamples are their result.

## 5. Not modelled, and what is left

Not modelled: wrappers of system calls, address and text formatting, /proc readers;
their outcomes are choices where they matter. `Thread` is two steps of the modules that
start one. `TcpClient`'s connection handling is that of `TcpServer` on top of
`Connector`; its own functors dangle in the usual case (see above), and a model of them
would stop at once. `Acceptor` is a few system calls around `newConnection`. The
blocking queues repeat the waits of `ThreadPool`. `PROJECT.json` gives the reason for each
component.

Worth adding: `disconnect()` and the destructor of TcpClient over `Connector`.

Worth proving next: `LocalTimeInverts` for a table whose rows are sorted and far enough
apart, which needs that shape as an assumption on the zones.

## 6. Running it

    tlc -config EventLoop.cfg EventLoopThread    # likewise for the other runs
    tlapm HandoffProofs.tla
    tlapm AsyncLoggingProofs.tla
    tlapm BufferProofs.tla
    tlapm LoggingProofs.tla
    tlapm PollPollerProofs.tla
    tlapm TimerQueueProofs.tla
    tlapm ConnectorProofs.tla
    tlapm TcpServerProofs.tla                    # the longest, about half an hour
