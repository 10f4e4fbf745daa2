--------------------------- MODULE TcpConnection ---------------------------
(***************************************************************************)
(* dws::net::TcpConnection, for a set of connections spread over a set of  *)
(* loops, and the loops as far as connections need them: a FIFO queue of   *)
(* functors per loop (FunctorQueue.tla) and what its thread is about to    *)
(* do.  TcpServer.tla adds the owner of the connections.                   *)
(*                                                                         *)
(* todo[l] is the rest of the call stack of loop thread l: the head is     *)
(* executed next, and what it calls is put in front of what remains.  The  *)
(* entry "user" stands for a user callback, which may call the connection  *)
(* it was given any number of times before it returns.                     *)
(*                                                                         *)
(* A connection is kept alive by shared pointers: the owner's, those some  *)
(* functors capture, the guards of running handlers, and those other       *)
(* threads hold.  The other functors capture only "this", and nothing makes *)
(* the object wait for them.  A failed assert, or the use of an object that *)
(* is gone, ends the program: "aborted" says which, and nothing moves any   *)
(* more.                                                                    *)
(***************************************************************************)
EXTENDS Integers, Sequences, FiniteSets, SequencesExt

CONSTANTS
  Conns,          \* the connections ever made
  Loops,          \* the loops they run on
  Threads,        \* threads without a loop that hold connections
  Lens,           \* lengths of messages
  highWaterMark_, \* set together with highWaterMarkCallback_; all callbacks are set
  UserCalls,      \* what user callbacks call, a subset of Calls
  MaxCalls        \* bound: calls of the public interface ever made

Calls == {"send", "shutdown", "forceClose", "forceCloseWithDelay", "startRead", "stopRead"}

ASSUME ConnectionAssumption ==
  /\ Lens \subseteq Nat \ {0}
  /\ highWaterMark_ \in Nat /\ MaxCalls \in Nat
  /\ UserCalls \subseteq Calls

VARIABLES
  object,        \* whether the connection is made: "no", "live" or "freed"
  state_,
  reading_,
  outputBuffer_, \* its readable bytes
  events,        \* what channel_ asks for
  added,         \* channel_'s addedToLoop_
  loop_,
  finSent,       \* shutdownWrite was done
  timers,        \* connections with a forceClose timer running
  queue,         \* per loop: functors queued
  todo,          \* per loop: what its thread is about to do
  tpc,           \* per thread: [at, op, conn]
  held,          \* per thread: connections it holds a shared pointer to
  late,          \* history: connections for which a thread queued a functor that
                 \* captures "this" after the owner had let go of them
  calls,         \* history: calls made
  ups, downs,    \* history: connectionCallback_ calls with the two states
  aborted        \* the failed assert, or "no"

connVars == <<state_, reading_, outputBuffer_, events, added, finSent, ups, downs>>
threadVars == <<tpc, held, late>>
vars == <<object, connVars, loop_, timers, queue, todo, threadVars, calls, aborted>>

-----------------------------------------------------------------------------
(* Functors and handlers.                                                  *)

\* These capture, or run under, a shared pointer to the connection.
Owning == {"connectEstablished", "connectDestroyed", "removeConnectionInLoop",
           "forceCloseInLoop", "handleRead", "handleWrite", "handleClose",
           "closeCallback", "channelRemove", "user", "eventEnd"}
\* These capture "this".
Raw == {"sendInLoop", "shutdownInLoop", "startReadInLoop", "stopReadInLoop",
        "writeCompleteCallback", "highWaterMarkCallback"}

Work == [op : Owning \union Raw, conn : Conns, len : Lens \union {0}]
Do(op, c) == [op |-> op, conn |-> c, len |-> 0]
Send(c, len) == [op |-> "sendInLoop", conn |-> c, len |-> len]

NoConn == "none"
Idle == [at |-> "idle", op |-> "none", conn |-> NoConn]

TypeOK ==
  /\ object \in [Conns -> {"no", "live", "freed"}]
  /\ state_ \in [Conns -> {"kConnecting", "kConnected", "kDisconnecting", "kDisconnected"}]
  /\ reading_ \in [Conns -> BOOLEAN]
  /\ outputBuffer_ \in [Conns -> Nat]
  /\ events \in [Conns -> SUBSET {"read", "write"}]
  /\ added \in [Conns -> BOOLEAN]
  /\ loop_ \in [Conns -> Loops]
  /\ finSent \in [Conns -> BOOLEAN]
  /\ timers \subseteq Conns
  /\ queue \in [Loops -> Seq(Work)] /\ todo \in [Loops -> Seq(Work)]
  /\ tpc \in [Threads -> [at : {"idle", "tested", "stored"}, op : Calls \union {"none"},
                        conn : Conns \union {NoConn}]]
  /\ held \in [Threads -> SUBSET Conns]
  /\ late \subseteq Conns
  /\ calls \in 0..MaxCalls
  /\ ups \in [Conns -> Nat] /\ downs \in [Conns -> Nat]

ConnectionInit ==
  /\ object = [c \in Conns |-> "no"]
  /\ state_ = [c \in Conns |-> "kConnecting"]
  /\ reading_ = [c \in Conns |-> TRUE]
  /\ outputBuffer_ = [c \in Conns |-> 0]
  /\ events = [c \in Conns |-> {}]
  /\ added = [c \in Conns |-> FALSE]
  /\ loop_ = [c \in Conns |-> CHOOSE l \in Loops : TRUE]   \* set by the constructor
  /\ finSent = [c \in Conns |-> FALSE]
  /\ timers = {}
  /\ queue = [l \in Loops |-> <<>>] /\ todo = [l \in Loops |-> <<>>]
  /\ tpc = [t \in Threads |-> Idle] /\ held = [t \in Threads |-> {}]
  /\ late = {}
  /\ calls = 0
  /\ ups = [c \in Conns |-> 0] /\ downs = [c \in Conns |-> 0]
  /\ aborted = "no"

-----------------------------------------------------------------------------
(* Steps of a loop thread.                                                 *)

\* Thread l executes op of connection c next.
At(l, op, c) ==
  /\ aborted = "no"
  /\ todo[l] # <<>> /\ Head(todo[l]).op = op /\ Head(todo[l]).conn = c
  /\ object[c] = "live"

\* It does so now, in a step that is no call of the public interface.
Runs(l, op, c) == At(l, op, c) /\ UNCHANGED <<object, loop_, timers, threadVars, calls>>

\* It is done, and calls work before it goes on with the rest.
Then(l, work) == todo' = [todo EXCEPT ![l] = work \o Tail(@)]

\* It calls work now and then goes on with what it is doing.
Now(l, work) == todo' = [todo EXCEPT ![l] = work \o @]

Queued(l, work) == [queue EXCEPT ![l] = @ \o work]

\* assert(p) at place.
Asserts(p, place) == aborted' = IF p THEN aborted ELSE place

\* channel_->enable..., disable...: Channel::update sets addedToLoop_.
Ask(c, ev) ==
  /\ events' = [events EXCEPT ![c] = ev]
  /\ added' = [added EXCEPT ![c] = TRUE]

\* doPendingFunctors takes the next functor.
RunFunctor(l) ==
  /\ aborted = "no"
  /\ todo[l] = <<>> /\ queue[l] # <<>>
  /\ todo' = [todo EXCEPT ![l] = <<Head(queue[l])>>]
  /\ queue' = [queue EXCEPT ![l] = Tail(@)]
  /\ UNCHANGED <<object, connVars, loop_, timers, threadVars, calls, aborted>>

\* Channel::handleEvent, under the guard of tie_: which callbacks are called for
\* what poll reports.  A hang-up is reported whatever is asked for; handleError
\* only reads SO_ERROR and is left out.
HandleEvent(l, c, revents) ==
  /\ aborted = "no"
  /\ todo[l] = <<>>
  /\ object[c] = "live" /\ loop_[c] = l /\ added[c] /\ events[c] # {}
  /\ revents # {} /\ revents \ {"hup"} \subseteq events[c]
  /\ todo' = [todo EXCEPT ![l] =
       (IF "hup" \in revents /\ "read" \notin revents THEN <<Do("handleClose", c)>> ELSE <<>>)
       \o (IF "read" \in revents THEN <<Do("handleRead", c)>> ELSE <<>>)
       \o (IF "write" \in revents THEN <<Do("handleWrite", c)>> ELSE <<>>)
       \o <<Do("eventEnd", c)>>]
  /\ UNCHANGED <<object, connVars, loop_, timers, queue, threadVars, calls, aborted>>

EventEnd(l, c) ==
  /\ Runs(l, "eventEnd", c)
  /\ Then(l, <<>>)
  /\ UNCHANGED <<connVars, queue, aborted>>

connectEstablished(l, c) ==
  /\ Runs(l, "connectEstablished", c)
  /\ Asserts(state_[c] = "kConnecting", "TcpConnection.cc:207")
  /\ state_' = [state_ EXCEPT ![c] = "kConnected"]
  /\ Ask(c, events[c] \union {"read"})
  /\ ups' = [ups EXCEPT ![c] = @ + 1]
  /\ Then(l, <<Do("user", c)>>)
  /\ UNCHANGED <<reading_, outputBuffer_, finSent, queue, downs>>

\* Mutant: the channel goes on asking for what it asked for.
DisableNone(c) == events[c]

\* channel_->disableAll().
DisableAll(c) == {}

\* A connection that is still connected goes down first; one that is disconnecting
\* does not.
connectDestroyed(l, c) ==
  /\ Runs(l, "connectDestroyed", c)
  /\ IF state_[c] = "kConnected"
     THEN /\ state_' = [state_ EXCEPT ![c] = "kDisconnected"]
          /\ Ask(c, DisableAll(c))
          /\ downs' = [downs EXCEPT ![c] = @ + 1]
          /\ Then(l, <<Do("user", c), Do("channelRemove", c)>>)
     ELSE /\ Then(l, <<Do("channelRemove", c)>>)
          /\ UNCHANGED <<state_, events, added, downs>>
  /\ UNCHANGED <<reading_, outputBuffer_, finSent, queue, ups, aborted>>

\* channel_->remove().
channelRemove(l, c) ==
  /\ Runs(l, "channelRemove", c)
  /\ Asserts(events[c] = {}, "Channel.cc:46")
  /\ added' = [added EXCEPT ![c] = FALSE]
  /\ Then(l, <<>>)
  /\ UNCHANGED <<state_, reading_, outputBuffer_, events, finSent, queue, ups, downs>>

\* n > 0: messageCallback_; n = 0: the peer closed; n < 0: logged.
handleRead(l, c) ==
  /\ Runs(l, "handleRead", c)
  /\ \E work \in {<<Do("user", c)>>, <<Do("handleClose", c)>>, <<>>} : Then(l, work)
  /\ UNCHANGED <<connVars, queue, aborted>>

\* Mutant: the owner is not told.
DownOnly(c) == <<Do("user", c)>>

\* The callbacks that end a connection.
CloseCallbacks(c) == <<Do("user", c), Do("closeCallback", c)>>

handleClose(l, c) ==
  /\ Runs(l, "handleClose", c)
  /\ Asserts(state_[c] \in {"kConnected", "kDisconnecting"}, "TcpConnection.cc:269")
  /\ state_' = [state_ EXCEPT ![c] = "kDisconnected"]
  /\ Ask(c, DisableAll(c))
  /\ downs' = [downs EXCEPT ![c] = @ + 1]
  /\ Then(l, CloseCallbacks(c))
  /\ UNCHANGED <<reading_, outputBuffer_, finSent, queue, ups>>

\* outputBuffer_.retrieve(n).
Retrieved(c, n) == outputBuffer_[c] - n

\* Mutant: POLLOUT is asked for as long as the connection lives.
StillWriting(c) == events[c]

\* channel_->disableWriting().
DisableWriting(c) == events[c] \ {"write"}

\* Mutant: a shutdown that found bytes buffered is forgotten.
NoShutdown(c) == <<>>

\* The shutdown that waited for the buffer.
LateShutdown(c) ==
  IF state_[c] = "kDisconnecting" THEN <<Do("shutdownInLoop", c)>> ELSE <<>>

\* The whole buffer was written.
Flushed(l, c) ==
  /\ Ask(c, DisableWriting(c))
  /\ queue' = Queued(l, <<Do("writeCompleteCallback", c)>>)
  /\ Then(l, LateShutdown(c))

\* n bytes are written; 0 also stands for a failed write, which is logged.
handleWrite(l, c, n) ==
  /\ Runs(l, "handleWrite", c)
  /\ n \in 0..outputBuffer_[c]
  /\ "write" \notin events[c] => n = 0
  /\ outputBuffer_' = [outputBuffer_ EXCEPT ![c] = IF n > 0 THEN Retrieved(c, n) ELSE @]
  /\ IF n > 0 /\ n = outputBuffer_[c]
     THEN Flushed(l, c)
     ELSE Then(l, <<>>) /\ UNCHANGED <<events, added, queue>>
  /\ UNCHANGED <<state_, reading_, finSent, ups, downs, aborted>>

\* What remains of a message is kept only if it takes the buffer over the high-water
\* mark; otherwise it is dropped.
Keeps(c, remaining) ==
  /\ remaining > 0
  /\ outputBuffer_[c] + remaining >= highWaterMark_
  /\ outputBuffer_[c] < highWaterMark_

\* The message is written at once unless bytes wait before it: n of them go out, or
\* the write fails (gone: with EPIPE or ECONNRESET, as after shutdownWrite).
sendInLoop(l, c, n, gone) ==
  /\ Runs(l, "sendInLoop", c) /\ state_[c] # "kDisconnected"
  /\ LET len == Head(todo[l]).len
         direct == "write" \notin events[c] /\ outputBuffer_[c] = 0
         keep == ~gone /\ Keeps(c, len - n)
     IN  /\ n \in 0..len
         /\ ~direct \/ gone => n = 0
         /\ gone => direct
         /\ direct /\ finSent[c] => gone
         /\ outputBuffer_' = [outputBuffer_ EXCEPT ![c] = IF keep THEN @ + len - n ELSE @]
         /\ IF keep THEN Ask(c, events[c] \union {"write"}) ELSE UNCHANGED <<events, added>>
         /\ queue' = Queued(l, (IF n = len THEN <<Do("writeCompleteCallback", c)>> ELSE <<>>)
                               \o (IF keep THEN <<Do("highWaterMarkCallback", c)>> ELSE <<>>))
  /\ Then(l, <<>>)
  /\ UNCHANGED <<state_, reading_, finSent, ups, downs, aborted>>

SendDisconnected(l, c) ==
  /\ Runs(l, "sendInLoop", c) /\ state_[c] = "kDisconnected"
  /\ Then(l, <<>>)
  /\ UNCHANGED <<connVars, queue, aborted>>

\* Mutant: the write half is shut whatever is buffered.
ShutAlways(c) == TRUE

\* With bytes buffered the shutdown is left to handleWrite.
MayShut(c) == "write" \notin events[c]

shutdownInLoop(l, c) ==
  /\ Runs(l, "shutdownInLoop", c)
  /\ finSent' = [finSent EXCEPT ![c] = @ \/ MayShut(c)]
  /\ Then(l, <<>>)
  /\ UNCHANGED <<state_, reading_, outputBuffer_, events, added, queue, ups, downs,
                 aborted>>

\* Mutant: a connection is closed again.
Closes(c) == TRUE

\* Only a connection that is still up is closed.
Closable(c) == state_[c] \in {"kConnected", "kDisconnecting"}

forceCloseInLoop(l, c) ==
  /\ Runs(l, "forceCloseInLoop", c)
  /\ Then(l, IF Closable(c) THEN <<Do("handleClose", c)>> ELSE <<>>)
  /\ UNCHANGED <<connVars, queue, aborted>>

startReadInLoop(l, c) ==
  /\ Runs(l, "startReadInLoop", c)
  /\ IF ~reading_[c] \/ "read" \notin events[c]
     THEN /\ Ask(c, events[c] \union {"read"})
          /\ reading_' = [reading_ EXCEPT ![c] = TRUE]
     ELSE UNCHANGED <<events, added, reading_>>
  /\ Then(l, <<>>)
  /\ UNCHANGED <<state_, outputBuffer_, finSent, queue, ups, downs, aborted>>

stopReadInLoop(l, c) ==
  /\ Runs(l, "stopReadInLoop", c)
  /\ IF reading_[c] \/ "read" \in events[c]
     THEN /\ Ask(c, events[c] \ {"read"})
          /\ reading_' = [reading_ EXCEPT ![c] = FALSE]
     ELSE UNCHANGED <<events, added, reading_>>
  /\ Then(l, <<>>)
  /\ UNCHANGED <<state_, outputBuffer_, finSent, queue, ups, downs, aborted>>

\* The functors that call writeCompleteCallback_ and highWaterMarkCallback_.
Notify(l, c) ==
  /\ Runs(l, "writeCompleteCallback", c) \/ Runs(l, "highWaterMarkCallback", c)
  /\ Then(l, <<Do("user", c)>>)
  /\ UNCHANGED <<connVars, queue, aborted>>

-----------------------------------------------------------------------------
(* What a user callback does on the loop thread: runInLoop acts at once.   *)

UserCalling(l, c, call) ==
  /\ At(l, "user", c)
  /\ call \in UserCalls
  /\ calls < MaxCalls
  /\ calls' = calls + 1
  /\ UNCHANGED <<object, reading_, outputBuffer_, events, added, finSent, loop_, threadVars,
                 ups, downs, aborted>>

UserSend(l, c, len) ==
  /\ UserCalling(l, c, "send")
  /\ state_[c] = "kConnected"
  /\ Now(l, <<Send(c, len)>>)
  /\ UNCHANGED <<state_, timers, queue>>

UserShutdown(l, c) ==
  /\ UserCalling(l, c, "shutdown")
  /\ state_[c] = "kConnected"
  /\ state_' = [state_ EXCEPT ![c] = "kDisconnecting"]
  /\ Now(l, <<Do("shutdownInLoop", c)>>)
  /\ UNCHANGED <<timers, queue>>

UserForceClose(l, c) ==
  /\ UserCalling(l, c, "forceClose")
  /\ Closable(c)
  /\ state_' = [state_ EXCEPT ![c] = "kDisconnecting"]
  /\ queue' = Queued(l, <<Do("forceCloseInLoop", c)>>)
  /\ UNCHANGED <<timers, todo>>

UserForceCloseWithDelay(l, c) ==
  /\ UserCalling(l, c, "forceCloseWithDelay")
  /\ Closable(c)
  /\ state_' = [state_ EXCEPT ![c] = "kDisconnecting"]
  /\ timers' = timers \union {c}
  /\ UNCHANGED <<queue, todo>>

\* Callbacks do not start reading on a connection they are told is down.
UserReadCall(l, c, call) ==
  /\ call \in {"startRead", "stopRead"}
  /\ UserCalling(l, c, call)
  /\ call = "startRead" => state_[c] # "kDisconnected"
  /\ Now(l, <<Do(IF call = "startRead" THEN "startReadInLoop" ELSE "stopReadInLoop", c)>>)
  /\ UNCHANGED <<state_, timers, queue>>

UserReturns(l, c) ==
  /\ Runs(l, "user", c)
  /\ Then(l, <<>>)
  /\ UNCHANGED <<connVars, queue, aborted>>

\* A callback gives its TcpConnectionPtr to another thread.
HandOver(l, c, t) ==
  /\ At(l, "user", c)
  /\ c \notin held[t]
  /\ held' = [held EXCEPT ![t] = @ \union {c}]
  /\ UNCHANGED <<object, connVars, loop_, timers, queue, todo, tpc, late, calls, aborted>>

-----------------------------------------------------------------------------
(* Calls from other threads: the test of state_, the store to it and the   *)
(* hand-over to the loop are separate steps, and nothing protects state_.  *)

ThreadTest(t, c, call) ==
  /\ aborted = "no"
  /\ tpc[t].at = "idle" /\ c \in held[t]
  /\ calls < MaxCalls
  /\ calls' = calls + 1
  /\ \/ call \in {"send", "shutdown"} /\ state_[c] = "kConnected"
     \/ call = "forceClose" /\ Closable(c)
  /\ tpc' = [tpc EXCEPT ![t] = [at |-> "tested", op |-> call, conn |-> c]]
  /\ UNCHANGED <<object, connVars, loop_, timers, queue, todo, held, late, aborted>>

\* setState(kDisconnecting).
ThreadStore(t) ==
  /\ aborted = "no"
  /\ tpc[t].at = "tested" /\ tpc[t].op # "send"
  /\ state_' = [state_ EXCEPT ![tpc[t].conn] = "kDisconnecting"]
  /\ tpc' = [tpc EXCEPT ![t].at = "stored"]
  /\ UNCHANGED <<object, reading_, outputBuffer_, events, added, finSent, loop_, timers,
                 queue, todo, held, late, calls, ups, downs, aborted>>

\* loop_->runInLoop of another thread, which asks neither whether the owner still
\* has the connection nor whether the loop is still there.
ThreadQueue(t, work, owned, there) ==
  /\ aborted = "no"
  /\ Asserts(there, "UseAfterFree")
  /\ queue' = IF there THEN Queued(loop_[work.conn], <<work>>) ELSE queue
  /\ late' = IF owned \/ work.op \in Owning THEN late ELSE late \union {work.conn}
  /\ tpc' = [tpc EXCEPT ![t] = Idle]
  /\ UNCHANGED <<object, connVars, loop_, timers, todo, held>>

ThreadSend(t, len, owned, there) ==
  /\ tpc[t].at = "tested" /\ tpc[t].op = "send"
  /\ ThreadQueue(t, Send(tpc[t].conn, len), owned, there)
  /\ UNCHANGED calls

ThreadShutdown(t, owned, there) ==
  /\ tpc[t].at = "stored" /\ tpc[t].op = "shutdown"
  /\ ThreadQueue(t, Do("shutdownInLoop", tpc[t].conn), owned, there)
  /\ UNCHANGED calls

ThreadForceClose(t, owned, there) ==
  /\ tpc[t].at = "stored" /\ tpc[t].op = "forceClose"
  /\ ThreadQueue(t, Do("forceCloseInLoop", tpc[t].conn), owned, there)
  /\ UNCHANGED calls

\* startRead and stopRead do not look at state_.
ThreadReadCall(t, c, op, owned, there) ==
  /\ tpc[t].at = "idle" /\ c \in held[t]
  /\ op \in {"startReadInLoop", "stopReadInLoop"}
  /\ calls < MaxCalls
  /\ calls' = calls + 1
  /\ ThreadQueue(t, Do(op, c), owned, there)

Waiting(l) == Range(queue[l]) \union Range(todo[l])

\* The thread lets go of the connection, whatever it has queued.
Drop(t, c) ==
  /\ aborted = "no"
  /\ tpc[t].at = "idle" /\ c \in held[t]
  /\ held' = [held EXCEPT ![t] = @ \ {c}]
  /\ UNCHANGED <<object, connVars, loop_, timers, queue, todo, tpc, late, calls, aborted>>

-----------------------------------------------------------------------------
(* Lifetime.                                                               *)

\* A shared pointer other than the owner's.
Shared(c) ==
  \/ \E t \in Threads : c \in held[t]
  \/ \E l \in Loops : \E w \in Waiting(l) : w.conn = c /\ w.op \in Owning

\* The weak callback of forceCloseWithDelay: forceClose() if the object is there.
TimerFires(l, c, owned) ==
  /\ aborted = "no"
  /\ todo[l] = <<>> /\ loop_[c] = l
  /\ c \in timers
  /\ timers' = timers \ {c}
  /\ IF (owned \/ Shared(c)) /\ Closable(c)
     THEN /\ state_' = [state_ EXCEPT ![c] = "kDisconnecting"]
          /\ queue' = Queued(l, <<Do("forceCloseInLoop", c)>>)
     ELSE UNCHANGED <<state_, queue>>
  /\ UNCHANGED <<object, reading_, outputBuffer_, events, added, finSent, loop_, todo,
                 threadVars, calls, ups, downs, aborted>>

\* TcpConnection::TcpConnection on loop l, and the functor that starts it.
MakeConnection(c, l) ==
  /\ object[c] = "no"
  /\ object' = [object EXCEPT ![c] = "live"]
  /\ loop_' = [loop_ EXCEPT ![c] = l]

\* The last shared pointer is gone.  A functor's goes with the batch it was in, so
\* that others of the batch may run before.  ~Channel asks its loop.
Destroy(c, owned, there) ==
  /\ aborted = "no"
  /\ object[c] = "live" /\ ~owned /\ ~Shared(c)
  /\ aborted' = IF state_[c] # "kDisconnected" THEN "TcpConnection.cc:46"
                ELSE IF added[c] THEN "Channel.cc:29"
                ELSE IF there THEN "no" ELSE "UseAfterFree"
  /\ object' = [object EXCEPT ![c] = IF aborted' = "no" THEN "freed" ELSE @]
  /\ UNCHANGED <<connVars, loop_, timers, queue, todo, threadVars, calls>>

\* A functor that captured "this" runs, and its connection is gone.
RunFreed(l) ==
  /\ aborted = "no"
  /\ todo[l] # <<>> /\ object[Head(todo[l]).conn] = "freed"
  /\ Asserts(FALSE, "UseAfterFree")
  /\ UNCHANGED <<object, connVars, loop_, timers, queue, todo, threadVars, calls>>

-----------------------------------------------------------------------------

ConnectionStep(l, c) ==
  \/ connectEstablished(l, c) \/ connectDestroyed(l, c) \/ channelRemove(l, c)
  \/ handleRead(l, c) \/ handleClose(l, c) \/ EventEnd(l, c)
  \/ \E n \in 0..outputBuffer_[c] : handleWrite(l, c, n)
  \/ \E len \in Lens, gone \in BOOLEAN : \E n \in 0..len : sendInLoop(l, c, n, gone)
  \/ SendDisconnected(l, c)
  \/ shutdownInLoop(l, c) \/ forceCloseInLoop(l, c)
  \/ startReadInLoop(l, c) \/ stopReadInLoop(l, c)
  \/ Notify(l, c) \/ UserReturns(l, c)

UserNext(l, c) ==
  \/ \E len \in Lens : UserSend(l, c, len)
  \/ UserShutdown(l, c) \/ UserForceClose(l, c) \/ UserForceCloseWithDelay(l, c)
  \/ \E call \in {"startRead", "stopRead"} : UserReadCall(l, c, call)
  \/ \E t \in Threads : HandOver(l, c, t)

\* Other threads as far as they may go: they send.
ThreadNext(t, c, owned, there) ==
  \/ ThreadTest(t, c, "send") \/ Drop(t, c)
  \/ tpc[t].conn = c /\ \E len \in Lens : ThreadSend(t, len, owned, there)

\* The calls of other threads that race the loop for state_ or for the channel.
RacingNext(t, c, owned, there) ==
  \/ \E call \in {"shutdown", "forceClose"} : ThreadTest(t, c, call)
  \/ /\ tpc[t].conn = c
     /\ ThreadStore(t) \/ ThreadShutdown(t, owned, there) \/ ThreadForceClose(t, owned, there)
  \/ \E op \in {"startReadInLoop", "stopReadInLoop"} : ThreadReadCall(t, c, op, owned, there)

-----------------------------------------------------------------------------
(* Properties.                                                             *)

\* While a connection is up, it asks for POLLOUT exactly when bytes are buffered:
\* no busy loop on an empty buffer, no bytes that wait for an event nobody asked for.
WritingIffBuffered ==
  \A c \in Conns :
    object[c] = "live" /\ state_[c] # "kDisconnected" =>
      ("write" \in events[c] <=> outputBuffer_[c] > 0)

\* shutdown() does not cut off bytes that send() buffered (TcpConnection.cc:135-140):
\* the write half is shut only when nothing is left to write, and nothing is
\* buffered after it was.
ShutdownAfterFlush == \A c \in Conns : finSent[c] => outputBuffer_[c] = 0

\* connectionCallback_ reports every connection up once, then down once, and
\* down at the latest before the object goes.
UpThenDown ==
  \A c \in Conns :
    /\ ups[c] <= 1 /\ downs[c] <= ups[c]
    /\ downs[c] = 1 <=> ups[c] = 1 /\ state_[c] = "kDisconnected"
    /\ object[c] = "freed" => downs[c] = 1
=============================================================================
