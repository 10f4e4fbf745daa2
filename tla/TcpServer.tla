----------------------------- MODULE TcpServer -----------------------------
(***************************************************************************)
(* dws::net::TcpServer: the owner of the connections.  It accepts on its   *)
(* own loop (base), hands each connection to the next loop of its pool     *)
(* (EventLoopThreadPool::getNextLoop; base itself if the pool is empty)    *)
(* and takes it out of connections_ when it was closed.                    *)
(***************************************************************************)
EXTENDS TcpConnection

CONSTANT MaxThreads    \* the largest pool

ASSUME ServerAssumption ==
  /\ MaxThreads \in Nat
  /\ Loops = 0..MaxThreads

base == 0        \* the loop the server accepts on; 1.. are those of the pool

VARIABLES
  numThreads_,   \* set by setThreadNum before start()
  connections_,  \* names stand for their connections
  next_,
  serverUp,      \* the destructor of the TcpServer has not begun
  ended,         \* the loops of the pool that are gone
  hasty          \* history: the server was deleted when it was not QuietEnough

serverVars == <<numThreads_, connections_, next_, serverUp, ended, hasty>>
allVars == <<vars, serverVars>>

ServerTypeOK ==
  /\ TypeOK
  /\ numThreads_ \in 0..MaxThreads
  /\ connections_ \subseteq Conns
  /\ next_ \in 0..(numThreads_ - 1) \union {0}
  /\ serverUp \in BOOLEAN /\ hasty \in BOOLEAN
  /\ ended \subseteq 1..numThreads_

Init ==
  /\ ConnectionInit
  /\ numThreads_ \in 0..MaxThreads
  /\ connections_ = {} /\ next_ = 0 /\ serverUp = TRUE
  /\ ended = {} /\ hasty = FALSE

-----------------------------------------------------------------------------

\* getNextLoop: the index after this call.
NextIndex == IF next_ + 1 < numThreads_ THEN next_ + 1 ELSE 0

getNextLoop == IF numThreads_ = 0 THEN base ELSE next_ + 1

\* runInLoop of work on loop l by the thread of loop "by".
RunInLoop(by, l, work) ==
  IF by = l
  THEN Now(l, work) /\ UNCHANGED queue
  ELSE queue' = Queued(l, work) /\ UNCHANGED todo

\* Called by Acceptor::handleRead on the base loop.
newConnection(c) ==
  /\ aborted = "no" /\ serverUp
  /\ todo[base] = <<>>
  /\ MakeConnection(c, getNextLoop)
  /\ connections_' = connections_ \union {c}
  /\ next_' = NextIndex
  /\ RunInLoop(base, getNextLoop, <<Do("connectEstablished", c)>>)
  /\ UNCHANGED <<connVars, timers, threadVars, calls, aborted, numThreads_, serverUp,
                 ended, hasty>>

\* closeCallback_ is removeConnection, which goes to the base loop.  A loop of the pool
\* still finds the server: the destructor waits for it.
removeConnection(l, c) ==
  /\ Runs(l, "closeCallback", c)
  /\ Asserts(serverUp \/ l # base, "UseAfterFree")
  /\ IF l = base
     THEN Then(l, <<Do("removeConnectionInLoop", c)>>) /\ UNCHANGED queue
     ELSE Then(l, <<>>) /\ queue' = Queued(base, <<Do("removeConnectionInLoop", c)>>)
  /\ UNCHANGED <<connVars, serverVars>>

\* The functor that takes the connection off its loop.
DestroyWork(c) == <<Do("connectDestroyed", c)>>

\* Mutant: runInLoop, which calls it at once on the loop's own thread.
RunDestroy(c) ==
  IF loop_[c] = base
  THEN Then(base, DestroyWork(c)) /\ UNCHANGED queue
  ELSE queue' = Queued(loop_[c], DestroyWork(c)) /\ Then(base, <<>>)

\* ioLoop->queueInLoop.
QueueDestroy(c) == queue' = Queued(loop_[c], DestroyWork(c)) /\ Then(base, <<>>)

removeConnectionInLoop(c) ==
  /\ Runs(base, "removeConnectionInLoop", c)
  /\ IF serverUp THEN Asserts(c \in connections_, "TcpServer.cc:80")
     ELSE Asserts(FALSE, "UseAfterFree")
  /\ connections_' = connections_ \ {c}
  /\ QueueDestroy(c)
  /\ UNCHANGED <<connVars, numThreads_, next_, serverUp, ended, hasty>>

\* When deleting the server does no harm.  connectDestroyed disables the channel only of
\* a connection that is connected (TcpConnection.cc:217), a close under way ends in the
\* server, functors that capture "this" are left behind, and the loops of a pool end
\* with what is queued on them.
QuietEnough ==
  /\ todo[base] = <<>>
  /\ \A c \in connections_ : state_[c] = "kConnected"
  /\ \A w \in Range(queue[base]) : w.op \in Raw => w.conn \notin connections_
  /\ numThreads_ > 0 => \A c \in Conns : object[c] # "live"

\* connectDestroyed of every connection of S, in some order.
DestroyAll(S) ==
  {[i \in DOMAIN order |-> Do("connectDestroyed", order[i])] : order \in SetToSeqs(S)}

\* ~TcpServer on the base loop, in a callback or outside: every connection is destroyed
\* at once if that is its loop, and by a functor on a loop of the pool.
DeleteServer ==
  /\ aborted = "no" /\ serverUp
  /\ todo[base] # <<>> => Head(todo[base]).op = "user"
  /\ IF numThreads_ = 0
     THEN /\ \E work \in DestroyAll(connections_) : Now(base, work)
          /\ UNCHANGED queue
     ELSE /\ \E work \in [Loops -> UNION {DestroyAll(S) : S \in SUBSET connections_}] :
               /\ \A l \in Loops : work[l] \in DestroyAll({c \in connections_ : loop_[c] = l})
               /\ queue' = [l \in Loops |-> queue[l] \o work[l]]
          /\ UNCHANGED todo
  /\ connections_' = {}
  /\ serverUp' = FALSE
  /\ hasty' = ~QuietEnough
  /\ UNCHANGED <<object, connVars, loop_, timers, threadVars, calls, aborted,
                 numThreads_, next_, ended>>

\* The destructor goes on with the pool: it quits each loop and joins its thread, whose
\* iteration ends; functors that are queued then are thrown away.
Joining == ~serverUp /\ 1..numThreads_ # ended

EndLoop(l) ==
  /\ aborted = "no" /\ Joining
  /\ l \in 1..numThreads_ \ ended
  /\ todo[l] = <<>>
  /\ ended' = ended \union {l}
  /\ queue' = [queue EXCEPT ![l] = <<>>]
  /\ UNCHANGED <<object, connVars, loop_, timers, todo, threadVars, calls, aborted,
                 numThreads_, connections_, next_, serverUp, hasty>>

-----------------------------------------------------------------------------

\* The loop that joins the pool does nothing else.
Functor(l) == RunFunctor(l) /\ ~(l = base /\ Joining) /\ UNCHANGED serverVars

LoopStep(l) ==
  \/ Functor(l)
  \/ RunFreed(l) /\ UNCHANGED serverVars
  \/ \E c \in Conns :
       \/ ConnectionStep(l, c) /\ UNCHANGED serverVars
       \/ removeConnection(l, c)
       \/ l = base /\ removeConnectionInLoop(c)

LetGo ==
  \E c \in Conns : Destroy(c, c \in connections_, loop_[c] \notin ended) /\ UNCHANGED serverVars

Events == {r \in SUBSET {"hup", "read", "write"} : r # {}}

EnvironmentStep ==
  \/ \E l \in Loops \ ended, c \in Conns :
       \/ \E revents \in Events : HandleEvent(l, c, revents)
       \/ UserNext(l, c)
       \/ TimerFires(l, c, c \in connections_)
  \/ \E t \in Threads, c \in Conns :
       ThreadNext(t, c, c \in connections_, loop_[c] \notin ended)

RacingStep ==
  \E t \in Threads, c \in Conns :
    RacingNext(t, c, c \in connections_, loop_[c] \notin ended)

Next ==
  \/ \E l \in Loops : LoopStep(l)
  \/ LetGo
  \/ EnvironmentStep /\ UNCHANGED serverVars
  \/ \E c \in Conns : newConnection(c)
  \/ DeleteServer
  \/ \E l \in Loops : EndLoop(l)

Spec == Init /\ [][Next]_allVars

\* With every call other threads can make.
RacingSpec == Init /\ [][Next \/ (RacingStep /\ UNCHANGED serverVars)]_allVars

ThreadSends(t, c) ==
  /\ tpc[t].conn = c
  /\ \E len \in Lens : ThreadSend(t, len, c \in connections_, loop_[c] \notin ended)
  /\ UNCHANGED serverVars

\* Each loop thread runs: what it is doing goes on, and every iteration ends with
\* the queued functors, however many events there are.  Timers fire, threads
\* finish their calls and let go of connections that are down.  The last two: poll
\* reports that a socket is writable, and some time a write takes all that is left.
FairSpec ==
  /\ Spec
  /\ \A l \in Loops :
       /\ WF_allVars(LoopStep(l))
       /\ SF_allVars(Functor(l))
  /\ WF_allVars(LetGo)
  /\ \A t \in Threads, c \in Conns : WF_allVars(ThreadSends(t, c))
  /\ \A c \in Conns :
       /\ \A t \in Threads :
            SF_allVars(state_[c] = "kDisconnected" /\ Drop(t, c) /\ UNCHANGED serverVars)
       /\ SF_allVars((\E l \in Loops : TimerFires(l, c, c \in connections_))
                     /\ UNCHANGED serverVars)
       /\ SF_allVars((\E l \in Loops : HandleEvent(l, c, {"write"})) /\ UNCHANGED serverVars)
       /\ SF_allVars((\E l \in Loops : outputBuffer_[c] > 0 /\ handleWrite(l, c, outputBuffer_[c]))
                     /\ UNCHANGED serverVars)

-----------------------------------------------------------------------------
(* Properties.                                                             *)

\* No assert of TcpConnection.cc, Channel.cc and TcpServer.cc fails and nothing that is
\* gone is used, with two exceptions, which the code leaves to its users: the server was
\* deleted when it was not QuietEnough, or a thread called send() after the server had let
\* go of the connection, so that its functor finds the connection freed.
NoAssertFails ==
  \/ aborted = "no"
  \/ aborted = "UseAfterFree" /\ \E c \in late : object[c] = "freed"
  \/ hasty

\* A functor that captured "this", queued by the loop of the connection or, while the
\* server has the connection, by another thread, finds its connection alive, whatever
\* threads then do with their pointers.
NoDanglingFunctor ==
  \A l \in Loops : \A w \in Waiting(l) :
    w.op \in Raw /\ object[w.conn] # "live" => w.conn \in late \/ hasty

\* A connection that is down is destroyed, so that its descriptor is closed.
ClosedIsFreed ==
  \A c \in Conns : (state_[c] = "kDisconnected") ~> (object[c] = "freed" \/ hasty)

\* A connection that is being shut down has its write half shut or goes down,
\* also when bytes were buffered at the time of the call.
ShutdownCompletes ==
  \A c \in Conns :
    (state_[c] = "kDisconnecting") ~> (finSent[c] \/ state_[c] = "kDisconnected" \/ hasty)

\* assert(n == 1), TcpServer.cc:80.
RemovedOnce == aborted # "TcpServer.cc:80"
=============================================================================
