------------------------------ MODULE Connector ------------------------------
(***************************************************************************)
(* dws::net::Connector: attempts to connect, retries with a growing delay, *)
(* stop() and restart(), on the loop thread and as called from another     *)
(* one.  The loop is kept to what the order of the handlers depends on:    *)
(* the events of one poll, then the batch of functors queued before, with  *)
(* those queued meanwhile left for the next iteration.                     *)
(*                                                                         *)
(* The owner is TcpClient: any thread calls its connect() and stop(), at   *)
(* any time and however often, and the loop thread restarts the connector  *)
(* when the connection is gone, unless the client was stopped.  A failed   *)
(* assert ends the process.                                                *)
(***************************************************************************)
EXTENDS Naturals, Sequences, FiniteSets

CONSTANTS
  Fds,                \* descriptors createNonblockingOrDie may return
  kInitRetryDelayMs,
  kMaxRetryDelayMs,
  MaxPending,         \* bound: functors queued by start() and stop()
  MaxAttempts         \* bound: attempts that start() may add to

ASSUME ConnectorAssumption ==
  /\ Fds \subseteq Nat \ {0}
  /\ kInitRetryDelayMs \in Nat \ {0}
  /\ kMaxRetryDelayMs \in Nat /\ kMaxRetryDelayMs >= kInitRetryDelayMs
  /\ MaxPending \in Nat /\ MaxAttempts \in Nat

VARIABLES
  connect_,
  state_,
  channel_,         \* [fd, added]: its socket, and whether the poller has it
  retryDelayMs_,
  timers,           \* retry timers set
  lpc,              \* the loop thread: in poll, handling events, running functors
  active,           \* what poll returned and is not handled yet
  pending,          \* pendingFunctors_ of the loop
  batch,            \* the functors taken from it in this iteration
  due,              \* the loop thread is about to enter startInLoop
  opc,              \* another thread: between the store to connect_ and the queueing
  wanted,           \* connect_ of the TcpClient
  restarting,       \* the loop thread has read wanted and is about to call restart()
  socket,           \* who has each descriptor
  conn,             \* the descriptor of the owner's connection while that is up
  gaveUp,           \* history: since start(), connect() met an errno that is not retried
  hasty,            \* history: start() was called before the one before it was over
  overtaken,        \* history: restart() stored connect_ after the last stop()
  aborted           \* the failed assert, or "no"

attemptVars == <<state_, channel_, retryDelayMs_, timers, socket, gaveUp, aborted>>
loopVars == <<lpc, active, batch>>
calls == <<wanted, hasty, overtaken>>
vars == <<connect_, attemptVars, loopVars, pending, due, opc, calls, restarting, conn>>

NoChannel == [fd |-> 0, added |-> FALSE]
NoConn == 0
Functors == {"startInLoop", "stopInLoop", "resetChannel", "forceCloseInLoop"}

TypeOK ==
  /\ connect_ \in BOOLEAN
  /\ state_ \in {"kDisconnected", "kConnecting", "kConnected"}
  /\ channel_ \in [fd : Fds, added : BOOLEAN] \union {NoChannel}
  /\ retryDelayMs_ \in kInitRetryDelayMs..kMaxRetryDelayMs
  /\ timers \in Nat
  /\ lpc \in {"poll", "handle", "run"}
  /\ active \subseteq {"channel", "timer", "peer"}
  /\ pending \in Seq(Functors) /\ batch \in Seq(Functors)
  /\ due \in BOOLEAN
  /\ opc \in {"idle", "startInLoop", "stopInLoop"}
  /\ wanted \in BOOLEAN /\ restarting \in BOOLEAN
  /\ socket \in [Fds -> {"closed", "connector", "owner"}]
  /\ conn \in Fds \union {NoConn}
  /\ gaveUp \in BOOLEAN /\ hasty \in BOOLEAN /\ overtaken \in BOOLEAN
  /\ aborted \in {"no", "Connector.cc:35", "Connector.cc:105"}

Init ==
  /\ connect_ = FALSE /\ state_ = "kDisconnected"
  /\ channel_ = NoChannel
  /\ retryDelayMs_ = kInitRetryDelayMs
  /\ timers = 0
  /\ lpc = "poll" /\ active = {} /\ pending = <<>> /\ batch = <<>> /\ due = FALSE
  /\ opc = "idle" /\ wanted = TRUE /\ restarting = FALSE
  /\ socket = [fd \in Fds |-> "closed"]
  /\ conn = NoConn
  /\ gaveUp = FALSE /\ hasty = FALSE /\ overtaken = FALSE /\ aborted = "no"

\* Code runs on the loop thread and is not inside a call of startInLoop or restart.
InHandler == aborted = "no" /\ ~due /\ ~restarting /\ lpc # "poll"

Count(q, f) == Cardinality({i \in DOMAIN q : q[i] = f})

\* What may lead to, or is, an attempt or a connection.
Attempts ==
  Count(pending, "startInLoop") + Count(batch, "startInLoop") + timers
    + (IF opc = "startInLoop" THEN 1 ELSE 0)
    + (IF due THEN 1 ELSE 0)
    + (IF state_ # "kDisconnected" THEN 1 ELSE 0)

\* Nothing of an earlier start() or stop() is left.
AtRest ==
  /\ Attempts = 0 /\ channel_ = NoChannel
  /\ opc # "stopInLoop"
  /\ Count(pending, "stopInLoop") = 0 /\ Count(batch, "stopInLoop") = 0

-----------------------------------------------------------------------------
(* Calls.  connect() and stop() of the client, by another thread: the two  *)
(* flags, of which the first is read only where the connection goes, are   *)
(* stored, then the functor is queued.                                     *)

\* The stores of connect() and start().
AskToConnect ==
  /\ Len(pending) < MaxPending /\ Attempts < MaxAttempts
  /\ wanted' = TRUE /\ connect_' = TRUE
  /\ gaveUp' = FALSE
  /\ hasty' = (hasty \/ ~AtRest) /\ overtaken' = FALSE

Start ==
  /\ aborted = "no" /\ opc = "idle"
  /\ AskToConnect
  /\ opc' = "startInLoop"
  /\ UNCHANGED <<state_, channel_, retryDelayMs_, timers, socket, aborted, loopVars, pending,
                 due, restarting, conn>>

\* The stores of both stop().
AskToStop ==
  /\ Len(pending) < MaxPending
  /\ wanted' = FALSE /\ connect_' = FALSE
  /\ overtaken' = FALSE /\ UNCHANGED hasty

Stop ==
  /\ aborted = "no" /\ opc = "idle"
  /\ AskToStop
  /\ opc' = "stopInLoop"
  /\ UNCHANGED <<attemptVars, loopVars, pending, due, restarting, conn>>

QueueCall ==
  /\ aborted = "no" /\ opc # "idle"
  /\ pending' = Append(pending, opc)
  /\ opc' = "idle"
  /\ UNCHANGED <<connect_, attemptVars, loopVars, due, calls, restarting, conn>>

\* start() on the loop thread: runInLoop calls startInLoop.
StartHere ==
  /\ InHandler
  /\ AskToConnect
  /\ due' = TRUE
  /\ UNCHANGED <<state_, channel_, retryDelayMs_, timers, socket, aborted, loopVars, pending,
                 opc, restarting, conn>>

StopHere ==
  /\ InHandler
  /\ AskToStop
  /\ pending' = Append(pending, "stopInLoop")
  /\ UNCHANGED <<attemptVars, loopVars, due, opc, restarting, conn>>

\* Any thread closes the connection; the rest is the functor's.  A second functor
\* for the same connection would do nothing and is left out.
ForceClose ==
  /\ aborted = "no" /\ conn # NoConn
  /\ \A i \in DOMAIN pending : pending[i] # "forceCloseInLoop"
  /\ \A i \in DOMAIN batch : batch[i] # "forceCloseInLoop"
  /\ pending' = Append(pending, "forceCloseInLoop")
  /\ UNCHANGED <<connect_, attemptVars, loopVars, due, opc, calls, restarting, conn>>

\* A connection that is gone frees its descriptor when its last pointer goes.
OwnerCloses(fd) ==
  /\ aborted = "no" /\ socket[fd] = "owner" /\ fd # conn
  /\ socket' = [socket EXCEPT ![fd] = "closed"]
  /\ UNCHANGED <<connect_, state_, channel_, retryDelayMs_, timers, gaveUp, aborted, loopVars,
                 pending, due, opc, calls, restarting, conn>>

-----------------------------------------------------------------------------
(* The attempt.                                                            *)

Doubled(ms) == IF 2 * ms < kMaxRetryDelayMs THEN 2 * ms ELSE kMaxRetryDelayMs

\* Mutant: the state of the failed attempt is kept.
RetryKeepsState ==
  /\ timers' = IF connect_ THEN timers + 1 ELSE timers
  /\ retryDelayMs_' = IF connect_ THEN Doubled(retryDelayMs_) ELSE retryDelayMs_
  /\ UNCHANGED state_

\* retry() after the close.
Retry ==
  /\ state_' = "kDisconnected"
  /\ timers' = IF connect_ THEN timers + 1 ELSE timers
  /\ retryDelayMs_' = IF connect_ THEN Doubled(retryDelayMs_) ELSE retryDelayMs_

\* connecting(): in progress, or done at once.
Connecting(fd) ==
  /\ state_' = "kConnecting"
  /\ socket' = [socket EXCEPT ![fd] = "connector"]
  /\ IF channel_ # NoChannel
     THEN aborted' = "Connector.cc:105" /\ UNCHANGED channel_
     ELSE channel_' = [fd |-> fd, added |-> TRUE] /\ UNCHANGED aborted
  /\ UNCHANGED <<retryDelayMs_, timers, gaveUp>>

\* connect(), by the class of its errno: the last two close the new socket.
Connect ==
  \/ \E fd \in Fds : socket[fd] = "closed" /\ Connecting(fd)
  \/ Retry /\ UNCHANGED <<channel_, socket, gaveUp, aborted>>
  \/ gaveUp' = TRUE /\ UNCHANGED <<state_, channel_, retryDelayMs_, timers, socket, aborted>>

\* Mutant: startInLoop connects in any case.
Always == TRUE

\* What startInLoop asks before it connects.
Wanted == connect_

StartInLoop ==
  /\ aborted = "no" /\ due
  /\ due' = FALSE
  /\ IF state_ # "kDisconnected"
     THEN /\ aborted' = "Connector.cc:35"
          /\ UNCHANGED <<state_, channel_, retryDelayMs_, timers, socket, gaveUp>>
     ELSE IF Wanted THEN Connect ELSE UNCHANGED attemptVars
  /\ UNCHANGED <<connect_, loopVars, pending, opc, calls, restarting, conn>>

RemoveAndResetChannel ==
  /\ channel_' = [channel_ EXCEPT !.added = FALSE]
  /\ pending' = Append(pending, "resetChannel")

\* Mutant: the socket of an attempt that ended stays open.
NotClosed == socket

\* The socket an attempt ends with is closed.
Closed == [socket EXCEPT ![channel_.fd] = "closed"]

-----------------------------------------------------------------------------
(* Events of one iteration.                                                *)

Ready ==
  (IF channel_.added THEN {"channel"} ELSE {})
    \union (IF timers > 0 THEN {"timer"} ELSE {})
    \union (IF conn # NoConn THEN {"peer"} ELSE {})

Poll(ready) ==
  /\ aborted = "no" /\ lpc = "poll"
  /\ lpc' = "handle"
  /\ active' = ready
  /\ UNCHANGED <<connect_, attemptVars, batch, pending, due, opc, calls, restarting, conn>>

Handle(event) ==
  /\ InHandler /\ lpc = "handle" /\ event \in active
  /\ active' = active \ {event}
  /\ UNCHANGED <<lpc, batch, opc, calls>>

\* handleError, or handleWrite that finds SO_ERROR set or the socket connected to
\* itself.  When poll reports both an error and POLLOUT, handleWrite comes second
\* and finds kDisconnected, as its assert says.
AttemptFails ==
  /\ Handle("channel") /\ state_ = "kConnecting"
  /\ RemoveAndResetChannel
  /\ socket' = Closed
  /\ Retry
  /\ UNCHANGED <<connect_, due, restarting, conn, gaveUp, aborted>>

\* handleWrite of a socket that is connected.
AttemptSucceeds ==
  /\ Handle("channel") /\ state_ = "kConnecting"
  /\ RemoveAndResetChannel
  /\ state_' = "kConnected"
  /\ IF connect_
     THEN /\ socket' = [socket EXCEPT ![channel_.fd] = "owner"]
          /\ conn' = channel_.fd
     ELSE socket' = Closed /\ UNCHANGED conn
  /\ UNCHANGED <<connect_, due, restarting, retryDelayMs_, timers, gaveUp, aborted>>

\* A retry timer calls startInLoop.
HandleTimer ==
  /\ Handle("timer")
  /\ timers' = timers - 1
  /\ due' = TRUE
  /\ UNCHANGED <<connect_, state_, channel_, retryDelayMs_, socket, gaveUp, aborted, pending,
                 restarting, conn>>

\* The owner drops a connection that went down and goes on to restart the connector,
\* unless it was stopped or is not to reconnect.  The descriptor stays with the
\* connection (OwnerCloses): what TcpClient queues to destroy it is not the
\* connector's concern.
ConnectionGone ==
  /\ conn' = NoConn
  /\ restarting' \in BOOLEAN /\ (restarting' => wanted)
  /\ UNCHANGED <<connect_, attemptVars, due>>

\* Mutant: restart() keeps the state of the connection that is gone.
KeepConnected == state_

\* The state restart() starts from.
Restarted == "kDisconnected"

\* restart() up to its call of startInLoop: a stop() since the client read its flag is
\* undone.
Restart ==
  /\ aborted = "no" /\ restarting
  /\ restarting' = FALSE
  /\ state_' = Restarted
  /\ retryDelayMs_' = kInitRetryDelayMs
  /\ connect_' = TRUE
  /\ overtaken' = ~wanted
  /\ due' = TRUE
  /\ UNCHANGED <<channel_, timers, socket, gaveUp, aborted, loopVars, pending, opc, wanted, hasty,
                 conn>>

HandlePeer ==
  /\ Handle("peer")
  /\ ConnectionGone
  /\ UNCHANGED pending

EndEvents ==
  /\ InHandler /\ lpc = "handle" /\ active = {}
  /\ lpc' = "run"
  /\ batch' = pending /\ pending' = <<>>
  /\ UNCHANGED <<connect_, attemptVars, active, due, opc, calls, restarting, conn>>

-----------------------------------------------------------------------------
(* Functors.                                                               *)

Run(functor) ==
  /\ InHandler /\ lpc = "run" /\ batch # <<>> /\ Head(batch) = functor
  /\ batch' = Tail(batch)
  /\ UNCHANGED <<lpc, active, opc, calls>>

RunStartInLoop ==
  /\ Run("startInLoop")
  /\ due' = TRUE
  /\ UNCHANGED <<connect_, attemptVars, pending, restarting, conn>>

RunStopInLoop ==
  /\ Run("stopInLoop")
  /\ IF state_ = "kConnecting"
     THEN RemoveAndResetChannel /\ socket' = Closed /\ Retry
     ELSE UNCHANGED <<pending, channel_, socket, state_, timers, retryDelayMs_>>
  /\ UNCHANGED <<connect_, due, restarting, conn, gaveUp, aborted>>

RunResetChannel ==
  /\ Run("resetChannel")
  /\ channel_' = NoChannel
  /\ UNCHANGED <<connect_, state_, retryDelayMs_, timers, socket, gaveUp, aborted, pending, due,
                 restarting, conn>>

RunForceClose ==
  /\ Run("forceCloseInLoop")
  /\ IF conn # NoConn THEN ConnectionGone
     ELSE UNCHANGED <<connect_, attemptVars, due, restarting, conn>>
  /\ UNCHANGED pending

EndFunctors ==
  /\ InHandler /\ lpc = "run" /\ batch = <<>>
  /\ lpc' = "poll"
  /\ UNCHANGED <<connect_, attemptVars, active, batch, pending, due, opc, calls, restarting, conn>>

-----------------------------------------------------------------------------

CallNext ==
  \/ Start \/ Stop \/ QueueCall \/ StartHere \/ StopHere \/ ForceClose
  \/ \E fd \in Fds : OwnerCloses(fd)

LoopStep ==
  \/ \E ready \in SUBSET Ready : Poll(ready)
  \/ StartInLoop \/ AttemptFails \/ AttemptSucceeds \/ HandleTimer \/ HandlePeer \/ Restart \/ EndEvents
  \/ RunStartInLoop \/ RunStopInLoop \/ RunResetChannel \/ RunForceClose \/ EndFunctors

\* abort() has ended the process.
Ended == aborted # "no" /\ UNCHANGED vars

Next == CallNext \/ LoopStep \/ Ended

Spec == Init /\ [][Next]_vars

\* A timer that stays set expires.
PollTimer == \E ready \in SUBSET Ready : "timer" \in ready /\ Poll(ready)

\* The loop thread keeps running, a call another thread has begun is finished and
\* timers expire.  No attempt has to succeed or to fail.
FairSpec == Spec /\ WF_vars(LoopStep) /\ WF_vars(QueueCall) /\ SF_vars(PollTimer)

-----------------------------------------------------------------------------
(* Properties.                                                             *)

\* The asserts of startInLoop and connecting (Connector.cc:35,105).  A start finds the
\* connector disconnected unless connect() was called before the start() or stop() before
\* it was over; it finds the channel of the attempt before reset unless, besides, a
\* restart() undid the last stop(), whose functor then ends an attempt that is wanted.
NoAssertFails ==
  /\ aborted = "Connector.cc:35" => hasty
  /\ aborted = "Connector.cc:105" => hasty \/ overtaken

\* The one descriptor the connector has is that of the attempt that is on, and the
\* poller watches it: none leaks, none is closed under the poller, and the state
\* tests of handleWrite and handleError (Connector.cc:124,148) never drop an event.
AttemptOwnsSocket ==
  aborted = "no" =>
    /\ {fd \in Fds : socket[fd] = "connector"} =
         IF state_ = "kConnecting" THEN {channel_.fd} ELSE {}
    /\ channel_.added <=> state_ = "kConnecting"
    /\ "channel" \in active => channel_.added

\* However retries, stop() and restart() interleave, and with each start() that waits
\* until the one before is over, there is one attempt at a time (retry(),
\* Connector.cc:156, and startInLoop) and, while connect_ is set and no errno was
\* final, there is one: the connector neither runs two nor falls asleep.
OneAttempt ==
  ~hasty =>
    /\ Attempts <= 1
    /\ connect_ /\ ~gaveUp => Attempts = 1

\* stop() (Connector.cc:43) ends the attempt and the retries, also when it comes
\* while a retry timer is set or its functor is still queued behind others, and
\* however often connect() was called before.  It fails only where the loop thread
\* restarts the connector between its test of the client's flag (TcpClient.cc:114) and
\* its own store (Connector.cc:99): nothing else sets connect_ of a stopped client.
StopTakesEffect ==
  /\ ~wanted ~> \/ wanted \/ overtaken \/ aborted # "no"
                \/ state_ # "kConnecting" /\ timers = 0 /\ ~due
  /\ [](connect_ /\ ~wanted => overtaken)
=============================================================================
