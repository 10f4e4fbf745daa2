--------------------------- MODULE ConnectorProofs ---------------------------
(***************************************************************************)
(* Safety of Connector for every set of descriptors and any retry delays,  *)
(* however the handlers, the functors and the calls of other threads are   *)
(* ordered.  In three layers: an attempt owns its socket whatever the      *)
(* callers do; there is one attempt at a time as long as no start() comes  *)
(* before the one before it is over; and the asserts of startInLoop and    *)
(* connecting hold if, besides, no restart() undoes a stop().              *)
(***************************************************************************)
EXTENDS Connector, FiniteSetTheorems, SequenceTheorems, TLAPS

-----------------------------------------------------------------------------
(* The inductive invariant.                                                *)

\* An attempt has ended and its channel object waits for resetChannel.
Dead == channel_ # NoChannel /\ ~channel_.added

\* In a queue, no connection is closed before the dead channel is reset.
ResetFirst(q) ==
  \A i, j \in DOMAIN q : q[i] = "resetChannel" /\ q[j] = "forceCloseInLoop" => i < j

\* Events are handled between poll and the functors.
Phases ==
  /\ lpc # "handle" => active = {}
  /\ lpc # "run" => batch = <<>>

\* What poll reported is still so when it is handled.
EventsHold ==
  /\ "timer" \in active => timers > 0
  /\ "peer" \in active => conn # NoConn
  /\ conn # NoConn => state_ = "kConnected"

\* A forceClose that is still queued when the next attempt is on does not reach the
\* connection of that attempt.
ForceCloses ==
  /\ Count(batch, "forceCloseInLoop") > 0 => Count(pending, "forceCloseInLoop") = 0
  /\ "channel" \in active => Count(pending, "forceCloseInLoop") = 0
  /\ conn = NoConn /\ lpc # "handle" => Count(pending, "forceCloseInLoop") = 0

\* There is a resetChannel for a dead channel, and none otherwise.
Resets ==
  Count(pending, "resetChannel") + Count(batch, "resetChannel") = IF Dead THEN 1 ELSE 0

\* The connector is restarted when a connection is gone, within a handler.
Restarts ==
  restarting => state_ = "kConnected" /\ conn = NoConn /\ ~due /\ lpc # "poll"

\* The two flags: they differ only before the first start() and after a restart()
\* that undid a stop().
Flags ==
  /\ connect_ /\ ~wanted => overtaken
  /\ overtaken => ~wanted /\ ~restarting
  /\ (conn # NoConn \/ restarting) /\ wanted => connect_

\* What holds whatever the callers do.
SocketInv ==
  /\ TypeOK /\ Phases /\ Flags /\ AttemptOwnsSocket
  /\ aborted = "no" => EventsHold /\ ForceCloses /\ Resets /\ Restarts

\* What holds while each start() waits until the one before is over.
AttemptInv == OneAttempt /\ (~hasty => aborted # "Connector.cc:35")

\* After stop() the connector is not wanted any more.
StopMeant ==
  \/ opc = "stopInLoop" \/ Count(pending, "stopInLoop") > 0 \/ Count(batch, "stopInLoop") > 0
  => ~connect_

\* While the connector is wanted nothing starts an attempt before the channel of the
\* one before is reset, within the same iteration of the loop.
ResetInTime ==
  /\ Dead /\ connect_ =>
       /\ ~due
       /\ timers > 0 \/ state_ = "kConnected"
       /\ \/ /\ lpc = "handle" /\ "timer" \notin active /\ "peer" \notin active
             /\ Count(pending, "resetChannel") > 0 /\ ResetFirst(pending)
          \/ /\ lpc = "run"
             /\ Count(batch, "resetChannel") > 0 /\ ResetFirst(batch)
  /\ restarting => ~Dead

\* What holds while, besides, no restart() has undone the last stop().
ResetInv == ~hasty /\ ~overtaken => aborted = "no" /\ StopMeant /\ ResetInTime

ConnectorInv == SocketInv /\ AttemptInv /\ ResetInv

-----------------------------------------------------------------------------
(* How the counts of functors and their order change.                      *)

\* An empty queue has nothing, and a functor that is not there counts none.
LEMMA CountFacts ==
  ASSUME NEW q \in Seq(Functors), NEW f
  PROVE  /\ Count(q, f) \in Nat
         /\ Count(<<>>, f) = 0
         /\ Count(q, f) = 0 <=> \A i \in DOMAIN q : q[i] # f
<1> DEFINE S == {i \in DOMAIN q : q[i] = f}
<1>1. DOMAIN q = 1..Len(q) /\ Len(q) \in Nat
  OBVIOUS
<1>2. IsFiniteSet(S)
  <2>1. IsFiniteSet(1..Len(q))
    BY <1>1, FS_Interval
  <2>2. S \subseteq 1..Len(q)
    BY <1>1
  <2> HIDE DEF S
  <2> QED BY <2>1, <2>2, FS_Subset
<1>3. Cardinality(S) \in Nat /\ (Cardinality(S) = 0 <=> S = {})
  BY <1>2, FS_CardinalityType, FS_EmptySet
<1>4. {i \in DOMAIN <<>> : <<>>[i] = f} = {}
  OBVIOUS
<1> QED BY <1>3, <1>4, FS_EmptySet DEF Count

\* Appending a functor adds one to its count.
LEMMA CountAppend ==
  ASSUME NEW q \in Seq(Functors), NEW e \in Functors, NEW f
  PROVE  Count(Append(q, e), f) = Count(q, f) + (IF e = f THEN 1 ELSE 0)
<1> DEFINE S == {i \in DOMAIN q : q[i] = f}
           r == Append(q, e)
           R == {i \in DOMAIN r : r[i] = f}
           n == Len(q) + 1
<1>1. /\ DOMAIN q = 1..Len(q) /\ Len(q) \in Nat /\ n \notin DOMAIN q
      /\ DOMAIN r = 1..n /\ r[n] = e /\ \A i \in 1..Len(q) : r[i] = q[i]
  BY AppendProperties
<1>2. R = IF e = f THEN S \union {n} ELSE S
  BY <1>1
<1>3. IsFiniteSet(S) /\ n \notin S
  <2>1. IsFiniteSet(1..Len(q)) /\ S \subseteq 1..Len(q)
    BY <1>1, FS_Interval
  <2> HIDE DEF S
  <2> QED BY <1>1, <2>1, FS_Subset
<1>4. Cardinality(S) \in Nat
  BY <1>3, FS_CardinalityType
<1>5. Cardinality(S \union {n}) = Cardinality(S) + 1
  BY <1>3, FS_AddElement
<1>6. Count(q, f) = Cardinality(S) /\ Count(r, f) = Cardinality(R)
  BY DEF Count
<1> HIDE DEF S, R
<1> QED BY <1>2, <1>4, <1>5, <1>6

\* Taking the first functor subtracts one from its count.
LEMMA CountTail ==
  ASSUME NEW q \in Seq(Functors), q # <<>>, NEW f
  PROVE  Count(q, f) = Count(Tail(q), f) + (IF Head(q) = f THEN 1 ELSE 0)
<1> DEFINE r == Tail(q)
           S == {i \in DOMAIN q : q[i] = f}
           R == {i \in DOMAIN r : r[i] = f}
           M == S \ {1}
           g == [i \in R |-> i + 1]
<1>1. /\ DOMAIN q = 1..Len(q) /\ Len(q) \in Nat /\ 1 \in DOMAIN q /\ Head(q) = q[1]
      /\ r \in Seq(Functors) /\ Len(r) = Len(q) - 1
      /\ DOMAIN r = 1..(Len(q) - 1) /\ \A i \in 1..(Len(q) - 1) : r[i] = q[i + 1]
  BY HeadTailProperties, LenProperties
<1>2. IsFiniteSet(S) /\ IsFiniteSet(R)
  <2>1. IsFiniteSet(1..Len(q)) /\ S \subseteq 1..Len(q)
    BY <1>1, FS_Interval
  <2>2. R \subseteq 1..Len(q)
    BY <1>1
  <2> HIDE DEF S, R
  <2> QED BY <2>1, <2>2, FS_Subset
<1>3. g \in Bijection(R, M)
  <2>1. ASSUME NEW i \in R PROVE i + 1 \in M
    BY <1>1
  <2>2. ASSUME NEW i \in M PROVE i - 1 \in R /\ i = (i - 1) + 1
    BY <1>1
  <2>3. g \in [R -> M]
    BY <2>1
  <2>4. \A a, b \in R : g[a] = g[b] => a = b
    BY <1>1
  <2>5. \A t \in M : \E s \in R : g[s] = t
    BY <2>2
  <2> QED BY <2>3, <2>4, <2>5 DEF Bijection, Injection, Surjection, IsInjective
<1>4. Cardinality(R) = Cardinality(M)
  <2>1. ExistsBijection(R, M)
    BY <1>3 DEF ExistsBijection
  <2> HIDE DEF R, M
  <2> QED BY <1>2, <2>1, FS_Bijection
<1>5. 1 \in S <=> Head(q) = f
  BY <1>1
<1>6. Cardinality(S) \in Nat /\ Cardinality(M) = IF 1 \in S THEN Cardinality(S) - 1 ELSE Cardinality(S)
  <2> HIDE DEF S
  <2> QED BY <1>2, FS_CardinalityType, FS_RemoveElement
<1>7. Count(q, f) = Cardinality(S) /\ Count(r, f) = Cardinality(R)
  BY DEF Count
<1> HIDE DEF S, R, M
<1> QED BY <1>4, <1>5, <1>6, <1>7

\* The order that ResetFirst asks for is kept by appending and by taking.
LEMMA ResetFirstFacts ==
  ASSUME NEW q \in Seq(Functors)
  PROVE  /\ Count(q, "forceCloseInLoop") = 0 => ResetFirst(Append(q, "resetChannel"))
         /\ \A e \in Functors \ {"resetChannel"} : ResetFirst(q) => ResetFirst(Append(q, e))
         /\ q # <<>> /\ ResetFirst(q) => ResetFirst(Tail(q))
         /\ q # <<>> /\ ResetFirst(q) /\ Head(q) = "forceCloseInLoop"
              => Count(q, "resetChannel") = 0
<1>1. DOMAIN q = 1..Len(q) /\ Len(q) \in Nat
  OBVIOUS
<1>2. ASSUME NEW e \in Functors
      PROVE  LET r == Append(q, e)
             IN  DOMAIN r = 1..(Len(q) + 1) /\ r[Len(q) + 1] = e /\ \A i \in 1..Len(q) : r[i] = q[i]
  BY <1>1, AppendProperties
<1>3. ASSUME Count(q, "forceCloseInLoop") = 0
      PROVE  ResetFirst(Append(q, "resetChannel"))
  <2>1. \A i \in DOMAIN q : q[i] # "forceCloseInLoop"
    BY <1>3, CountFacts
  <2>2. "resetChannel" \in Functors
    BY DEF Functors
  <2> QED BY <1>1, <1>2, <2>1, <2>2 DEF ResetFirst
<1>4. ASSUME NEW e \in Functors \ {"resetChannel"}, ResetFirst(q)
      PROVE  ResetFirst(Append(q, e))
  BY <1>1, <1>2, <1>4 DEF ResetFirst
<1>5. ASSUME q # <<>>
      PROVE  /\ DOMAIN Tail(q) = 1..(Len(q) - 1) /\ 1 \in DOMAIN q /\ Head(q) = q[1]
             /\ \A i \in 1..(Len(q) - 1) : Tail(q)[i] = q[i + 1]
  BY <1>1, <1>5, HeadTailProperties, LenProperties
<1>6. ASSUME q # <<>>, ResetFirst(q)
      PROVE  ResetFirst(Tail(q))
  <2> SUFFICES ASSUME NEW i \in 1..(Len(q) - 1), NEW j \in 1..(Len(q) - 1),
                      q[i + 1] = "resetChannel", q[j + 1] = "forceCloseInLoop"
               PROVE  i < j
    BY <1>5, <1>6 DEF ResetFirst
  <2>1. i + 1 \in DOMAIN q /\ j + 1 \in DOMAIN q
    BY <1>1
  <2>2. i + 1 < j + 1
    BY <1>6, <2>1 DEF ResetFirst
  <2> QED BY <2>2
<1>7. ASSUME q # <<>>, ResetFirst(q), Head(q) = "forceCloseInLoop"
      PROVE  Count(q, "resetChannel") = 0
  <2>1. \A i \in DOMAIN q : q[i] # "resetChannel"
    BY <1>1, <1>5, <1>7 DEF ResetFirst
  <2> QED BY <2>1, CountFacts
<1> QED BY <1>3, <1>4, <1>6, <1>7

-----------------------------------------------------------------------------
(* The first layer: whatever the callers do.                               *)

\* The types the steps below need.
LEMMA Unpacked ==
  ASSUME SocketInv
  PROVE  /\ TypeOK /\ pending \in Seq(Functors) /\ batch \in Seq(Functors)
         /\ timers \in Nat
         /\ \A f : Count(pending, f) \in Nat /\ Count(batch, f) \in Nat
         /\ Attempts \in Nat
<1>1. /\ TypeOK /\ pending \in Seq(Functors) /\ batch \in Seq(Functors) /\ timers \in Nat
  BY DEF SocketInv, TypeOK
<1>2. \A f : Count(pending, f) \in Nat /\ Count(batch, f) \in Nat
  BY <1>1, CountFacts
<1> QED BY <1>1, <1>2 DEF Attempts

\* The layers hold at first.
LEMMA InitInv == Init => ConnectorInv
<1> SUFFICES ASSUME Init PROVE ConnectorInv
  OBVIOUS
<1> USE DEF Init
<1>1. TypeOK
  <2>1. retryDelayMs_ \in kInitRetryDelayMs..kMaxRetryDelayMs
    BY ConnectorAssumption
  <2>2. /\ connect_ \in BOOLEAN /\ due \in BOOLEAN /\ wanted \in BOOLEAN /\ gaveUp \in BOOLEAN
        /\ restarting \in BOOLEAN /\ hasty \in BOOLEAN /\ overtaken \in BOOLEAN
    OBVIOUS
  <2>3. pending \in Seq(Functors) /\ batch \in Seq(Functors)
    OBVIOUS
  <2>4. socket \in [Fds -> {"closed", "connector", "owner"}]
    OBVIOUS
  <2> QED BY <2>1, <2>2, <2>3, <2>4 DEF TypeOK
<1>2. \A f : Count(<<>>, f) = 0
  <2>1. <<>> \in Seq(Functors)
    OBVIOUS
  <2> QED BY <2>1, CountFacts
<1>3. AttemptOwnsSocket /\ Phases /\ EventsHold /\ Restarts /\ Flags
  BY DEF AttemptOwnsSocket, NoChannel, Phases, EventsHold, Restarts, Flags
<1>4. Attempts = 0
  BY <1>2 DEF Attempts
<1>5. ForceCloses /\ Resets /\ StopMeant /\ ResetInTime
  BY <1>2 DEF ForceCloses, Resets, StopMeant, ResetInTime, Dead
<1> QED BY <1>1, <1>3, <1>4, <1>5 DEF ConnectorInv, SocketInv, AttemptInv, ResetInv, OneAttempt

\* The calls, up to their stores.
LEMMA StoreSockets ==
  ASSUME SocketInv, Start \/ Stop \/ StartHere
  PROVE  SocketInv'
<1> USE Unpacked DEF attemptVars, loopVars
<1>1. CASE Start
  <2> USE <1>1 DEF Start, AskToConnect
  <2>1. TypeOK'
    BY DEF TypeOK
  <2>2. Phases' /\ Flags' /\ AttemptOwnsSocket'
    BY DEF SocketInv, Phases, Flags, AttemptOwnsSocket
  <2>3. EventsHold' /\ ForceCloses' /\ Resets' /\ Restarts'
    BY DEF SocketInv, EventsHold, ForceCloses, Resets, Dead, Restarts
  <2> QED BY <2>1, <2>2, <2>3 DEF SocketInv
<1>2. CASE Stop
  <2> USE <1>2 DEF Stop, AskToStop
  <2>1. TypeOK'
    BY DEF TypeOK
  <2>2. Phases' /\ Flags' /\ AttemptOwnsSocket'
    BY DEF SocketInv, Phases, Flags, AttemptOwnsSocket
  <2>3. EventsHold' /\ ForceCloses' /\ Resets' /\ Restarts'
    BY DEF SocketInv, EventsHold, ForceCloses, Resets, Dead, Restarts
  <2> QED BY <2>1, <2>2, <2>3 DEF SocketInv
<1>3. CASE StartHere
  <2> USE <1>3 DEF StartHere, AskToConnect, InHandler
  <2>1. TypeOK'
    BY DEF TypeOK
  <2>2. Phases' /\ Flags' /\ AttemptOwnsSocket'
    BY DEF SocketInv, Phases, Flags, AttemptOwnsSocket
  <2>3. EventsHold' /\ ForceCloses' /\ Resets' /\ Restarts'
    BY DEF SocketInv, EventsHold, ForceCloses, Resets, Dead, Restarts
  <2> QED BY <2>1, <2>2, <2>3 DEF SocketInv
<1> QED BY <1>1, <1>2, <1>3

\* A functor that another thread or a handler queues: of startInLoop once its
\* store is made, of stopInLoop, or of forceCloseInLoop.
LEMMA QueueSockets ==
  ASSUME SocketInv, QueueCall \/ StopHere \/ ForceClose
  PROVE  SocketInv'
<1> USE Unpacked DEF attemptVars, loopVars, calls
<1>1. CASE QueueCall
  <2> USE <1>1 DEF QueueCall
  <2>1. opc \in Functors /\ opc # "resetChannel" /\ opc # "forceCloseInLoop"
    BY DEF TypeOK, Functors
  <2>2. /\ pending' \in Seq(Functors)
        /\ \A f : Count(pending', f) = Count(pending, f) + (IF opc = f THEN 1 ELSE 0)
    BY <2>1, AppendProperties, CountAppend
  <2>3. TypeOK'
    BY <2>2 DEF TypeOK
  <2>4. Phases' /\ Flags' /\ AttemptOwnsSocket'
    BY DEF SocketInv, Phases, Flags, AttemptOwnsSocket
  <2>5. EventsHold' /\ ForceCloses' /\ Resets' /\ Restarts'
    BY <2>1, <2>2 DEF SocketInv, EventsHold, ForceCloses, Resets, Dead, Restarts
  <2> QED BY <2>3, <2>4, <2>5 DEF SocketInv
<1>2. CASE StopHere
  <2> USE <1>2 DEF StopHere, AskToStop, InHandler
  <2>1. /\ pending' \in Seq(Functors)
        /\ \A f : Count(pending', f) = Count(pending, f) + (IF "stopInLoop" = f THEN 1 ELSE 0)
    BY AppendProperties, CountAppend DEF Functors
  <2>2. TypeOK'
    BY <2>1 DEF TypeOK
  <2>3. Phases' /\ Flags' /\ AttemptOwnsSocket'
    BY DEF SocketInv, Phases, Flags, AttemptOwnsSocket
  <2>4. EventsHold' /\ ForceCloses' /\ Resets' /\ Restarts'
    BY <2>1 DEF SocketInv, EventsHold, ForceCloses, Resets, Dead, Restarts
  <2> QED BY <2>2, <2>3, <2>4 DEF SocketInv
<1>3. CASE ForceClose
  <2> USE <1>3 DEF ForceClose
  <2>1. /\ pending' \in Seq(Functors)
        /\ \A f : Count(pending', f) =
                    Count(pending, f) + (IF "forceCloseInLoop" = f THEN 1 ELSE 0)
    BY AppendProperties, CountAppend DEF Functors
  <2>2. Count(batch, "forceCloseInLoop") = 0
    BY CountFacts
  <2>3. TypeOK'
    BY <2>1 DEF TypeOK
  <2>4. Phases' /\ Flags' /\ AttemptOwnsSocket'
    BY DEF SocketInv, Phases, Flags, AttemptOwnsSocket
  <2>5. "channel" \notin active
    BY DEF SocketInv, EventsHold, AttemptOwnsSocket
  <2>6. EventsHold' /\ ForceCloses' /\ Resets' /\ Restarts'
    BY <2>1, <2>2, <2>5 DEF SocketInv, EventsHold, ForceCloses, Resets, Dead, Restarts
  <2> QED BY <2>3, <2>4, <2>6 DEF SocketInv
<1> QED BY <1>1, <1>2, <1>3

\* A descriptor of the owner's is closed: none of the connector's.
LEMMA OwnerClosesSockets ==
  ASSUME SocketInv, NEW fd \in Fds, OwnerCloses(fd)
  PROVE  SocketInv'
<1> USE Unpacked DEF loopVars, calls, OwnerCloses
<1>1. TypeOK'
  BY DEF TypeOK
<1>2. {g \in Fds : socket'[g] = "connector"} = {g \in Fds : socket[g] = "connector"}
  BY DEF TypeOK
<1>3. Phases' /\ Flags' /\ AttemptOwnsSocket'
  BY <1>2 DEF SocketInv, Phases, Flags, AttemptOwnsSocket
<1>4. EventsHold' /\ ForceCloses' /\ Resets' /\ Restarts'
  BY DEF SocketInv, EventsHold, ForceCloses, Resets, Dead, Restarts
<1> QED BY <1>1, <1>3, <1>4 DEF SocketInv

\* poll returns what is ready.
LEMMA PollSockets ==
  ASSUME SocketInv, NEW ready \in SUBSET Ready, Poll(ready)
  PROVE  SocketInv'
<1> USE Unpacked DEF attemptVars, calls, Poll
<1>1. /\ "channel" \in ready => channel_.added
      /\ "timer" \in ready => timers > 0
      /\ "peer" \in ready => conn # NoConn
      /\ ready \subseteq {"channel", "timer", "peer"}
  BY DEF Ready
<1>2. TypeOK'
  BY <1>1 DEF TypeOK
<1>3. Phases' /\ Flags' /\ AttemptOwnsSocket'
  BY <1>1 DEF SocketInv, Phases, Flags, AttemptOwnsSocket
<1>4. EventsHold' /\ Resets' /\ Restarts'
  BY <1>1 DEF SocketInv, EventsHold, Resets, Dead, Restarts
<1>5. ForceCloses'
  BY <1>1 DEF SocketInv, ForceCloses, AttemptOwnsSocket, EventsHold
<1> QED BY <1>2, <1>3, <1>4, <1>5 DEF SocketInv

\* The loop goes on from the events to the functors and from them to poll.
LEMMA PhaseSockets ==
  ASSUME SocketInv, EndEvents \/ EndFunctors
  PROVE  SocketInv'
<1> USE Unpacked DEF attemptVars, calls, InHandler
<1>1. CASE EndEvents
  <2> USE <1>1 DEF EndEvents
  <2>1. batch = <<>> /\ \A f : Count(<<>>, f) = 0
    BY CountFacts DEF SocketInv, Phases
  <2>2. TypeOK'
    BY DEF TypeOK
  <2>3. Phases' /\ Flags' /\ AttemptOwnsSocket'
    BY DEF SocketInv, Phases, Flags, AttemptOwnsSocket
  <2>4. EventsHold' /\ ForceCloses' /\ Resets' /\ Restarts'
    BY <2>1 DEF SocketInv, EventsHold, ForceCloses, Resets, Dead, Restarts
  <2> QED BY <2>2, <2>3, <2>4 DEF SocketInv
<1>2. CASE EndFunctors
  <2> USE <1>2 DEF EndFunctors
  <2>1. TypeOK'
    BY DEF TypeOK
  <2>2. Phases' /\ Flags' /\ AttemptOwnsSocket'
    BY DEF SocketInv, Phases, Flags, AttemptOwnsSocket
  <2>3. EventsHold' /\ ForceCloses' /\ Resets' /\ Restarts'
    BY DEF SocketInv, EventsHold, ForceCloses, Resets, Dead, Restarts
  <2> QED BY <2>1, <2>2, <2>3 DEF SocketInv
<1> QED BY <1>1, <1>2

\* While an attempt is on there is no connection and nothing is to be reset.
LEMMA AttemptOn ==
  ASSUME SocketInv, aborted = "no", state_ = "kConnecting"
  PROVE  /\ channel_ \in [fd : Fds, added : BOOLEAN] /\ channel_ # NoChannel
         /\ channel_.added /\ ~Dead /\ conn = NoConn /\ ~restarting
         /\ Count(pending, "resetChannel") = 0 /\ Count(batch, "resetChannel") = 0
         /\ \A fd \in Fds : socket[fd] = "connector" <=> fd = channel_.fd
<1> USE Unpacked
<1>1. channel_.added /\ channel_ # NoChannel /\ ~Dead
  BY DEF SocketInv, AttemptOwnsSocket, Dead, NoChannel
<1>2. channel_ \in [fd : Fds, added : BOOLEAN]
  BY <1>1 DEF TypeOK
<1>3. conn = NoConn /\ ~restarting
  BY DEF SocketInv, EventsHold, Restarts
<1>4. Count(pending, "resetChannel") = 0 /\ Count(batch, "resetChannel") = 0
  BY <1>1 DEF SocketInv, Resets
<1>5. \A fd \in Fds : socket[fd] = "connector" <=> fd = channel_.fd
  BY <1>2 DEF SocketInv, AttemptOwnsSocket
<1> QED BY <1>1, <1>2, <1>3, <1>4, <1>5

\* removeAndResetChannel at the end of an attempt.
LEMMA ChannelEnds ==
  ASSUME SocketInv, aborted = "no", state_ = "kConnecting", RemoveAndResetChannel
  PROVE  /\ channel_' \in [fd : Fds, added : BOOLEAN] /\ channel_' # NoChannel
         /\ ~channel_'.added
         /\ pending' \in Seq(Functors)
         /\ \A f : Count(pending', f) = Count(pending, f) + (IF "resetChannel" = f THEN 1 ELSE 0)
         /\ Count(pending, "forceCloseInLoop") = 0 => ResetFirst(pending')
         /\ Closed \in [Fds -> {"closed", "connector", "owner"}]
         /\ \A fd \in Fds : Closed[fd] # "connector"
<1> USE Unpacked DEF RemoveAndResetChannel
<1>1. channel_' \in [fd : Fds, added : BOOLEAN] /\ channel_'.fd = channel_.fd /\ ~channel_'.added
  BY AttemptOn
<1>2. channel_' # NoChannel
  BY <1>1, ConnectorAssumption DEF NoChannel
<1>3. /\ pending' \in Seq(Functors)
      /\ \A f : Count(pending', f) = Count(pending, f) + (IF "resetChannel" = f THEN 1 ELSE 0)
      /\ Count(pending, "forceCloseInLoop") = 0 => ResetFirst(pending')
  BY AppendProperties, CountAppend, ResetFirstFacts DEF Functors
<1>4. /\ Closed \in [Fds -> {"closed", "connector", "owner"}]
      /\ \A fd \in Fds : Closed[fd] # "connector"
  BY AttemptOn DEF Closed, TypeOK
<1> QED BY <1>1, <1>2, <1>3, <1>4

\* What retry() does to the timers and to the delay.
LEMMA RetryEffect ==
  ASSUME SocketInv, Retry
  PROVE  /\ state_' = "kDisconnected" /\ timers' \in Nat /\ timers' >= timers
         /\ timers' = IF connect_ THEN timers + 1 ELSE timers
         /\ retryDelayMs_' \in kInitRetryDelayMs..kMaxRetryDelayMs
BY Unpacked, ConnectorAssumption DEF Retry, Doubled, TypeOK

\* startInLoop, which aborts, connects or does nothing.
LEMMA StartInLoopSockets ==
  ASSUME SocketInv, StartInLoop
  PROVE  SocketInv'
<1> USE Unpacked DEF attemptVars, loopVars, calls
<1>1. /\ aborted = "no" /\ due /\ due' = FALSE
      /\ UNCHANGED <<connect_, lpc, active, batch, pending, opc, wanted, hasty, overtaken,
                     restarting, conn>>
  BY DEF StartInLoop
<1>2. Phases' /\ Flags' /\ ~restarting
  BY <1>1 DEF SocketInv, Phases, Flags, Restarts
<1>5. /\ connect_' \in BOOLEAN /\ due' \in BOOLEAN /\ wanted' \in BOOLEAN
      /\ restarting' \in BOOLEAN /\ hasty' \in BOOLEAN /\ overtaken' \in BOOLEAN
      /\ lpc' \in {"poll", "handle", "run"} /\ active' \subseteq {"channel", "timer", "peer"}
      /\ pending' \in Seq(Functors) /\ batch' \in Seq(Functors)
      /\ opc' \in {"idle", "startInLoop", "stopInLoop"} /\ conn' \in Fds \union {NoConn}
  BY <1>1 DEF TypeOK
<1>3. CASE state_ # "kDisconnected"
  <2>1. /\ aborted' = "Connector.cc:35"
        /\ UNCHANGED <<state_, channel_, retryDelayMs_, timers, socket, gaveUp>>
    BY <1>3 DEF StartInLoop
  <2>2. TypeOK'
    BY <1>5, <2>1 DEF TypeOK
  <2> QED BY <1>2, <2>1, <2>2 DEF SocketInv, AttemptOwnsSocket
<1>4. CASE state_ = "kDisconnected"
  <2>1. ~channel_.added /\ conn = NoConn /\ \A fd \in Fds : socket[fd] # "connector"
    BY <1>1, <1>4 DEF SocketInv, AttemptOwnsSocket, EventsHold
  <2>2. CASE UNCHANGED attemptVars
    <3>1. TypeOK'
      BY <1>5, <2>2 DEF TypeOK
    <3>2. AttemptOwnsSocket' /\ EventsHold' /\ ForceCloses' /\ Resets' /\ Restarts'
      BY <1>1, <1>2, <2>2
         DEF SocketInv, AttemptOwnsSocket, EventsHold, ForceCloses, Resets, Dead, Restarts
    <3> QED BY <1>2, <3>1, <3>2 DEF SocketInv
  <2>3. ASSUME NEW fd \in Fds, socket[fd] = "closed", Connecting(fd), channel_ # NoChannel
        PROVE  SocketInv'
    <3>1. /\ state_' = "kConnecting" /\ aborted' = "Connector.cc:105"
          /\ socket' = [socket EXCEPT ![fd] = "connector"]
          /\ UNCHANGED <<channel_, retryDelayMs_, timers, gaveUp>>
      BY <2>3 DEF Connecting
    <3>2. TypeOK'
      BY <1>5, <3>1 DEF TypeOK
    <3> QED BY <1>2, <3>1, <3>2 DEF SocketInv, AttemptOwnsSocket
  <2>4. ASSUME NEW fd \in Fds, socket[fd] = "closed", Connecting(fd), channel_ = NoChannel
        PROVE  SocketInv'
    <3>1. /\ state_' = "kConnecting"
          /\ socket' = [socket EXCEPT ![fd] = "connector"]
          /\ channel_' = [fd |-> fd, added |-> TRUE]
          /\ UNCHANGED <<aborted, retryDelayMs_, timers, gaveUp>>
      BY <2>4 DEF Connecting
    <3>2. TypeOK'
      BY <1>5, <3>1 DEF TypeOK
    <3>3. {g \in Fds : socket'[g] = "connector"} = {fd} /\ channel_'.fd = fd /\ channel_'.added
      BY <2>1, <3>1 DEF TypeOK
    <3>4. AttemptOwnsSocket' /\ EventsHold' /\ ForceCloses' /\ Restarts'
      BY <1>1, <1>2, <2>1, <3>1, <3>3
         DEF SocketInv, AttemptOwnsSocket, EventsHold, ForceCloses, Restarts
    <3>5. Resets'
      BY <1>1, <2>4, <3>3 DEF SocketInv, Resets, Dead
    <3> QED BY <1>2, <3>2, <3>4, <3>5 DEF SocketInv
  <2>5. CASE Retry /\ UNCHANGED <<channel_, socket, gaveUp, aborted>>
    <3>1. /\ state_' = "kDisconnected" /\ timers' \in Nat /\ timers' >= timers
          /\ retryDelayMs_' \in kInitRetryDelayMs..kMaxRetryDelayMs
      BY <2>5, RetryEffect
    <3>2. TypeOK'
      BY <1>5, <2>5, <3>1 DEF TypeOK
    <3>3. AttemptOwnsSocket' /\ EventsHold' /\ ForceCloses' /\ Resets' /\ Restarts'
      BY <1>1, <1>2, <1>4, <2>1, <2>5, <3>1
         DEF SocketInv, AttemptOwnsSocket, EventsHold, ForceCloses, Resets, Dead, Restarts
    <3> QED BY <1>2, <3>2, <3>3 DEF SocketInv
  <2>6. CASE /\ gaveUp' = TRUE
             /\ UNCHANGED <<state_, channel_, retryDelayMs_, timers, socket, aborted>>
    <3>1. TypeOK'
      BY <1>5, <2>6 DEF TypeOK
    <3>2. AttemptOwnsSocket' /\ EventsHold' /\ ForceCloses' /\ Resets' /\ Restarts'
      BY <1>1, <1>2, <2>6
         DEF SocketInv, AttemptOwnsSocket, EventsHold, ForceCloses, Resets, Dead, Restarts
    <3> QED BY <1>2, <3>1, <3>2 DEF SocketInv
  <2> QED BY <1>4, <2>2, <2>3, <2>4, <2>5, <2>6 DEF StartInLoop, Connect
<1> QED BY <1>3, <1>4

\* The attempt fails, with or without a retry timer.
LEMMA AttemptFailsSockets ==
  ASSUME SocketInv, AttemptFails
  PROVE  SocketInv'
<1> USE Unpacked DEF Handle, InHandler, calls
<1>1. /\ aborted = "no" /\ state_ = "kConnecting" /\ lpc = "handle" /\ "channel" \in active
      /\ RemoveAndResetChannel /\ socket' = Closed /\ Retry
      /\ active' = active \ {"channel"} /\ ~restarting
      /\ UNCHANGED <<lpc, batch, opc, wanted, hasty, overtaken, restarting, connect_, due, conn,
                     gaveUp, aborted>>
  BY DEF AttemptFails
<1>2. /\ state_' = "kDisconnected" /\ timers' \in Nat /\ timers' >= timers
      /\ retryDelayMs_' \in kInitRetryDelayMs..kMaxRetryDelayMs
  BY <1>1, RetryEffect
<1>3. /\ channel_' \in [fd : Fds, added : BOOLEAN] /\ channel_' # NoChannel
      /\ ~channel_'.added
      /\ pending' \in Seq(Functors)
      /\ \A f : Count(pending', f) = Count(pending, f) + (IF "resetChannel" = f THEN 1 ELSE 0)
      /\ socket' \in [Fds -> {"closed", "connector", "owner"}]
      /\ \A fd \in Fds : socket'[fd] # "connector"
  BY <1>1, ChannelEnds
<1>4. TypeOK'
  BY <1>1, <1>2, <1>3 DEF TypeOK
<1>5. Phases' /\ Flags' /\ AttemptOwnsSocket'
  BY <1>1, <1>2, <1>3 DEF SocketInv, Phases, Flags, AttemptOwnsSocket
<1>6. EventsHold' /\ ForceCloses' /\ Restarts'
  BY <1>1, <1>2, <1>3, AttemptOn DEF SocketInv, EventsHold, ForceCloses, Restarts
<1>7. Resets'
  <2>1. Dead' /\ Count(pending', "resetChannel") = 1 /\ Count(batch', "resetChannel") = 0
    BY <1>1, <1>3, AttemptOn DEF Dead
  <2> QED BY <2>1 DEF Resets
<1> QED BY <1>4, <1>5, <1>6, <1>7 DEF SocketInv

\* The attempt succeeds: the descriptor goes to the owner, or is closed after stop().
LEMMA AttemptSucceedsSockets ==
  ASSUME SocketInv, AttemptSucceeds
  PROVE  SocketInv'
<1> USE Unpacked DEF Handle, InHandler, calls
<1>1. /\ aborted = "no" /\ state_ = "kConnecting" /\ lpc = "handle" /\ "channel" \in active
      /\ RemoveAndResetChannel /\ state_' = "kConnected"
      /\ active' = active \ {"channel"} /\ ~restarting
      /\ UNCHANGED <<lpc, batch, opc, wanted, hasty, overtaken, restarting, connect_, due,
                     retryDelayMs_, timers, gaveUp, aborted>>
  BY DEF AttemptSucceeds
<1>2. /\ channel_' \in [fd : Fds, added : BOOLEAN] /\ channel_' # NoChannel
      /\ ~channel_'.added
      /\ pending' \in Seq(Functors)
      /\ \A f : Count(pending', f) = Count(pending, f) + (IF "resetChannel" = f THEN 1 ELSE 0)
  BY <1>1, ChannelEnds
<1>3. /\ socket' \in [Fds -> {"closed", "connector", "owner"}]
      /\ \A fd \in Fds : socket'[fd] # "connector"
      /\ conn' \in Fds \union {NoConn} /\ (conn' # NoConn => connect_)
  BY <1>1, AttemptOn DEF AttemptSucceeds, Closed, TypeOK
<1>4. TypeOK'
  BY <1>1, <1>2, <1>3 DEF TypeOK
<1>5. Phases' /\ Flags' /\ AttemptOwnsSocket'
  BY <1>1, <1>2, <1>3 DEF SocketInv, Phases, Flags, AttemptOwnsSocket
<1>6. "peer" \notin active /\ Count(pending', "forceCloseInLoop") = 0
  BY <1>1, <1>2, AttemptOn DEF SocketInv, EventsHold, ForceCloses
<1>7. EventsHold' /\ ForceCloses' /\ Restarts'
  BY <1>1, <1>6 DEF SocketInv, EventsHold, ForceCloses, Restarts
<1>8. Resets'
  <2>1. Dead' /\ Count(pending', "resetChannel") = 1 /\ Count(batch', "resetChannel") = 0
    BY <1>1, <1>2, AttemptOn DEF Dead
  <2> QED BY <2>1 DEF Resets
<1> QED BY <1>4, <1>5, <1>7, <1>8 DEF SocketInv

\* A retry timer expires, or restart() begins an attempt.
LEMMA TimerSockets ==
  ASSUME SocketInv, HandleTimer \/ Restart
  PROVE  SocketInv'
<1> USE Unpacked DEF calls, loopVars
<1>1. CASE HandleTimer
  <2>1. /\ aborted = "no" /\ lpc = "handle" /\ "timer" \in active /\ active' = active \ {"timer"}
        /\ timers' = timers - 1 /\ due' = TRUE /\ ~restarting
        /\ UNCHANGED <<lpc, batch, opc, wanted, hasty, overtaken, restarting, connect_, state_,
                       channel_, retryDelayMs_, socket, gaveUp, aborted, pending, conn>>
    BY <1>1 DEF HandleTimer, Handle, InHandler
  <2>2. timers' \in Nat
    BY <2>1 DEF SocketInv, EventsHold
  <2>3. TypeOK'
    BY <2>1, <2>2 DEF TypeOK
  <2>4. Phases' /\ Flags' /\ AttemptOwnsSocket'
    BY <2>1 DEF SocketInv, Phases, Flags, AttemptOwnsSocket
  <2>5. EventsHold' /\ ForceCloses' /\ Resets' /\ Restarts'
    BY <2>1 DEF SocketInv, EventsHold, ForceCloses, Resets, Dead, Restarts
  <2> QED BY <2>3, <2>4, <2>5 DEF SocketInv
<1>2. CASE Restart
  <2> USE <1>2 DEF Restart, Restarted
  <2>1. state_ = "kConnected" /\ conn = NoConn
    BY DEF SocketInv, Restarts
  <2>2. TypeOK'
    <3>1. /\ connect_' \in BOOLEAN /\ due' \in BOOLEAN /\ wanted' \in BOOLEAN
          /\ restarting' \in BOOLEAN /\ hasty' \in BOOLEAN /\ overtaken' \in BOOLEAN
      BY DEF TypeOK
    <3>2. retryDelayMs_' \in kInitRetryDelayMs..kMaxRetryDelayMs
      BY ConnectorAssumption
    <3> QED BY <3>1, <3>2 DEF TypeOK
  <2>3. Phases' /\ Flags' /\ AttemptOwnsSocket'
    BY <2>1 DEF SocketInv, Phases, Flags, AttemptOwnsSocket, TypeOK
  <2>4. EventsHold' /\ ForceCloses' /\ Resets' /\ Restarts'
    BY <2>1 DEF SocketInv, EventsHold, ForceCloses, Resets, Dead, Restarts
  <2> QED BY <2>2, <2>3, <2>4 DEF SocketInv
<1> QED BY <1>1, <1>2

\* The peer closes the connection.
LEMMA HandlePeerSockets ==
  ASSUME SocketInv, HandlePeer
  PROVE  SocketInv'
<1> USE Unpacked DEF attemptVars, calls
<1>1. /\ aborted = "no" /\ lpc = "handle" /\ "peer" \in active /\ active' = active \ {"peer"}
      /\ ~due /\ conn' = NoConn /\ restarting' \in BOOLEAN /\ (restarting' => wanted)
      /\ UNCHANGED <<lpc, batch, opc, wanted, hasty, overtaken, connect_, state_, channel_,
                     retryDelayMs_, timers, socket, gaveUp, aborted, due, pending>>
  BY DEF HandlePeer, ConnectionGone, Handle, InHandler
<1>2. conn # NoConn /\ state_ = "kConnected" /\ "channel" \notin active
  BY <1>1 DEF SocketInv, EventsHold, AttemptOwnsSocket
<1>3. TypeOK'
  BY <1>1 DEF TypeOK
<1>4. Phases' /\ Flags' /\ AttemptOwnsSocket'
  BY <1>1, <1>2 DEF SocketInv, Phases, Flags, AttemptOwnsSocket
<1>5. EventsHold' /\ ForceCloses' /\ Resets' /\ Restarts'
  BY <1>1, <1>2 DEF SocketInv, EventsHold, ForceCloses, Resets, Dead, Restarts
<1> QED BY <1>3, <1>4, <1>5 DEF SocketInv

\* Taking a functor of the batch.
LEMMA Taken ==
  ASSUME SocketInv, NEW functor \in Functors, Run(functor)
  PROVE  /\ aborted = "no" /\ lpc = "run" /\ ~due /\ ~restarting /\ active = {}
         /\ batch' \in Seq(Functors)
         /\ \A f : /\ Count(batch', f) \in Nat
                   /\ Count(batch, f) = Count(batch', f) + (IF functor = f THEN 1 ELSE 0)
         /\ \A f : f # functor => Count(batch', f) = Count(batch, f)
         /\ ResetFirst(batch) => ResetFirst(batch')
         /\ functor = "forceCloseInLoop" /\ ResetFirst(batch) => Count(batch, "resetChannel") = 0
         /\ UNCHANGED <<lpc, active, opc, wanted, hasty, overtaken>>
<1> USE Unpacked DEF Run, InHandler, calls
<1>1. batch' \in Seq(Functors)
  BY HeadTailProperties
<1>2. \A f : /\ Count(batch', f) \in Nat
             /\ Count(batch, f) = Count(batch', f) + (IF functor = f THEN 1 ELSE 0)
  BY <1>1, CountTail, CountFacts
<1>3. ResetFirst(batch) => ResetFirst(batch')
  BY ResetFirstFacts
<1>4. functor = "forceCloseInLoop" /\ ResetFirst(batch) => Count(batch, "resetChannel") = 0
  BY ResetFirstFacts
<1>5. active = {}
  BY DEF SocketInv, Phases
<1>6. \A f : f # functor => Count(batch', f) = Count(batch, f)
  BY <1>2
<1> QED BY <1>1, <1>2, <1>3, <1>4, <1>5, <1>6

\* The functors.
LEMMA RunSockets ==
  ASSUME SocketInv, RunStartInLoop \/ RunStopInLoop \/ RunResetChannel \/ RunForceClose
  PROVE  SocketInv'
<1> USE Unpacked DEF attemptVars
<1>1. CASE RunStartInLoop
  <2> USE <1>1 DEF RunStartInLoop
  <2>1. /\ aborted = "no" /\ lpc = "run" /\ ~restarting /\ active = {} /\ batch' \in Seq(Functors)
        /\ \A f : f # "startInLoop" => Count(batch', f) = Count(batch, f)
        /\ UNCHANGED <<lpc, active, opc, wanted, hasty, overtaken>>
    BY Taken DEF Functors
  <2>2. TypeOK'
    BY <2>1 DEF TypeOK
  <2>3. Phases' /\ Flags' /\ AttemptOwnsSocket'
    BY <2>1 DEF SocketInv, Phases, Flags, AttemptOwnsSocket
  <2>4. EventsHold' /\ ForceCloses' /\ Resets' /\ Restarts'
    BY <2>1 DEF SocketInv, EventsHold, ForceCloses, Resets, Dead, Restarts
  <2> QED BY <2>2, <2>3, <2>4 DEF SocketInv
<1>2. CASE RunStopInLoop
  <2> USE <1>2 DEF RunStopInLoop
  <2>1. /\ aborted = "no" /\ lpc = "run" /\ ~restarting /\ active = {} /\ batch' \in Seq(Functors)
        /\ \A f : f # "stopInLoop" => Count(batch', f) = Count(batch, f)
        /\ UNCHANGED <<lpc, active, opc, wanted, hasty, overtaken, connect_, due, restarting,
                       conn, gaveUp, aborted>>
    BY Taken DEF Functors
  <2>2. CASE state_ = "kConnecting"
    <3>1. RemoveAndResetChannel /\ socket' = Closed /\ Retry
      BY <2>2
    <3>2. /\ state_' = "kDisconnected" /\ timers' \in Nat /\ timers' >= timers
          /\ retryDelayMs_' \in kInitRetryDelayMs..kMaxRetryDelayMs
      BY <3>1, RetryEffect
    <3>3. /\ channel_' \in [fd : Fds, added : BOOLEAN] /\ channel_' # NoChannel
          /\ ~channel_'.added
          /\ pending' \in Seq(Functors)
          /\ \A f : Count(pending', f) = Count(pending, f) + (IF "resetChannel" = f THEN 1 ELSE 0)
          /\ socket' \in [Fds -> {"closed", "connector", "owner"}]
          /\ \A fd \in Fds : socket'[fd] # "connector"
      BY <2>1, <2>2, <3>1, ChannelEnds
    <3>4. TypeOK'
      BY <2>1, <3>2, <3>3 DEF TypeOK
    <3>5. Phases' /\ Flags' /\ AttemptOwnsSocket'
      BY <2>1, <3>2, <3>3 DEF SocketInv, Phases, Flags, AttemptOwnsSocket
    <3>6. EventsHold' /\ Restarts'
      BY <2>1, <2>2, <3>2, AttemptOn DEF SocketInv, EventsHold, Restarts
    <3>7. ForceCloses'
      <4>1. Count(pending', "forceCloseInLoop") = Count(pending, "forceCloseInLoop")
        BY <3>3
      <4>2. Count(batch', "forceCloseInLoop") = Count(batch, "forceCloseInLoop")
        BY <2>1
      <4> QED BY <2>1, <4>1, <4>2 DEF SocketInv, ForceCloses
    <3>8. Resets'
      <4>1. Dead' /\ Count(pending', "resetChannel") = 1 /\ Count(batch', "resetChannel") = 0
        BY <2>1, <2>2, <3>3, AttemptOn DEF Dead
      <4> QED BY <4>1 DEF Resets
    <3> QED BY <3>4, <3>5, <3>6, <3>7, <3>8 DEF SocketInv
  <2>3. CASE state_ # "kConnecting"
    <3>1. UNCHANGED <<pending, channel_, socket, state_, timers, retryDelayMs_>>
      BY <2>3
    <3>2. TypeOK'
      BY <2>1, <3>1 DEF TypeOK
    <3>3. Phases' /\ Flags' /\ AttemptOwnsSocket'
      BY <2>1, <3>1 DEF SocketInv, Phases, Flags, AttemptOwnsSocket
    <3>4. EventsHold' /\ ForceCloses' /\ Resets' /\ Restarts'
      BY <2>1, <3>1 DEF SocketInv, EventsHold, ForceCloses, Resets, Dead, Restarts
    <3> QED BY <3>2, <3>3, <3>4 DEF SocketInv
  <2> QED BY <2>2, <2>3
<1>3. CASE RunResetChannel
  <2> USE <1>3 DEF RunResetChannel
  <2>1. /\ aborted = "no" /\ lpc = "run" /\ ~restarting /\ active = {} /\ batch' \in Seq(Functors)
        /\ Count(batch', "resetChannel") \in Nat
        /\ Count(batch, "resetChannel") = Count(batch', "resetChannel") + 1
        /\ \A f : f # "resetChannel" => Count(batch', f) = Count(batch, f)
        /\ UNCHANGED <<lpc, active, opc, wanted, hasty, overtaken>>
    BY Taken DEF Functors
  <2>2. /\ Dead /\ Count(pending, "resetChannel") = 0 /\ Count(batch', "resetChannel") = 0
        /\ ~Dead'
    BY <2>1 DEF SocketInv, Resets, Dead
  <2>3. state_ # "kConnecting"
    BY <2>1, <2>2, AttemptOn
  <2>4. TypeOK'
    BY <2>1 DEF TypeOK
  <2>5. Phases' /\ Flags' /\ AttemptOwnsSocket'
    BY <2>1, <2>3 DEF SocketInv, Phases, Flags, AttemptOwnsSocket, NoChannel
  <2>6. EventsHold' /\ ForceCloses' /\ Resets' /\ Restarts'
    BY <2>1, <2>2 DEF SocketInv, EventsHold, ForceCloses, Resets, Restarts
  <2> QED BY <2>4, <2>5, <2>6 DEF SocketInv
<1>4. CASE RunForceClose
  <2> USE <1>4 DEF RunForceClose
  <2>1. /\ aborted = "no" /\ lpc = "run" /\ ~due /\ ~restarting /\ active = {}
        /\ batch' \in Seq(Functors)
        /\ Count(batch', "forceCloseInLoop") \in Nat
        /\ Count(batch, "forceCloseInLoop") = Count(batch', "forceCloseInLoop") + 1
        /\ \A f : f # "forceCloseInLoop" => Count(batch', f) = Count(batch, f)
        /\ UNCHANGED <<lpc, active, opc, wanted, hasty, overtaken>>
    BY Taken DEF Functors
  <2>2. /\ UNCHANGED <<pending, connect_, state_, channel_, retryDelayMs_, timers, socket, gaveUp,
                       aborted, due>>
        /\ conn' = NoConn /\ restarting' \in BOOLEAN /\ (restarting' => wanted)
        /\ restarting' => conn # NoConn
    <3>1. CASE conn # NoConn
      BY <3>1 DEF ConnectionGone
    <3>2. CASE conn = NoConn
      <4>1. UNCHANGED <<pending, connect_, state_, channel_, retryDelayMs_, timers, socket, gaveUp,
                        aborted, due, restarting, conn>>
        BY <3>2
      <4>2. restarting' = FALSE
        BY <2>1, <4>1 DEF TypeOK
      <4> QED BY <3>2, <4>1, <4>2
    <3> QED BY <3>1, <3>2
  <2>3. Count(pending, "forceCloseInLoop") = 0
    BY <2>1 DEF SocketInv, ForceCloses
  <2>4. TypeOK'
    BY <2>1, <2>2 DEF TypeOK
  <2>5. Phases' /\ Flags' /\ AttemptOwnsSocket'
    BY <2>1, <2>2 DEF SocketInv, Phases, Flags, AttemptOwnsSocket
  <2>6. EventsHold' /\ ForceCloses' /\ Resets' /\ Restarts'
    BY <2>1, <2>2, <2>3 DEF SocketInv, EventsHold, ForceCloses, Resets, Dead, Restarts
  <2> QED BY <2>4, <2>5, <2>6 DEF SocketInv
<1> QED BY <1>1, <1>2, <1>3, <1>4

\* Every step keeps the first layer.
LEMMA SocketStep ==
  ASSUME SocketInv, [Next]_vars
  PROVE  SocketInv'
<1>1. CASE CallNext
  BY <1>1, StoreSockets, QueueSockets, OwnerClosesSockets DEF CallNext
<1>2. CASE \/ \E ready \in SUBSET Ready : Poll(ready)
           \/ StartInLoop \/ AttemptFails \/ AttemptSucceeds \/ HandleTimer \/ HandlePeer
           \/ Restart \/ EndEvents \/ EndFunctors
  BY <1>2, PollSockets, StartInLoopSockets, AttemptFailsSockets, AttemptSucceedsSockets,
     TimerSockets, HandlePeerSockets, PhaseSockets
<1>3. CASE RunStartInLoop \/ RunStopInLoop \/ RunResetChannel \/ RunForceClose
  BY <1>3, RunSockets
<1>4. CASE UNCHANGED vars
  <2> USE <1>4 DEF vars, attemptVars, loopVars, calls
  <2>1. TypeOK'
    BY DEF SocketInv, TypeOK
  <2>2. Phases' /\ Flags' /\ AttemptOwnsSocket'
    BY DEF SocketInv, Phases, Flags, AttemptOwnsSocket
  <2>3. aborted = "no" => EventsHold' /\ ForceCloses' /\ Resets' /\ Restarts'
    BY DEF SocketInv, EventsHold, ForceCloses, Resets, Dead, Restarts
  <2> QED BY <2>1, <2>2, <2>3 DEF SocketInv
<1> QED BY <1>1, <1>2, <1>3, <1>4 DEF Next, LoopStep, Ended

-----------------------------------------------------------------------------
(* The second layer: one attempt.                                          *)

\* What is one attempt, or leads to one, is the only one.
LEMMA OnlyOne ==
  ASSUME SocketInv, AttemptInv, ~hasty, state_ # "kDisconnected" \/ due
  PROVE  /\ Attempts = 1 /\ timers = 0 /\ opc # "startInLoop"
         /\ ~due \/ state_ = "kDisconnected"
         /\ Count(pending, "startInLoop") = 0 /\ Count(batch, "startInLoop") = 0
<1>1. Attempts <= 1
  BY DEF AttemptInv, OneAttempt
<1> QED BY <1>1, Unpacked DEF Attempts

\* Steps after which there is as much to lead to an attempt as before.
LEMMA SameAttempts ==
  ASSUME AttemptInv, Attempts' = Attempts, UNCHANGED <<connect_, gaveUp, hasty, aborted>>
  PROVE  AttemptInv'
BY DEF AttemptInv, OneAttempt

\* The calls, up to their stores.
LEMMA StoreAttempts ==
  ASSUME SocketInv, AttemptInv, Start \/ Stop \/ StartHere
  PROVE  AttemptInv'
<1> USE Unpacked DEF attemptVars, loopVars
<1>1. CASE Start \/ StartHere
  <2> SUFFICES ASSUME ~hasty' PROVE Attempts' = 1 /\ aborted' = "no"
    BY DEF AttemptInv, OneAttempt
  <2>1. AtRest
    BY <1>1 DEF Start, StartHere, AskToConnect
  <2>2. Attempts = 0 /\ aborted' = "no"
    BY <1>1, <2>1 DEF AtRest, Start, StartHere, InHandler
  <2>3. /\ timers = 0 /\ opc # "startInLoop" /\ ~due /\ state_ = "kDisconnected"
        /\ Count(pending, "startInLoop") = 0 /\ Count(batch, "startInLoop") = 0
    BY <2>2 DEF Attempts
  <2>4. CASE Start
    BY <2>2, <2>3, <2>4 DEF Start, Attempts
  <2>5. CASE StartHere
    BY <2>2, <2>3, <2>5 DEF StartHere, Attempts
  <2> QED BY <1>1, <2>2, <2>4, <2>5
<1>2. CASE Stop
  <2>1. Attempts' = Attempts
    BY <1>2 DEF Stop, Attempts
  <2> QED BY <1>2, <2>1 DEF Stop, AskToStop, AttemptInv, OneAttempt
<1> QED BY <1>1, <1>2

\* The queueing of functors.
LEMMA QueueAttempts ==
  ASSUME SocketInv, AttemptInv, QueueCall \/ StopHere \/ ForceClose
  PROVE  AttemptInv'
<1> USE Unpacked DEF attemptVars, loopVars, calls
<1>1. CASE QueueCall
  <2> USE <1>1 DEF QueueCall
  <2>1. Count(pending', "startInLoop")
          = Count(pending, "startInLoop") + (IF opc = "startInLoop" THEN 1 ELSE 0)
    <3>1. opc \in Functors
      BY DEF TypeOK, Functors
    <3> QED BY <3>1, CountAppend
  <2>2. Attempts' = Attempts
    BY <2>1 DEF Attempts
  <2> QED BY <2>2, SameAttempts
<1>2. CASE StopHere \/ ForceClose
  <2>1. PICK e \in {"stopInLoop", "forceCloseInLoop"} : pending' = Append(pending, e)
    BY <1>2 DEF StopHere, ForceClose
  <2>2. Count(pending', "startInLoop") = Count(pending, "startInLoop")
    BY <2>1, CountAppend DEF Functors
  <2>3. Attempts' = Attempts
    BY <1>2, <2>2 DEF StopHere, ForceClose, Attempts
  <2>4. CASE StopHere
    BY <2>3, <2>4 DEF StopHere, AskToStop, AttemptInv, OneAttempt
  <2>5. CASE ForceClose
    BY <2>3, <2>5, SameAttempts DEF ForceClose
  <2> QED BY <1>2, <2>4, <2>5
<1> QED BY <1>1, <1>2

\* Steps of the loop between the attempts.
LEMMA LoopAttempts ==
  ASSUME SocketInv, AttemptInv,
         \/ \E fd \in Fds : OwnerCloses(fd)
         \/ \E ready \in SUBSET Ready : Poll(ready)
         \/ EndEvents \/ EndFunctors \/ HandleTimer \/ HandlePeer
  PROVE  AttemptInv'
<1> USE Unpacked DEF attemptVars, loopVars, calls
<1>1. CASE \/ \E fd \in Fds : OwnerCloses(fd)
           \/ \E ready \in SUBSET Ready : Poll(ready)
           \/ EndFunctors
  <2>1. Attempts' = Attempts
    BY <1>1 DEF OwnerCloses, Poll, EndFunctors, Attempts
  <2> QED BY <1>1, <2>1, SameAttempts DEF OwnerCloses, Poll, EndFunctors
<1>2. CASE EndEvents
  <2>1. batch = <<>> /\ Count(<<>>, "startInLoop") = 0
    BY <1>2, CountFacts DEF EndEvents, SocketInv, Phases
  <2>2. Attempts' = Attempts
    BY <1>2, <2>1 DEF EndEvents, Attempts
  <2> QED BY <1>2, <2>2, SameAttempts DEF EndEvents
<1>3. CASE HandleTimer
  <2>1. /\ timers' = timers - 1 /\ ~due /\ due' = TRUE /\ timers > 0
        /\ UNCHANGED <<batch, opc, hasty, connect_, state_, gaveUp, aborted, pending>>
    BY <1>3 DEF HandleTimer, Handle, InHandler, SocketInv, EventsHold
  <2>2. Attempts' = Attempts
    BY <2>1 DEF Attempts
  <2> QED BY <2>1, <2>2, SameAttempts
<1>4. CASE HandlePeer
  <2>1. Attempts' = Attempts
    BY <1>4 DEF HandlePeer, Handle, ConnectionGone, Attempts
  <2> QED BY <1>4, <2>1, SameAttempts DEF HandlePeer, Handle, ConnectionGone
<1> QED BY <1>1, <1>2, <1>3, <1>4

\* restart() and startInLoop: what led to an attempt becomes it, or a timer, or nothing
\* when it is not wanted or met a final error.
LEMMA StartAttempts ==
  ASSUME SocketInv, AttemptInv, Restart \/ StartInLoop
  PROVE  AttemptInv'
<1> USE Unpacked DEF attemptVars, loopVars, calls
<1>1. CASE Restart
  <2> USE <1>1 DEF Restart, Restarted
  <2> SUFFICES ASSUME ~hasty PROVE Attempts' = 1
    BY DEF AttemptInv, OneAttempt
  <2>1. state_ = "kConnected" /\ ~due
    BY DEF SocketInv, Restarts
  <2>2. /\ timers = 0 /\ opc # "startInLoop"
        /\ Count(pending, "startInLoop") = 0 /\ Count(batch, "startInLoop") = 0
    BY <2>1, OnlyOne
  <2> QED BY <2>2 DEF Attempts
<1>2. CASE StartInLoop
  <2>1. /\ aborted = "no" /\ due /\ due' = FALSE
        /\ UNCHANGED <<connect_, batch, pending, opc, hasty>>
    BY <1>2 DEF StartInLoop
  <2> SUFFICES ASSUME ~hasty
               PROVE  /\ Attempts' <= 1 /\ (connect_ /\ ~gaveUp' => Attempts' = 1)
                      /\ aborted' # "Connector.cc:35"
    BY <2>1 DEF AttemptInv, OneAttempt
  <2>2. /\ state_ = "kDisconnected" /\ timers = 0 /\ opc # "startInLoop"
        /\ Count(pending, "startInLoop") = 0 /\ Count(batch, "startInLoop") = 0
    BY <2>1, OnlyOne
  <2>3. ASSUME timers' \in Nat
        PROVE  Attempts' = timers' + (IF state_' # "kDisconnected" THEN 1 ELSE 0)
    <3>1. /\ ~due' /\ opc' # "startInLoop"
          /\ Count(pending', "startInLoop") = 0 /\ Count(batch', "startInLoop") = 0
      BY <2>1, <2>2
    <3> QED BY <2>3, <3>1 DEF Attempts
  <2>4. CASE ~connect_ /\ UNCHANGED attemptVars
    BY <2>1, <2>2, <2>3, <2>4
  <2>5. ASSUME NEW fd \in Fds, Connecting(fd)
        PROVE  /\ state_' = "kConnecting" /\ timers' = 0 /\ aborted' # "Connector.cc:35"
    BY <2>1, <2>2, <2>5 DEF Connecting
  <2>6. CASE connect_ /\ Retry /\ UNCHANGED aborted
    BY <2>1, <2>2, <2>3, <2>6 DEF Retry
  <2>7. CASE gaveUp' = TRUE /\ UNCHANGED <<state_, timers, aborted>>
    BY <2>1, <2>2, <2>3, <2>7
  <2>8. CASE \E fd \in Fds : Connecting(fd)
    BY <2>3, <2>5, <2>8
  <2> QED BY <1>2, <2>2, <2>4, <2>6, <2>7, <2>8 DEF StartInLoop, Connect, Wanted
<1> QED BY <1>1, <1>2

\* The end of an attempt: a connection, a timer or, when it is not wanted, nothing.
LEMMA EndAttempts ==
  ASSUME SocketInv, AttemptInv, AttemptFails \/ AttemptSucceeds
  PROVE  AttemptInv'
<1> USE Unpacked DEF Handle, InHandler, calls
<1>1. /\ aborted = "no" /\ state_ = "kConnecting" /\ RemoveAndResetChannel /\ ~due
      /\ UNCHANGED <<batch, opc, hasty, connect_, due, gaveUp, aborted>>
  BY DEF AttemptFails, AttemptSucceeds
<1> SUFFICES ASSUME ~hasty
             PROVE  Attempts' <= 1 /\ (connect_ => Attempts' = 1)
  BY <1>1 DEF AttemptInv, OneAttempt
<1>2. /\ timers = 0 /\ opc # "startInLoop"
      /\ Count(pending, "startInLoop") = 0 /\ Count(batch, "startInLoop") = 0
  BY <1>1, OnlyOne
<1>3. Count(pending', "startInLoop") = 0
  BY <1>1, <1>2, ChannelEnds
<1>4. ASSUME timers' \in Nat
      PROVE  Attempts' = timers' + (IF state_' # "kDisconnected" THEN 1 ELSE 0)
  <2>1. ~due' /\ opc' # "startInLoop" /\ Count(batch', "startInLoop") = 0
    BY <1>1, <1>2
  <2> QED BY <1>3, <1>4, <2>1 DEF Attempts
<1>5. CASE AttemptFails
  <2>1. state_' = "kDisconnected" /\ timers' = IF connect_ THEN 1 ELSE 0
    BY <1>2, <1>5 DEF AttemptFails, Retry
  <2> QED BY <1>4, <2>1
<1>6. CASE AttemptSucceeds
  <2>1. state_' = "kConnected" /\ timers' = 0
    BY <1>2, <1>6 DEF AttemptSucceeds
  <2> QED BY <1>4, <2>1
<1> QED BY <1>5, <1>6

\* The functors.
LEMMA RunAttempts ==
  ASSUME SocketInv, AttemptInv,
         RunStartInLoop \/ RunStopInLoop \/ RunResetChannel \/ RunForceClose
  PROVE  AttemptInv'
<1> USE Unpacked DEF attemptVars
<1>1. CASE RunStartInLoop
  <2>1. /\ ~due /\ Count(batch', "startInLoop") \in Nat
        /\ Count(batch, "startInLoop") = Count(batch', "startInLoop") + 1
        /\ UNCHANGED <<opc, hasty>>
    BY <1>1, Taken DEF RunStartInLoop, Functors
  <2>2. due' = TRUE /\ UNCHANGED <<connect_, state_, timers, gaveUp, aborted, pending>>
    BY <1>1 DEF RunStartInLoop
  <2>3. Attempts' = Attempts
    BY <2>1, <2>2 DEF Attempts
  <2> QED BY <2>1, <2>2, <2>3, SameAttempts
<1>2. CASE RunStopInLoop
  <2>1. /\ aborted = "no" /\ ~due /\ Count(batch', "startInLoop") = Count(batch, "startInLoop")
        /\ UNCHANGED <<opc, hasty>>
    BY <1>2, Taken DEF RunStopInLoop, Functors
  <2>2. UNCHANGED <<connect_, due, gaveUp, aborted>>
    BY <1>2 DEF RunStopInLoop
  <2>3. CASE state_ # "kConnecting"
    <3>1. UNCHANGED <<pending, state_, timers>>
      BY <1>2, <2>3 DEF RunStopInLoop
    <3>2. Attempts' = Attempts
      BY <2>1, <2>2, <3>1 DEF Attempts
    <3> QED BY <2>1, <2>2, <3>2, SameAttempts
  <2>4. CASE state_ = "kConnecting"
    <3> SUFFICES ASSUME ~hasty
                 PROVE  Attempts' <= 1 /\ (connect_ => Attempts' = 1)
      BY <2>1, <2>2 DEF AttemptInv, OneAttempt
    <3>1. RemoveAndResetChannel /\ Retry
      BY <1>2, <2>4 DEF RunStopInLoop
    <3>2. /\ timers = 0 /\ opc # "startInLoop"
          /\ Count(pending, "startInLoop") = 0 /\ Count(batch, "startInLoop") = 0
      BY <2>4, OnlyOne
    <3>3. Count(pending', "startInLoop") = 0
      BY <2>1, <2>4, <3>1, <3>2, ChannelEnds
    <3>4. state_' = "kDisconnected" /\ timers' = IF connect_ THEN 1 ELSE 0
      BY <3>1, <3>2 DEF Retry
    <3>5. timers' \in Nat /\ Attempts' = timers'
      <4>1. ~due' /\ opc' # "startInLoop" /\ Count(batch', "startInLoop") = 0 /\ timers' \in Nat
        BY <2>1, <2>2, <3>2, <3>4
      <4> QED BY <3>3, <3>4, <4>1 DEF Attempts
    <3> QED BY <3>4, <3>5
  <2> QED BY <2>3, <2>4
<1>3. CASE RunResetChannel
  <2>1. Count(batch', "startInLoop") = Count(batch, "startInLoop") /\ UNCHANGED <<opc, hasty>>
    BY <1>3, Taken DEF RunResetChannel, Functors
  <2>2. UNCHANGED <<connect_, due, state_, timers, gaveUp, aborted, pending>>
    BY <1>3 DEF RunResetChannel
  <2>3. Attempts' = Attempts
    BY <2>1, <2>2 DEF Attempts
  <2> QED BY <2>1, <2>2, <2>3, SameAttempts
<1>4. CASE RunForceClose
  <2>1. Count(batch', "startInLoop") = Count(batch, "startInLoop") /\ UNCHANGED <<opc, hasty>>
    BY <1>4, Taken DEF RunForceClose, Functors
  <2>2. UNCHANGED <<connect_, due, state_, timers, gaveUp, aborted, pending>>
    BY <1>4 DEF RunForceClose, ConnectionGone
  <2>3. Attempts' = Attempts
    BY <2>1, <2>2 DEF Attempts
  <2> QED BY <2>1, <2>2, <2>3, SameAttempts
<1> QED BY <1>1, <1>2, <1>3, <1>4

\* Every step keeps the second layer.
LEMMA AttemptStep ==
  ASSUME SocketInv, AttemptInv, [Next]_vars
  PROVE  AttemptInv'
<1>1. CASE CallNext
  BY <1>1, StoreAttempts, QueueAttempts, LoopAttempts DEF CallNext
<1>2. CASE \/ \E ready \in SUBSET Ready : Poll(ready)
           \/ StartInLoop \/ AttemptFails \/ AttemptSucceeds \/ HandleTimer \/ HandlePeer
           \/ Restart \/ EndEvents \/ EndFunctors
  BY <1>2, LoopAttempts, StartAttempts, EndAttempts
<1>3. CASE RunStartInLoop \/ RunStopInLoop \/ RunResetChannel \/ RunForceClose
  BY <1>3, RunAttempts
<1>4. CASE UNCHANGED vars
  <2> USE <1>4 DEF vars, attemptVars, loopVars, calls
  <2>1. Attempts' = Attempts
    BY DEF Attempts
  <2> QED BY <2>1, SameAttempts
<1> QED BY <1>1, <1>2, <1>3, <1>4 DEF Next, LoopStep, Ended

-----------------------------------------------------------------------------
(* The third layer: the channel of an attempt is reset in time.            *)

\* The calls and the functors they queue.
LEMMA CallResets ==
  ASSUME ConnectorInv, CallNext
  PROVE  ResetInv'
<1> USE Unpacked DEF ConnectorInv, attemptVars, loopVars, calls
<1>1. CASE Start \/ StartHere
  <2> SUFFICES ASSUME ~hasty' PROVE aborted' = "no" /\ StopMeant' /\ ResetInTime'
    BY DEF ResetInv
  <2>1. AtRest /\ aborted' = "no"
    BY <1>1 DEF Start, StartHere, AskToConnect, InHandler
  <2>2. opc' # "stopInLoop" /\ UNCHANGED <<pending, batch, channel_>>
    BY <1>1, <2>1 DEF Start, StartHere, AtRest
  <2>3. ~Dead'
    BY <2>1, <2>2 DEF AtRest, Dead
  <2>4. StopMeant' /\ ResetInTime'
    BY <2>1, <2>2, <2>3 DEF AtRest, StopMeant, ResetInTime
  <2> QED BY <2>1, <2>4
<1>2. CASE Stop \/ StopHere
  <2>1. aborted' = "no" /\ connect_' = FALSE /\ UNCHANGED <<hasty, channel_, restarting>>
    BY <1>2 DEF Stop, StopHere, AskToStop, InHandler
  <2>2. restarting /\ ~hasty => ~Dead
    BY DEF SocketInv, Flags, ResetInv, ResetInTime
  <2>3. StopMeant'
    BY <2>1 DEF StopMeant
  <2>4. ~hasty => ResetInTime'
    BY <2>1, <2>2 DEF ResetInTime, Dead
  <2> QED BY <2>1, <2>3, <2>4 DEF ResetInv
<1>3. CASE QueueCall
  <2> USE <1>3 DEF QueueCall
  <2>1. opc \in Functors /\ opc # "resetChannel"
    BY DEF TypeOK, Functors
  <2>2. /\ \A f : Count(pending', f) = Count(pending, f) + (IF opc = f THEN 1 ELSE 0)
        /\ ResetFirst(pending) => ResetFirst(pending')
    BY <2>1, CountAppend, ResetFirstFacts
  <2>3. ~hasty /\ ~overtaken => StopMeant' /\ ResetInTime'
    BY <2>1, <2>2 DEF ResetInv, StopMeant, ResetInTime, Dead
  <2> QED BY <2>3 DEF ResetInv
<1>4. CASE ForceClose
  <2> USE <1>4 DEF ForceClose
  <2>1. /\ \A f : Count(pending', f)
                    = Count(pending, f) + (IF "forceCloseInLoop" = f THEN 1 ELSE 0)
        /\ ResetFirst(pending) => ResetFirst(pending')
    BY CountAppend, ResetFirstFacts DEF Functors
  <2>2. ~hasty /\ ~overtaken => StopMeant' /\ ResetInTime'
    BY <2>1 DEF ResetInv, StopMeant, ResetInTime, Dead
  <2> QED BY <2>2 DEF ResetInv
<1>5. ASSUME NEW fd \in Fds, OwnerCloses(fd) PROVE ResetInv'
  BY <1>5 DEF OwnerCloses, ResetInv, StopMeant, ResetInTime, Dead
<1> QED BY <1>1, <1>2, <1>3, <1>4, <1>5 DEF CallNext

\* Events, up to the functors.
LEMMA EventResets ==
  ASSUME ConnectorInv,
         \/ \E ready \in SUBSET Ready : Poll(ready)
         \/ AttemptFails \/ AttemptSucceeds \/ HandleTimer \/ HandlePeer \/ EndEvents \/ EndFunctors
  PROVE  ResetInv'
<1> USE Unpacked DEF ConnectorInv, calls
<1>1. ASSUME NEW ready \in SUBSET Ready, Poll(ready) PROVE ResetInv'
  <2> USE <1>1 DEF Poll, attemptVars
  <2>1. ~hasty /\ ~overtaken => ~(Dead /\ connect_) /\ ~(restarting /\ Dead)
    BY DEF ResetInv, ResetInTime
  <2> QED BY <2>1 DEF ResetInv, StopMeant, ResetInTime, Dead
<1>2. CASE EndFunctors
  <2> USE <1>2 DEF EndFunctors, attemptVars, InHandler
  <2>1. batch = <<>> /\ Count(<<>>, "resetChannel") = 0
    BY CountFacts
  <2> QED BY <2>1 DEF ResetInv, StopMeant, ResetInTime, Dead
<1>3. CASE EndEvents
  <2> USE <1>3 DEF EndEvents, attemptVars, InHandler
  <2>1. batch = <<>> /\ \A f : Count(<<>>, f) = 0
    BY CountFacts DEF SocketInv, Phases
  <2> QED BY <2>1 DEF ResetInv, StopMeant, ResetInTime, Dead
<1>4. CASE HandleTimer
  <2>1. /\ lpc = "handle" /\ "timer" \in active /\ ~restarting
        /\ UNCHANGED <<batch, opc, hasty, overtaken, restarting, connect_, channel_, aborted, pending>>
    BY <1>4 DEF HandleTimer, Handle, InHandler
  <2>2. ~hasty /\ ~overtaken => ~(Dead /\ connect_)
    BY <2>1 DEF ResetInv, ResetInTime
  <2> QED BY <2>1, <2>2 DEF ResetInv, StopMeant, ResetInTime, Dead
<1>5. CASE HandlePeer
  <2>1. /\ lpc = "handle" /\ "peer" \in active /\ aborted = "no"
        /\ restarting' \in BOOLEAN /\ (restarting' => wanted)
        /\ UNCHANGED <<batch, opc, hasty, overtaken, connect_, channel_, aborted, pending>>
    BY <1>5 DEF HandlePeer, ConnectionGone, Handle, InHandler, attemptVars
  <2>2. ~hasty /\ ~overtaken => ~(Dead /\ connect_)
    BY <2>1 DEF ResetInv, ResetInTime
  <2>3. restarting' => connect_
    BY <2>1 DEF SocketInv, EventsHold, Flags
  <2> QED BY <2>1, <2>2, <2>3 DEF ResetInv, StopMeant, ResetInTime, Dead
<1>6. CASE AttemptFails \/ AttemptSucceeds
  <2> SUFFICES ASSUME ~hasty, ~overtaken PROVE aborted' = "no" /\ StopMeant' /\ ResetInTime'
    BY <1>6 DEF AttemptFails, AttemptSucceeds, Handle, ResetInv
  <2>1. /\ aborted = "no" /\ state_ = "kConnecting" /\ RemoveAndResetChannel /\ ~due
        /\ lpc = "handle" /\ "channel" \in active /\ active' = active \ {"channel"}
        /\ UNCHANGED <<lpc, batch, opc, connect_, due, restarting, aborted>>
    BY <1>6 DEF AttemptFails, AttemptSucceeds, Handle, InHandler
  <2>2. timers = 0
    BY <2>1, OnlyOne
  <2>3. "timer" \notin active /\ "peer" \notin active /\ Count(pending, "forceCloseInLoop") = 0
    BY <2>1, <2>2 DEF SocketInv, EventsHold, ForceCloses
  <2>4. /\ \A f : Count(pending', f) = Count(pending, f) + (IF "resetChannel" = f THEN 1 ELSE 0)
        /\ ResetFirst(pending')
    BY <2>1, <2>3, ChannelEnds
  <2>5. connect_ => timers' > 0 \/ state_' = "kConnected"
    <3>1. CASE AttemptFails
      <4>1. timers' = IF connect_ THEN timers + 1 ELSE timers
        BY <3>1 DEF AttemptFails, Retry
      <4> QED BY <2>2, <4>1
    <3>2. CASE AttemptSucceeds
      BY <3>2 DEF AttemptSucceeds
    <3> QED BY <1>6, <3>1, <3>2
  <2>6. StopMeant' /\ ~restarting
    BY <2>1, <2>4, AttemptOn DEF ResetInv, StopMeant
  <2>7. Count(pending', "resetChannel") > 0
    BY <2>4
  <2> QED BY <2>1, <2>3, <2>4, <2>5, <2>6, <2>7 DEF ResetInTime
<1> QED BY <1>1, <1>2, <1>3, <1>4, <1>5, <1>6

\* restart() and startInLoop: the channel of the attempt before is reset by then.
LEMMA StartResets ==
  ASSUME ConnectorInv, Restart \/ StartInLoop
  PROVE  ResetInv'
<1> USE Unpacked DEF ConnectorInv, attemptVars, loopVars, calls
<1>1. CASE Restart
  <2> USE <1>1 DEF Restart
  <2> SUFFICES ASSUME ~hasty, wanted PROVE StopMeant' /\ ResetInTime'
    BY DEF ResetInv
  <2>1. ~overtaken /\ connect_
    BY DEF SocketInv, Flags
  <2>2. StopMeant /\ ~Dead
    BY <2>1 DEF ResetInv, ResetInTime
  <2> QED BY <2>1, <2>2 DEF StopMeant, ResetInTime, Dead
<1>2. CASE StartInLoop
  <2>1. /\ aborted = "no" /\ due /\ due' = FALSE /\ ~restarting
        /\ UNCHANGED <<connect_, batch, pending, opc, hasty, overtaken, restarting>>
    BY <1>2 DEF StartInLoop, SocketInv, Restarts
  <2> SUFFICES ASSUME ~hasty, ~overtaken PROVE aborted' = "no" /\ StopMeant' /\ ResetInTime'
    BY <2>1 DEF ResetInv
  <2>2. StopMeant'
    BY <2>1 DEF ResetInv, StopMeant
  <2>3. ~(Dead /\ connect_)
    BY <2>1 DEF ResetInv, ResetInTime
  <2>4. state_ = "kDisconnected"
    BY <2>1, OnlyOne
  <2>5. ~channel_.added /\ (connect_ => channel_ = NoChannel)
    BY <2>1, <2>3, <2>4 DEF SocketInv, AttemptOwnsSocket, Dead
  <2>6. aborted' = "no" /\ (connect_ => ~Dead')
    <3>1. CASE ~connect_
      BY <1>2, <2>1, <2>4, <3>1 DEF StartInLoop, Wanted
    <3>2. CASE connect_
      <4>1. Connect
        BY <1>2, <2>4, <3>2 DEF StartInLoop, Wanted
      <4>2. CASE \E fd \in Fds : Connecting(fd)
        BY <2>1, <2>5, <3>2, <4>2 DEF Connecting, Dead
      <4>3. CASE UNCHANGED <<channel_, aborted>>
        BY <2>1, <2>3, <3>2, <4>3 DEF Dead
      <4> QED BY <4>1, <4>2, <4>3 DEF Connect
    <3> QED BY <3>1, <3>2
  <2> QED BY <2>1, <2>2, <2>6 DEF ResetInTime
<1> QED BY <1>1, <1>2

\* The functors.
LEMMA RunResets ==
  ASSUME ConnectorInv, RunStartInLoop \/ RunStopInLoop \/ RunResetChannel \/ RunForceClose
  PROVE  ResetInv'
<1> USE Unpacked DEF ConnectorInv, attemptVars
<1>1. CASE RunStartInLoop
  <2>1. /\ lpc = "run" /\ ~due /\ ~restarting
        /\ Count(batch', "startInLoop") \in Nat
        /\ Count(batch, "startInLoop") = Count(batch', "startInLoop") + 1
        /\ \A f : f # "startInLoop" => Count(batch', f) = Count(batch, f)
        /\ UNCHANGED <<opc, hasty, overtaken>>
    BY <1>1, Taken DEF RunStartInLoop, Functors
  <2>2. UNCHANGED <<connect_, channel_, aborted, pending, restarting>>
    BY <1>1 DEF RunStartInLoop
  <2>3. ~hasty => timers = 0 /\ state_ = "kDisconnected"
    <3>1. ~hasty => Attempts <= 1
      BY DEF AttemptInv, OneAttempt
    <3> QED BY <2>1, <3>1 DEF Attempts
  <2>4. ~hasty /\ ~overtaken => ~(Dead /\ connect_)
    BY <2>3 DEF ResetInv, ResetInTime
  <2> QED BY <2>1, <2>2, <2>4 DEF ResetInv, StopMeant, ResetInTime, Dead
<1>2. CASE RunStopInLoop
  <2>1. /\ lpc = "run" /\ ~restarting
        /\ Count(batch', "stopInLoop") \in Nat
        /\ Count(batch, "stopInLoop") = Count(batch', "stopInLoop") + 1
        /\ UNCHANGED <<opc, hasty, overtaken, connect_, restarting, aborted>>
    BY <1>2, Taken DEF RunStopInLoop, Functors
  <2>2. ~hasty /\ ~overtaken => ~connect_
    BY <2>1 DEF ResetInv, StopMeant
  <2> QED BY <2>1, <2>2 DEF ResetInv, StopMeant, ResetInTime
<1>3. CASE RunResetChannel
  <2>1. /\ \A f : f # "resetChannel" => Count(batch', f) = Count(batch, f)
        /\ UNCHANGED <<opc, hasty, overtaken>>
    BY <1>3, Taken DEF RunResetChannel, Functors
  <2>2. channel_' = NoChannel /\ UNCHANGED <<connect_, aborted, pending, restarting>>
    BY <1>3 DEF RunResetChannel
  <2> QED BY <2>1, <2>2 DEF ResetInv, StopMeant, ResetInTime, Dead
<1>4. CASE RunForceClose
  <2>1. /\ lpc = "run" /\ ~restarting /\ aborted = "no"
        /\ \A f : f # "forceCloseInLoop" => Count(batch', f) = Count(batch, f)
        /\ ResetFirst(batch) => Count(batch, "resetChannel") = 0
        /\ UNCHANGED <<lpc, opc, hasty, overtaken>>
    BY <1>4, Taken DEF RunForceClose, Functors
  <2>2. /\ UNCHANGED <<connect_, channel_, aborted, pending>>
        /\ restarting' => conn # NoConn /\ wanted
    <3>1. CASE conn # NoConn
      BY <1>4, <3>1 DEF RunForceClose, ConnectionGone
    <3>2. CASE conn = NoConn
      BY <1>4, <2>1, <3>2 DEF RunForceClose
    <3> QED BY <3>1, <3>2
  <2>3. ~hasty /\ ~overtaken => ~(Dead /\ connect_)
    BY <2>1 DEF ResetInv, ResetInTime
  <2>4. restarting' => connect_
    BY <2>2 DEF SocketInv, Flags
  <2> QED BY <2>1, <2>2, <2>3, <2>4 DEF ResetInv, StopMeant, ResetInTime, Dead
<1> QED BY <1>1, <1>2, <1>3, <1>4

-----------------------------------------------------------------------------
(* The theorems.                                                           *)

\* The inductive invariant holds in every reachable state.
THEOREM ConnectorInvariant == Spec => []ConnectorInv
<1>1. ConnectorInv /\ [Next]_vars => ConnectorInv'
  <2> SUFFICES ASSUME ConnectorInv, [Next]_vars PROVE ConnectorInv'
    OBVIOUS
  <2>1. SocketInv' /\ AttemptInv'
    BY SocketStep, AttemptStep DEF ConnectorInv
  <2>2. ResetInv'
    <3>1. CASE CallNext
      BY <3>1, CallResets
    <3>2. CASE LoopStep
      BY <3>2, EventResets, StartResets, RunResets DEF LoopStep
    <3>3. CASE UNCHANGED vars
      BY <3>3 DEF vars, attemptVars, loopVars, calls, ConnectorInv, ResetInv, StopMeant,
                  ResetInTime, Dead
    <3> QED BY <3>1, <3>2, <3>3 DEF Next, Ended
  <2> QED BY <2>1, <2>2 DEF ConnectorInv
<1> QED BY <1>1, InitInv, PTL DEF Spec

\* The asserts of startInLoop and of connecting (Connector.cc:35,105), whenever and
\* however often connect() and stop() are called: the first fails only after a start()
\* that did not wait for the end of the one before, the second only then or after a
\* restart() that undid a stop().
THEOREM ConnectorAsserts == Spec => []NoAssertFails
<1>1. ConnectorInv => NoAssertFails
  BY DEF ConnectorInv, AttemptInv, ResetInv, NoAssertFails
<1> QED BY <1>1, ConnectorInvariant, PTL

\* Whatever the callers do, the connector has exactly the descriptor of the attempt that
\* is on, watched by the poller, and no event of it is handled after the attempt ended.
THEOREM SocketOwned == Spec => []AttemptOwnsSocket
<1>1. ConnectorInv => AttemptOwnsSocket
  BY DEF ConnectorInv, SocketInv
<1> QED BY <1>1, ConnectorInvariant, PTL

\* As long as each start() waits for the end of the one before, there is never more than
\* one attempt, pending or on, and while the connector is wanted and met no final error
\* there is one, also after a restart() that undid a stop().
THEOREM AlwaysOneAttempt == Spec => []OneAttempt
<1>1. ConnectorInv => OneAttempt
  BY DEF ConnectorInv, AttemptInv
<1> QED BY <1>1, ConnectorInvariant, PTL
=============================================================================
