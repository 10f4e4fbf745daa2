---------------------------- MODULE HandoffProofs ----------------------------
(***************************************************************************)
(* Threads that hand work to others, EventLoop and ThreadPool.             *)
(*                                                                         *)
(* EventLoop, for every set of callers and of functors and every bound of  *)
(* the eventfd: type correctness, no wakeup and no quit() is lost, and the *)
(* two vectors of the code implement one FIFO queue.                       *)
(*                                                                         *)
(* ThreadPool, for any number of workers, producers and places in its      *)
(* queue: no notification is lost.                                         *)
(***************************************************************************)
EXTENDS EventLoop, ThreadPool, SequenceTheorems, FiniteSetTheorems, TLAPS

-----------------------------------------------------------------------------
(* Facts about sequences.                                                  *)

\* Appending adds exactly the appended element to the elements of a sequence.
LEMMA RangeAppend ==
  ASSUME NEW S, NEW s \in Seq(S), NEW e \in S
  PROVE  Range(Append(s, e)) = Range(s) \union {e}
<1>1. /\ Len(Append(s, e)) = Len(s) + 1
      /\ \A i \in 1..Len(s) : Append(s, e)[i] = s[i]
      /\ Append(s, e)[Len(s) + 1] = e
      /\ DOMAIN Append(s, e) = 1..(Len(s) + 1)
  OBVIOUS
<1>2. DOMAIN s = 1..Len(s) /\ Len(s) \in Nat
  OBVIOUS
<1> QED BY <1>1, <1>2 DEF Range

\* The elements of a concatenation are those of its two parts.
LEMMA RangeConcat ==
  ASSUME NEW S, NEW s \in Seq(S), NEW t \in Seq(S)
  PROVE  Range(s \o t) = Range(s) \union Range(t)
<1> DEFINE u == s \o t
<1>1. /\ Len(u) = Len(s) + Len(t)
      /\ \A i \in 1..Len(u) : u[i] = IF i <= Len(s) THEN s[i] ELSE t[i - Len(s)]
      /\ DOMAIN u = 1..Len(u) /\ DOMAIN s = 1..Len(s) /\ DOMAIN t = 1..Len(t)
      /\ Len(s) \in Nat /\ Len(t) \in Nat
  OBVIOUS
<1>2. ASSUME NEW x \in Range(s) PROVE x \in Range(u)
  BY <1>1 DEF Range
<1>3. ASSUME NEW x \in Range(t) PROVE x \in Range(u)
  <2>1. PICK i \in 1..Len(t) : x = t[i]
    BY <1>1 DEF Range
  <2>2. i + Len(s) \in 1..Len(u) /\ u[i + Len(s)] = x
    BY <1>1, <2>1
  <2> QED BY <1>1, <2>2 DEF Range
<1>4. ASSUME NEW x \in Range(u) PROVE x \in Range(s) \union Range(t)
  <2>1. PICK i \in 1..Len(u) : x = u[i]
    BY <1>1 DEF Range
  <2>2. CASE i <= Len(s)
    BY <1>1, <2>1, <2>2 DEF Range
  <2>3. CASE i > Len(s)
    <3>1. i - Len(s) \in 1..Len(t) /\ x = t[i - Len(s)]
      BY <1>1, <2>1, <2>3
    <3> QED BY <1>1, <3>1 DEF Range
  <2> QED BY <1>1, <2>1, <2>2, <2>3
<1> QED BY <1>2, <1>3, <1>4

-----------------------------------------------------------------------------
(* Type correctness.  The Boolean flags are kept apart from the other      *)
(* variables: the provers do better with them alone.                       *)

Flags == quit_ \in BOOLEAN /\ callingPendingFunctors_ \in BOOLEAN

Shapes ==
  /\ lpc \in LoopPCs
  /\ cpc \in [Callers -> {"idle", "wakeup"}]
  /\ pendingFunctors_ \in Seq(Functors)
  /\ functors \in Seq(Functors)
  /\ wakeupFd_ \in 0..EventfdMax
  /\ activeChannels_ \subseteq {"wakeup", "io"}
  /\ ran \in Seq(Functors)
  /\ quiet \subseteq Functors

\* The flags stay Boolean under every step.
LEMMA FlagsStep ==
  ASSUME Flags, [Next]_vars
  PROVE  Flags'
<1> USE DEF Flags
<1>1. CASE CallerNext
  BY <1>1 DEF CallerNext, Wakeup, Quit, QueueInLoop
<1>2. CASE UserNext
  BY <1>2 DEF UserNext, InLoopQuit, InLoopQueueInLoop, InLoopRunInLoop
<1>3. CASE Loop \/ WhileTest \/ PollWakeup \/ PollOther
  BY <1>3 DEF Loop, WhileTest, PollWakeup, PollOther, PollReturns
<1>4. CASE HandleRead \/ HandleIo \/ IoReturns
  BY <1>4 DEF HandleRead, HandleIo, IoReturns
<1>5. CASE BeginPendingFunctors \/ SwapPendingFunctors \/ EndPendingFunctors
  BY <1>5 DEF BeginPendingFunctors, SwapPendingFunctors, Swapped, EndPendingFunctors
<1>6. CASE StartFunctor \/ FunctorReturns
  BY <1>6 DEF StartFunctor, FunctorReturns
<1>7. CASE UNCHANGED vars
  BY <1>7 DEF vars
<1> QED BY <1>1, <1>2, <1>3, <1>4, <1>5, <1>6, <1>7 DEF Next, LoopStep

\* The other variables keep their shape under every step.
LEMMA ShapesStep ==
  ASSUME Shapes, [Next]_vars
  PROVE  Shapes'
<1> USE EventfdMaxAssumption DEF EventfdMaxAssumption, Shapes, LoopPCs
<1>1. ASSUME NEW c \in Callers, Wakeup(c) PROVE Shapes'
  BY <1>1 DEF Wakeup, Incremented
<1>2. ASSUME NEW c \in Callers, Quit(c) PROVE Shapes'
  BY <1>2 DEF Quit
<1>3. ASSUME NEW c \in Callers, NEW f \in Functors, QueueInLoop(c, f) PROVE Shapes'
  BY <1>3 DEF QueueInLoop
<1>4. CASE InLoopQuit
  BY <1>4 DEF InLoopQuit
<1>5. ASSUME NEW f \in Functors, InLoopQueueInLoop(f) PROVE Shapes'
  BY <1>5 DEF InLoopQueueInLoop, WakeupNeeded, Incremented
<1>6. ASSUME NEW f \in Functors, InLoopRunInLoop(f) PROVE Shapes'
  BY <1>6 DEF InLoopRunInLoop
<1>7. CASE Loop \/ WhileTest \/ PollWakeup \/ PollOther
  BY <1>7 DEF Loop, WhileTest, PollWakeup, PollOther, PollReturns
<1>8. CASE HandleRead
  BY <1>8 DEF HandleRead
<1>9. CASE HandleIo
  BY <1>9 DEF HandleIo
<1>10. CASE IoReturns
  BY <1>10 DEF IoReturns
<1>11. CASE BeginPendingFunctors \/ SwapPendingFunctors \/ EndPendingFunctors
  BY <1>11 DEF BeginPendingFunctors, SwapPendingFunctors, Swapped, EndPendingFunctors
<1>12. CASE StartFunctor
  BY <1>12 DEF StartFunctor
<1>13. CASE FunctorReturns
  BY <1>13 DEF FunctorReturns
<1>14. CASE UNCHANGED vars
  BY <1>14 DEF vars
<1> QED BY <1>1, <1>2, <1>3, <1>4, <1>5, <1>6, <1>7, <1>8, <1>9, <1>10, <1>11, <1>12,
           <1>13, <1>14 DEF Next, CallerNext, UserNext, LoopStep

\* Every variable keeps its type in every reachable state.
THEOREM TypeCorrect == Spec => []TypeOK
<1>1. TypeOK <=> Flags /\ Shapes
  BY Zenon DEF TypeOK, Flags, Shapes
<1>2. Init => Flags
  BY DEF Init, Flags
<1>3. Init => Shapes
  BY EventfdMaxAssumption DEF EventfdMaxAssumption, Init, Shapes, LoopPCs
<1>4. Flags /\ [Next]_vars => Flags'
  BY FlagsStep
<1>5. Shapes /\ [Next]_vars => Shapes'
  BY ShapesStep
<1> QED BY <1>1, <1>2, <1>3, <1>4, <1>5, PTL DEF Spec

-----------------------------------------------------------------------------
(* No wakeup and no quit() is lost.                                        *)

\* callingPendingFunctors_ tells where the loop thread is; queueInLoop relies on
\* it to know that the current batch has already been taken.
CallingInv == lpc \in {"swap", "run", "functor"} => callingPendingFunctors_ = TRUE

\* The local batch is empty except while doPendingFunctors runs it, so the swap
\* leaves pendingFunctors_ empty.
BatchInv == lpc \notin {"run", "functor"} => functors = <<>>

\* Unless the loop thread is on its way to the swap, what is queued has a wakeup
\* under way.  NoLostWakeup speaks of "poll" only; the strengthening is needed
\* because the wakeup must have survived since the previous swap.
WakeupInv ==
  \/ lpc \in {"handle", "io", "swap"}
  \/ Range(pendingFunctors_) \subseteq quiet
  \/ Signalled

\* A thread that owes a write keeps owing it until it writes, and only the
\* wakeup channel's handler empties the eventfd.
LEMMA SignalledStep ==
  ASSUME Shapes, [Next]_vars, Signalled, ~HandleRead
  PROVE  Signalled'
<1> USE EventfdMaxAssumption DEF EventfdMaxAssumption, Shapes, Signalled
<1>1. ASSUME NEW c \in Callers, Wakeup(c) PROVE Signalled'
  BY <1>1 DEF Wakeup, Incremented
<1>2. ASSUME NEW c \in Callers, Quit(c) PROVE Signalled'
  BY <1>2 DEF Quit
<1>3. ASSUME NEW c \in Callers, NEW f \in Functors, QueueInLoop(c, f) PROVE Signalled'
  BY <1>3 DEF QueueInLoop
<1>4. ASSUME NEW f \in Functors, InLoopQueueInLoop(f) PROVE Signalled'
  BY <1>4 DEF InLoopQueueInLoop, WakeupNeeded, Incremented
<1>5. CASE UNCHANGED <<wakeupFd_, cpc>>
  BY <1>5
<1>6. CASE InLoopQuit \/ (\E f \in Functors : InLoopRunInLoop(f))
  BY <1>6, <1>5 DEF InLoopQuit, InLoopRunInLoop
<1>7. CASE Loop \/ PollOther \/ (LoopStep /\ ~HandleRead)
  BY <1>7, <1>5 DEF Loop, PollOther, LoopStep, WhileTest, PollWakeup, PollReturns,
     HandleIo, IoReturns, BeginPendingFunctors, SwapPendingFunctors, StartFunctor,
     FunctorReturns, EndPendingFunctors
<1>8. CASE UNCHANGED vars
  BY <1>8, <1>5 DEF vars
<1> QED BY <1>1, <1>2, <1>3, <1>4, <1>6, <1>7, <1>8 DEF Next, CallerNext, UserNext

\* callingPendingFunctors_ follows the program counter.
LEMMA CallingStep ==
  ASSUME CallingInv, [Next]_vars
  PROVE  CallingInv'
<1> USE DEF CallingInv
<1>1. CASE CallerNext
  BY <1>1 DEF CallerNext, Wakeup, Quit, QueueInLoop
<1>2. CASE UserNext
  BY <1>2 DEF UserNext, InLoopQuit, InLoopQueueInLoop, InLoopRunInLoop
<1>3. CASE Loop \/ WhileTest \/ PollWakeup \/ PollOther
  BY <1>3 DEF Loop, WhileTest, PollWakeup, PollOther, PollReturns
<1>4. CASE HandleRead \/ HandleIo \/ IoReturns
  BY <1>4 DEF HandleRead, HandleIo, IoReturns
<1>5. CASE BeginPendingFunctors \/ SwapPendingFunctors \/ EndPendingFunctors
  BY <1>5 DEF BeginPendingFunctors, SwapPendingFunctors, Swapped, EndPendingFunctors
<1>6. CASE StartFunctor \/ FunctorReturns
  BY <1>6 DEF StartFunctor, FunctorReturns
<1>7. CASE UNCHANGED vars
  BY <1>7 DEF vars
<1> QED BY <1>1, <1>2, <1>3, <1>4, <1>5, <1>6, <1>7 DEF Next, LoopStep

\* The batch is empty outside doPendingFunctors.
LEMMA BatchStep ==
  ASSUME BatchInv, [Next]_vars
  PROVE  BatchInv'
<1> USE DEF BatchInv
<1>1. CASE CallerNext
  BY <1>1 DEF CallerNext, Wakeup, Quit, QueueInLoop
<1>2. CASE UserNext
  BY <1>2 DEF UserNext, InLoopQuit, InLoopQueueInLoop, InLoopRunInLoop
<1>3. CASE Loop \/ WhileTest \/ PollWakeup \/ PollOther
  BY <1>3 DEF Loop, WhileTest, PollWakeup, PollOther, PollReturns
<1>4. CASE HandleRead \/ HandleIo \/ IoReturns
  BY <1>4 DEF HandleRead, HandleIo, IoReturns
<1>5. CASE BeginPendingFunctors \/ SwapPendingFunctors \/ EndPendingFunctors
  BY <1>5 DEF BeginPendingFunctors, SwapPendingFunctors, Swapped, EndPendingFunctors
<1>6. CASE StartFunctor \/ FunctorReturns
  BY <1>6 DEF StartFunctor, FunctorReturns
<1>7. CASE UNCHANGED vars
  BY <1>7 DEF vars
<1> QED BY <1>1, <1>2, <1>3, <1>4, <1>5, <1>6, <1>7 DEF Next, LoopStep

\* Queued functors keep their wakeup: one step of the induction.
LEMMA WakeupStep ==
  ASSUME Shapes, CallingInv, BatchInv, WakeupInv, [Next]_vars
  PROVE  WakeupInv'
<1>1. CASE Signalled /\ ~HandleRead
  BY <1>1, SignalledStep DEF WakeupInv
<1>2. CASE HandleRead
  BY <1>2 DEF HandleRead, WakeupInv
<1>3. ASSUME ~Signalled, [Next]_vars, ~HandleRead PROVE WakeupInv'
  <2> USE EventfdMaxAssumption DEF EventfdMaxAssumption, Shapes
  <2>1. ASSUME NEW c \in Callers, NEW f \in Functors, QueueInLoop(c, f) PROVE WakeupInv'
    BY <2>1 DEF QueueInLoop, WakeupInv, Signalled
  <2>2. ASSUME NEW c \in Callers, Wakeup(c) PROVE WakeupInv'
    BY <2>2, <1>3 DEF Wakeup, Signalled
  <2>3. ASSUME NEW c \in Callers, Quit(c) PROVE WakeupInv'
    BY <2>3 DEF Quit, WakeupInv, Signalled
  <2>4. ASSUME NEW f \in Functors, InLoopQueueInLoop(f) PROVE WakeupInv'
    <3>1. CASE lpc = "functor"
      <4>1. callingPendingFunctors_
        BY <3>1 DEF CallingInv
      <4>2. wakeupFd_' > 0
        BY <4>1, <2>4 DEF InLoopQueueInLoop, WakeupNeeded, Incremented
      <4> QED BY <4>2 DEF WakeupInv, Signalled
    <3>2. CASE lpc = "io"
      BY <3>2, <2>4 DEF InLoopQueueInLoop, WakeupInv
    <3>3. CASE lpc = "outside"
      <4>1. Range(pendingFunctors_) \subseteq quiet
        BY <3>3, <1>3 DEF WakeupInv
      <4>2. Range(pendingFunctors_') = Range(pendingFunctors_) \union {f}
        BY <2>4, RangeAppend DEF InLoopQueueInLoop
      <4>3. quiet' = quiet \union {f}
        BY <3>3, <2>4 DEF InLoopQueueInLoop, looping_
      <4>4. Range(pendingFunctors_)' = Range(pendingFunctors_')
        BY DEF Range
      <4> QED BY <4>1, <4>2, <4>3, <4>4 DEF WakeupInv
    <3> QED BY <2>4, <3>1, <3>2, <3>3 DEF InLoopQueueInLoop, InUserCode
  <2>5. CASE UNCHANGED <<lpc, pendingFunctors_, quiet>>
    BY <2>5, <1>3 DEF WakeupInv, Range
  <2>6. CASE InLoopQuit \/ (\E f \in Functors : InLoopRunInLoop(f)) \/ UNCHANGED vars
    BY <2>6, <2>5 DEF InLoopQuit, InLoopRunInLoop, vars
  <2>7. CASE Loop \/ WhileTest \/ StartFunctor \/ FunctorReturns \/ EndPendingFunctors
    <3>1. pendingFunctors_' = pendingFunctors_ /\ quiet' = quiet
      BY <2>7 DEF Loop, WhileTest, StartFunctor, FunctorReturns, EndPendingFunctors
    <3>2. lpc \notin {"handle", "io", "swap"}
      BY <2>7 DEF Loop, WhileTest, StartFunctor, FunctorReturns, EndPendingFunctors
    <3> QED BY <3>1, <3>2, <1>3 DEF WakeupInv, Range
  <2>8. CASE PollWakeup \/ PollOther \/ HandleIo \/ IoReturns \/ BeginPendingFunctors
    BY <2>8 DEF PollWakeup, PollOther, PollReturns, HandleIo, IoReturns,
       BeginPendingFunctors, WakeupInv
  <2>9. CASE SwapPendingFunctors
    <3>1. pendingFunctors_' = <<>>
      BY <2>9 DEF SwapPendingFunctors, Swapped, BatchInv
    <3>2. Range(pendingFunctors_)' = {}
      BY <3>1 DEF Range
    <3> QED BY <3>2 DEF WakeupInv
  <2> QED BY <1>3, <2>1, <2>2, <2>3, <2>4, <2>6, <2>7, <2>8, <2>9
          DEF Next, CallerNext, UserNext, LoopStep
<1> QED BY <1>1, <1>2, <1>3

\* The inductive invariant behind both theorems on wakeups.
IInv == Shapes /\ CallingInv /\ BatchInv /\ WakeupInv /\ NoLostQuit

\* A quit() stays announced until the loop thread leaves poll.
LEMMA QuitStep ==
  ASSUME Shapes, NoLostQuit, [Next]_vars
  PROVE  NoLostQuit'
<1>1. CASE Signalled /\ ~HandleRead
  BY <1>1, SignalledStep DEF NoLostQuit
<1>2. CASE HandleRead
  BY <1>2 DEF HandleRead, NoLostQuit
<1>3. ASSUME ~Signalled, ~HandleRead PROVE NoLostQuit'
  <2>1. ASSUME NEW c \in Callers, Quit(c) PROVE NoLostQuit'
    BY <2>1 DEF Quit, NoLostQuit, Signalled, Shapes
  <2>2. ASSUME NEW c \in Callers, Wakeup(c) PROVE NoLostQuit'
    BY <2>2, <1>3 DEF Wakeup, Signalled
  <2>3. CASE WhileTest
    BY <2>3 DEF WhileTest, NoLostQuit
  <2>4. CASE UNCHANGED <<lpc, quit_>>
    BY <2>4, <1>3 DEF NoLostQuit
  <2>5. ASSUME NEW c \in Callers, NEW f \in Functors, QueueInLoop(c, f) PROVE NoLostQuit'
    BY <2>5, <2>4 DEF QueueInLoop
  <2>6. CASE InLoopQuit
    BY <2>6 DEF InLoopQuit, InUserCode, NoLostQuit
  <2>7. CASE \E f \in Functors : InLoopQueueInLoop(f) \/ InLoopRunInLoop(f)
    BY <2>7, <2>4 DEF InLoopQueueInLoop, InLoopRunInLoop
  <2>8. CASE UNCHANGED vars
    BY <2>8, <2>4 DEF vars
  <2>9. CASE Loop \/ PollOther \/ (LoopStep /\ ~HandleRead /\ ~WhileTest)
    <3>1. lpc' # "poll"
      BY <2>9 DEF Loop, PollOther, LoopStep, PollWakeup, PollReturns, HandleIo, IoReturns,
         BeginPendingFunctors, SwapPendingFunctors, StartFunctor, FunctorReturns,
         EndPendingFunctors
    <3> QED BY <3>1 DEF NoLostQuit
  <2> QED BY <1>3, <2>1, <2>2, <2>3, <2>5, <2>6, <2>7, <2>8, <2>9
          DEF Next, CallerNext, UserNext
<1> QED BY <1>1, <1>2, <1>3

\* The inductive invariant holds in every reachable state.
THEOREM InductiveInvariant == Spec => []IInv
<1>1. Init => IInv
  BY EventfdMaxAssumption DEF EventfdMaxAssumption, Init, IInv, Shapes, LoopPCs,
     CallingInv, BatchInv, WakeupInv, NoLostQuit, Range
<1>2. IInv /\ [Next]_vars => IInv'
  <2> SUFFICES ASSUME IInv, [Next]_vars PROVE IInv'
    OBVIOUS
  <2>1. Shapes'
    BY ShapesStep DEF IInv
  <2>2. CallingInv'
    BY CallingStep DEF IInv
  <2>3. BatchInv'
    BY BatchStep DEF IInv
  <2>4. WakeupInv'
    BY WakeupStep DEF IInv
  <2>5. NoLostQuit'
    BY QuitStep DEF IInv
  <2> QED BY <2>1, <2>2, <2>3, <2>4, <2>5 DEF IInv
<1> QED BY <1>1, <1>2, PTL DEF Spec

\* However the calls of other threads interleave with the loop, the loop thread
\* never sleeps in poll on functors it has not been, or is not about to be, told
\* of (queueInLoop, EventLoop.cc:119-128, against doPendingFunctors).
THEOREM WakeupNeverLost == Spec => []NoLostWakeup
<1>1. IInv => NoLostWakeup
  BY DEF IInv, WakeupInv, NoLostWakeup
<1> QED BY <1>1, InductiveInvariant, PTL

\* Nor does it sleep in poll on a quit() (EventLoop.cc:104-109).
THEOREM QuitNeverLost == Spec => []NoLostQuit
<1>1. IInv => NoLostQuit
  BY DEF IInv
<1> QED BY <1>1, InductiveInvariant, PTL

-----------------------------------------------------------------------------
(* The two vectors implement one FIFO queue.                               *)

\* What was submitted is what the abstract queue has seen.
LEMMA SubmittedIsSeen ==
  ASSUME Shapes
  PROVE  FunctorQueue!Seen = Submitted
<1>1. Range(functors \o pendingFunctors_) = Range(functors) \union Range(pendingFunctors_)
  BY RangeConcat DEF Shapes
<1>2. FunctorQueue!Seen = Range(functors \o pendingFunctors_) \union Range(ran)
  BY DEF FunctorQueue!Seen, FunctorQueue!Range, Range
<1> QED BY <1>1, <1>2 DEF Submitted

\* Each step of the loop or of a caller is a step of the abstract queue or
\* leaves it alone.
LEMMA FunctorQueueStep ==
  ASSUME Shapes, BatchInv, [Next]_vars
  PROVE  [FunctorQueue!Next]_FunctorQueue!vars
<1> DEFINE queue == functors \o pendingFunctors_
<1> USE DEF Shapes
<1>0. FunctorQueue!Seen = Submitted
  BY SubmittedIsSeen
<1>1. CASE UNCHANGED <<functors, pendingFunctors_, ran>>
  BY <1>1 DEF FunctorQueue!vars
<1>2. ASSUME NEW f \in Functors, f \notin Submitted,
             pendingFunctors_' = Append(pendingFunctors_, f), UNCHANGED <<functors, ran>>
      PROVE  FunctorQueue!Next
  <2>1. functors \o Append(pendingFunctors_, f) = Append(functors \o pendingFunctors_, f)
    OBVIOUS
  <2>2. FunctorQueue!Enqueue(f)
    BY <1>0, <1>2, <2>1 DEF FunctorQueue!Enqueue
  <2> QED BY <2>2 DEF FunctorQueue!Next
<1>3. ASSUME NEW c \in Callers, NEW f \in Functors, QueueInLoop(c, f)
      PROVE  FunctorQueue!Next
  BY <1>2, <1>3 DEF QueueInLoop
<1>4. ASSUME NEW f \in Functors, InLoopQueueInLoop(f) PROVE FunctorQueue!Next
  BY <1>2, <1>4 DEF InLoopQueueInLoop
<1>5. ASSUME NEW f \in Functors, InLoopRunInLoop(f) PROVE FunctorQueue!Next
  <2>1. FunctorQueue!RunNow(f)
    BY <1>0, <1>5 DEF InLoopRunInLoop, FunctorQueue!RunNow
  <2> QED BY <2>1 DEF FunctorQueue!Next
<1>6. CASE SwapPendingFunctors
  <2>1. functors = <<>> /\ pendingFunctors_' = <<>> /\ functors' = pendingFunctors_
    BY <1>6 DEF SwapPendingFunctors, Swapped, BatchInv
  <2>2. functors' \o pendingFunctors_' = functors \o pendingFunctors_
    BY <2>1
  <2> QED BY <1>6, <2>2 DEF SwapPendingFunctors, Swapped, FunctorQueue!vars
<1>7. CASE StartFunctor
  <2>1. functors # <<>> /\ functors' = Tail(functors) /\ pendingFunctors_' = pendingFunctors_
    BY <1>7 DEF StartFunctor
  <2>2. queue # <<>> /\ Head(queue) = Head(functors)
    BY <2>1
  <2>3. Tail(queue) = Tail(functors) \o pendingFunctors_
    BY <2>1
  <2>4. FunctorQueue!RunHead
    BY <1>7, <2>1, <2>2, <2>3 DEF StartFunctor, FunctorQueue!RunHead
  <2> QED BY <2>4 DEF FunctorQueue!Next
<1>8. CASE \E c \in Callers : Wakeup(c) \/ Quit(c)
  BY <1>1, <1>8 DEF Wakeup, Quit
<1>9. CASE InLoopQuit \/ Loop \/ PollOther \/ UNCHANGED vars
  BY <1>1, <1>9 DEF InLoopQuit, Loop, PollOther, PollReturns, vars
<1>10. CASE \/ WhileTest \/ PollWakeup \/ HandleRead \/ HandleIo \/ IoReturns
            \/ BeginPendingFunctors \/ FunctorReturns \/ EndPendingFunctors
  BY <1>1, <1>10 DEF WhileTest, PollWakeup, PollReturns, HandleRead, HandleIo, IoReturns,
     BeginPendingFunctors, FunctorReturns, EndPendingFunctors
<1> QED BY <1>3, <1>4, <1>5, <1>6, <1>7, <1>8, <1>9, <1>10
        DEF Next, CallerNext, UserNext, LoopStep

\* pendingFunctors_ and the batch swapped out of it implement FunctorQueue: the
\* order of arrival is kept across the swap (EventLoop.cc:200-207) and nothing is
\* started twice.
THEOREM QueueRefinement == Spec => ImplementsFunctorQueue
<1>1. Init => FunctorQueue!Init
  BY DEF Init, FunctorQueue!Init
<1>2. IInv /\ [Next]_vars => [FunctorQueue!Next]_FunctorQueue!vars
  BY FunctorQueueStep DEF IInv
<1> QED BY <1>1, <1>2, InductiveInvariant, PTL
        DEF Spec, ImplementsFunctorQueue, FunctorQueue!Spec

-----------------------------------------------------------------------------
(* ThreadPool.                                                             *)

USE ThreadPoolAssumption DEF ThreadPoolAssumption

WorkerPCs == {"unborn", "while", "take", "wait", "woken", "task", "done"}
ProducerPCs == {"idle", "run", "wait", "woken"}

\* The part of the types the argument needs.
PoolTypes ==
  /\ queue_ \in Seq(Tasks)
  /\ wpc \in [Workers -> WorkerPCs]
  /\ ppc \in [Producers -> ProducerPCs]
  /\ \A p \in Producers : ppc[p] # "idle" => task[p] \in Tasks
  /\ task \in [Producers -> 0..MaxTasks]
  /\ calls \in 0..MaxTasks

\* Threads wait only while running_ is set: stop() wakes them all in the critical
\* section in which it clears the flag.
AsleepOnlyRunning == ~running_ => WaitingWorkers = {} /\ WaitingProducers = {}

-----------------------------------------------------------------------------
(* Counting woken threads.                                                 *)

\* The woken threads among T, whose places are pc.
WokenIn(T, pc) == {t \in T : pc[t] = "woken"}

\* They can be counted.
LEMMA WokenCount ==
  ASSUME NEW T, IsFiniteSet(T), NEW pc
  PROVE  Cardinality(WokenIn(T, pc)) \in Nat
<1>1. IsFiniteSet(WokenIn(T, pc))
  BY FS_Subset DEF WokenIn
<1> QED BY <1>1, FS_CardinalityType

\* A thread that is woken adds one to the count.
LEMMA WakeCounts ==
  ASSUME NEW T, IsFiniteSet(T), NEW S, NEW pc \in [T -> S], NEW t \in T, pc[t] # "woken"
  PROVE  Cardinality(WokenIn(T, [pc EXCEPT ![t] = "woken"])) = Cardinality(WokenIn(T, pc)) + 1
<1>1. WokenIn(T, [pc EXCEPT ![t] = "woken"]) = WokenIn(T, pc) \union {t}
  BY DEF WokenIn
<1>2. IsFiniteSet(WokenIn(T, pc))
  BY FS_Subset DEF WokenIn
<1>3. t \notin WokenIn(T, pc)
  BY DEF WokenIn
<1> QED BY <1>1, <1>2, <1>3, FS_AddElement

\* A thread that moves on to another place takes at most one from it.
LEMMA MoveCounts ==
  ASSUME NEW T, IsFiniteSet(T), NEW S, NEW pc \in [T -> S], NEW t \in T,
         NEW place, place # "woken"
  PROVE  Cardinality(WokenIn(T, pc)) - 1 <= Cardinality(WokenIn(T, [pc EXCEPT ![t] = place]))
<1>1. WokenIn(T, [pc EXCEPT ![t] = place]) = WokenIn(T, pc) \ {t}
  BY DEF WokenIn
<1>2. IsFiniteSet(WokenIn(T, pc))
  BY FS_Subset DEF WokenIn
<1>3. Cardinality(WokenIn(T, pc)) \in Nat
  BY WokenCount
<1>4. Cardinality(WokenIn(T, pc) \ {t}) \in
        {Cardinality(WokenIn(T, pc)), Cardinality(WokenIn(T, pc)) - 1}
  BY <1>2, FS_RemoveElement, Zenon
<1>5. \A m, k : m \in Nat /\ k \in {m, m - 1} => m - 1 <= k
  OBVIOUS
<1>6. Cardinality(WokenIn(T, pc)) - 1 <= Cardinality(WokenIn(T, pc) \ {t})
  BY <1>3, <1>4, <1>5, Zenon
<1> QED BY <1>1, <1>6, Zenon

\* A thread that was not woken and is not does not change it.
LEMMA OtherMoves ==
  ASSUME NEW T, NEW S, NEW pc \in [T -> S], NEW t \in T,
         NEW place, place # "woken", pc[t] # "woken"
  PROVE  WokenIn(T, [pc EXCEPT ![t] = place]) = WokenIn(T, pc)
BY DEF WokenIn

-----------------------------------------------------------------------------

\* The types hold at first.
LEMMA PoolTypesInit == PoolInit => PoolTypes
BY DEF PoolInit, PoolTypes, WorkerPCs, ProducerPCs

\* notify_one and notify_all keep every thread at one of its places.
LEMMA NotifyTypes ==
  ASSUME NEW T, NEW S, "woken" \in S, NEW pc \in [T -> S]
  PROVE  /\ AllWoken(pc) \in [T -> S]
         /\ \A sleepers \in SUBSET T : \A next \in Notified(pc, sleepers) : next \in [T -> S]
<1>1. AllWoken(pc) \in [T -> S]
  BY DEF AllWoken
<1>2. ASSUME NEW sleepers \in SUBSET T, NEW next \in Notified(pc, sleepers)
      PROVE  next \in [T -> S]
  BY <1>2 DEF Notified
<1> QED BY <1>1, <1>2

\* One step keeps the types.
LEMMA PoolTypesStep ==
  ASSUME PoolTypes, [PoolNext]_poolVars
  PROVE  PoolTypes'
<1> USE DEF WorkerPCs, ProducerPCs
<1>1. CASE Start \/ StartReturns \/ Join
  BY <1>1 DEF Start, StartReturns, Join, PoolTypes
<1>2. CASE Stop
  <2>1. wpc' \in [Workers -> WorkerPCs] /\ ppc' \in [Producers -> ProducerPCs]
    BY <1>2, NotifyTypes DEF Stop, PoolTypes
  <2>2. \A p \in Producers : ppc'[p] # "idle" => ppc[p] # "idle"
    BY <1>2 DEF Stop, AllWoken, PoolTypes
  <2> QED BY <1>2, <2>1, <2>2 DEF Stop, PoolTypes
<1>3. CASE WakesAlone
  BY <1>3 DEF WakesAlone, WaitingWorkers, WaitingProducers, PoolTypes
<1>4. ASSUME NEW w \in Workers, StartThread(w) \/ WhileRunning(w) \/ TaskReturns(w)
      PROVE  PoolTypes'
  BY <1>4 DEF StartThread, WhileRunning, TaskReturns, PoolTypes
<1>5. ASSUME NEW w \in Workers, WaitNotEmpty(w) \/ TakeStopped(w) PROVE PoolTypes'
  BY <1>5 DEF WaitNotEmpty, TakeStopped, PoolTypes
<1>6. ASSUME NEW w \in Workers, Take(w) PROVE PoolTypes'
  <2>1. queue_' \in Seq(Tasks) /\ wpc' \in [Workers -> WorkerPCs]
    BY <1>6 DEF Take, Popped, PoolTypes
  <2>2. ppc' = ppc \/ \E p \in WaitingProducers : ppc' = [ppc EXCEPT ![p] = "woken"]
    BY <1>6 DEF Take, Notified
  <2>3. UNCHANGED <<task, calls>>
    BY <1>6 DEF Take
  <2> QED BY <2>1, <2>2, <2>3 DEF PoolTypes, WaitingProducers
<1>7. ASSUME NEW p \in Producers, CallRun(p) PROVE PoolTypes'
  BY <1>7 DEF CallRun, PoolTypes, Tasks
<1>8. ASSUME NEW p \in Producers, WaitNotFull(p) \/ RunStopped(p) PROVE PoolTypes'
  BY <1>8 DEF WaitNotFull, RunStopped, InRun, PoolTypes
<1>9. ASSUME NEW p \in Producers, Put(p) PROVE PoolTypes'
  <2>1. queue_' \in Seq(Tasks)
    BY <1>9 DEF Put, InRun, PoolTypes
  <2>2. wpc' \in [Workers -> WorkerPCs]
    BY <1>9, NotifyTypes DEF Put, PoolTypes, WaitingWorkers
  <2> QED BY <1>9, <2>1, <2>2 DEF Put, PoolTypes
<1>10. CASE UNCHANGED poolVars
  BY <1>10 DEF poolVars, PoolTypes
<1> QED BY <1>1, <1>2, <1>3, <1>4, <1>5, <1>6, <1>7, <1>8, <1>9, <1>10
        DEF PoolNext, WorkerStep, ProducerStep

-----------------------------------------------------------------------------
(* No worker sleeps over a task.                                           *)

\* Each step keeps as many workers woken as there are tasks, or nobody asleep.
LEMMA NoTaskSleptOverStep ==
  ASSUME PoolTypes, NoTaskSleptOver, [PoolNext]_poolVars
  PROVE  NoTaskSleptOver'
<1> DEFINE n == Cardinality(WokenIn(Workers, wpc))
<1>0. /\ WokenIn(Workers, wpc) = {w \in Workers : wpc[w] = "woken"}
      /\ WokenIn(Workers, wpc') = {w \in Workers : wpc'[w] = "woken"}
      /\ n \in Nat /\ n' \in Nat /\ Len(queue_) \in Nat
      /\ wpc \in [Workers -> WorkerPCs]
      /\ IsFiniteSet(Workers)
  <2>1. /\ WokenIn(Workers, wpc) = {t \in Workers : wpc[t] = "woken"}
        /\ WokenIn(Workers, wpc') = {t \in Workers : wpc'[t] = "woken"}
    BY DEF WokenIn
  <2>2. n \in Nat /\ n' \in Nat
    BY WokenCount
  <2> QED BY <2>1, <2>2 DEF PoolTypes
<1>a. WaitingWorkers # {} => Len(queue_) <= n
  BY <1>0 DEF NoTaskSleptOver
<1>b. SUFFICES ASSUME WaitingWorkers' # {} PROVE Len(queue_') <= n'
  BY <1>0 DEF NoTaskSleptOver
<1> HIDE DEF n
<1>1. CASE UNCHANGED <<queue_, wpc>>
  BY <1>1, <1>a, <1>b DEF n, WaitingWorkers
<1>2. CASE Stop
  BY <1>2, <1>0, <1>b DEF Stop, AllWoken, WaitingWorkers
<1>3. ASSUME UNCHANGED queue_, NEW w \in WaitingWorkers, wpc' = [wpc EXCEPT ![w] = "woken"]
      PROVE  Len(queue_') <= n'
  <2>1. w \in Workers /\ wpc[w] # "woken"
    BY DEF WaitingWorkers
  <2>2. n' = n + 1
    BY <1>0, <1>3, <2>1, WakeCounts DEF n
  <2> QED BY <1>0, <1>3, <1>a, <2>2
<1>4. ASSUME NEW w \in Workers, StartThread(w) \/ WhileRunning(w) \/ TaskReturns(w)
      PROVE  Len(queue_') <= n'
  <2>1. PICK place \in {"while", "take", "done"} :
          wpc' = [wpc EXCEPT ![w] = place] /\ wpc[w] \in {"unborn", "while", "task"}
    BY <1>4 DEF StartThread, WhileRunning, TaskReturns
  <2>2. n' = n
    BY <1>0, <2>1, OtherMoves DEF n
  <2>3. WaitingWorkers' = WaitingWorkers /\ queue_' = queue_
    BY <1>0, <1>4, <2>1 DEF WaitingWorkers, StartThread, WhileRunning, TaskReturns
  <2> QED BY <1>a, <1>b, <2>2, <2>3
<1>5. ASSUME NEW w \in Workers, WaitNotEmpty(w) \/ TakeStopped(w) PROVE Len(queue_') <= n'
  <2>1. queue_' = <<>>
    BY <1>5 DEF WaitNotEmpty, TakeStopped
  <2> QED BY <1>0, <2>1
<1>6. ASSUME NEW w \in Workers, Take(w) PROVE Len(queue_') <= n'
  <2>1. wpc' = [wpc EXCEPT ![w] = "task"] /\ InTake(w)
    BY <1>6 DEF Take
  <2>2. n - 1 <= n'
    BY <1>0, <2>1, MoveCounts DEF n
  <2>3. WaitingWorkers' = WaitingWorkers
    BY <1>0, <2>1 DEF WaitingWorkers, InTake
  <2>4. Len(queue_') = Len(queue_) - 1
    BY <1>6 DEF Take, Popped, PoolTypes
  <2> QED BY <1>0, <1>a, <1>b, <2>2, <2>3, <2>4
<1>7. ASSUME NEW p \in Producers, Put(p) PROVE Len(queue_') <= n'
  <2>1. Len(queue_') = Len(queue_) + 1
    BY <1>7 DEF Put, InRun, PoolTypes
  <2>2. CASE WaitingWorkers = {}
    BY <1>7, <1>b, <2>2 DEF Put, Notified, WaitingWorkers
  <2>3. CASE WaitingWorkers # {}
    <3>1. PICK w \in WaitingWorkers : wpc' = [wpc EXCEPT ![w] = "woken"]
      BY <1>7, <2>3 DEF Put, Notified
    <3>2. w \in Workers /\ wpc[w] # "woken"
      BY DEF WaitingWorkers
    <3>3. n' = n + 1
      BY <1>0, <3>1, <3>2, WakeCounts DEF n
    <3> QED BY <1>0, <1>a, <2>1, <2>3, <3>3
  <2> QED BY <2>2, <2>3
<1>8. CASE Start \/ StartReturns \/ Join \/ UNCHANGED poolVars
  BY <1>1, <1>8 DEF Start, StartReturns, Join, poolVars
<1>9. CASE WakesAlone
  BY <1>1, <1>3, <1>9 DEF WakesAlone
<1>10. ASSUME NEW p \in Producers, CallRun(p) \/ WaitNotFull(p) \/ RunStopped(p)
       PROVE  Len(queue_') <= n'
  BY <1>1, <1>10 DEF CallRun, WaitNotFull, RunStopped
<1> QED BY <1>2, <1>4, <1>5, <1>6, <1>7, <1>8, <1>9, <1>10 DEF PoolNext, WorkerStep, ProducerStep

\* Whoever takes a task that another worker was woken for, and whenever a wait ends
\* by itself, no task stays queued with a worker asleep and nobody on the way
\* (ThreadPool.cc:68,74).
THEOREM NoTaskIsSleptOver == PoolSpec => []NoTaskSleptOver
<1>1. PoolInit => NoTaskSleptOver
  BY DEF PoolInit, NoTaskSleptOver, WaitingWorkers
<1>2. PoolTypes /\ NoTaskSleptOver /\ [PoolNext]_poolVars => NoTaskSleptOver'
  BY NoTaskSleptOverStep
<1>3. PoolTypes /\ [PoolNext]_poolVars => PoolTypes'
  BY PoolTypesStep
<1> QED BY <1>1, <1>2, <1>3, PoolTypesInit, PTL DEF PoolSpec

-----------------------------------------------------------------------------
(* Nobody sleeps once the pool is stopped.                                 *)

\* At first nobody waits.
LEMMA AsleepOnlyRunningInit == PoolInit => AsleepOnlyRunning
BY DEF PoolInit, AsleepOnlyRunning, WaitingWorkers, WaitingProducers

\* stop() wakes everybody, and nobody goes to sleep after it.
LEMMA AsleepOnlyRunningStep ==
  ASSUME PoolTypes, AsleepOnlyRunning, [PoolNext]_poolVars
  PROVE  AsleepOnlyRunning'
<1> USE DEF AsleepOnlyRunning, WaitingWorkers, WaitingProducers
<1>1. CASE Start \/ StartReturns \/ Join
  BY <1>1 DEF Start, StartReturns, Join
<1>2. CASE Stop
  BY <1>2 DEF Stop, AllWoken, PoolTypes
<1>3. CASE WakesAlone
  BY <1>3 DEF WakesAlone
<1>4. ASSUME NEW w \in Workers, StartThread(w) \/ WhileRunning(w) \/ TaskReturns(w)
      PROVE  AsleepOnlyRunning'
  BY <1>4 DEF StartThread, WhileRunning, TaskReturns, PoolTypes
<1>5. ASSUME NEW w \in Workers, WaitNotEmpty(w) \/ TakeStopped(w) PROVE AsleepOnlyRunning'
  BY <1>5 DEF WaitNotEmpty, TakeStopped, PoolTypes
<1>6. ASSUME NEW w \in Workers, Take(w) PROVE AsleepOnlyRunning'
  BY <1>6 DEF Take, Notified, PoolTypes
<1>7. ASSUME NEW p \in Producers, CallRun(p) PROVE AsleepOnlyRunning'
  BY <1>7 DEF CallRun, PoolTypes
<1>8. ASSUME NEW p \in Producers, WaitNotFull(p) \/ RunStopped(p) \/ Put(p)
      PROVE  AsleepOnlyRunning'
  BY <1>8 DEF WaitNotFull, RunStopped, Put, PoolTypes
<1>9. CASE UNCHANGED poolVars
  BY <1>9 DEF poolVars
<1> QED BY <1>1, <1>2, <1>3, <1>4, <1>5, <1>6, <1>7, <1>8, <1>9
        DEF PoolNext, WorkerStep, ProducerStep

\* The wakeups of stop() (ThreadPool.cc:40-46) are not undone: its flag is set in the
\* critical section that wakes everyone, so that nobody waits again.
THEOREM NobodySleepsAfterStop == PoolSpec => []NoSleepAfterStop
<1> DEFINE Stopped == opc \in {"join", "stopped"} => running_ = FALSE
<1>1. PoolInit => Stopped
  BY DEF PoolInit
<1>2. Stopped /\ [PoolNext]_poolVars => Stopped'
  <2> SUFFICES ASSUME Stopped, [PoolNext]_poolVars PROVE Stopped'
    OBVIOUS
  <2>1. CASE Start \/ StartReturns \/ Stop \/ Join
    BY <2>1 DEF Start, StartReturns, Stop, Join
  <2>2. CASE UNCHANGED <<opc, running_>>
    BY <2>2
  <2>3. ASSUME NEW w \in Workers, StartThread(w) \/ WorkerStep(w) PROVE Stopped'
    BY <2>3 DEF StartThread, WorkerStep, WhileRunning, WaitNotEmpty, TakeStopped, Take,
                TaskReturns
  <2>4. ASSUME NEW p \in Producers, CallRun(p) \/ ProducerStep(p) PROVE Stopped'
    BY <2>4 DEF CallRun, ProducerStep, WaitNotFull, RunStopped, Put
  <2> QED BY <2>1, <2>2, <2>3, <2>4 DEF PoolNext, WakesAlone, poolVars
<1>3. Stopped /\ AsleepOnlyRunning => NoSleepAfterStop
  BY DEF AsleepOnlyRunning, NoSleepAfterStop
<1>4. PoolTypes /\ [PoolNext]_poolVars => PoolTypes'
  BY PoolTypesStep
<1>5. PoolTypes /\ AsleepOnlyRunning /\ [PoolNext]_poolVars => AsleepOnlyRunning'
  BY AsleepOnlyRunningStep
<1> QED BY <1>1, <1>2, <1>3, <1>4, <1>5, PoolTypesInit, AsleepOnlyRunningInit, PTL DEF PoolSpec

-----------------------------------------------------------------------------
(* No producer sleeps over a free place: the same argument with the parts  *)
(* of Put and Take exchanged.                                              *)

\* Each step keeps as many producers woken as there are free places, or nobody
\* asleep.
LEMMA NoPlaceSleptOverStep ==
  ASSUME PoolTypes, AsleepOnlyRunning, NoPlaceSleptOver, [PoolNext]_poolVars
  PROVE  NoPlaceSleptOver'
<1> DEFINE n == Cardinality(WokenIn(Producers, ppc))
           room == maxQueueSize_ - Len(queue_)
<1>0. /\ WokenIn(Producers, ppc) = {p \in Producers : ppc[p] = "woken"}
      /\ WokenIn(Producers, ppc') = {p \in Producers : ppc'[p] = "woken"}
      /\ n \in Nat /\ n' \in Nat /\ Len(queue_) \in Nat
      /\ ppc \in [Producers -> ProducerPCs]
      /\ IsFiniteSet(Producers)
  <2>1. /\ WokenIn(Producers, ppc) = {t \in Producers : ppc[t] = "woken"}
        /\ WokenIn(Producers, ppc') = {t \in Producers : ppc'[t] = "woken"}
    BY DEF WokenIn
  <2>2. n \in Nat /\ n' \in Nat
    BY WokenCount
  <2> QED BY <2>1, <2>2 DEF PoolTypes
<1>a. WaitingProducers # {} => room <= n
  BY <1>0 DEF NoPlaceSleptOver
<1>b. SUFFICES ASSUME WaitingProducers' # {} PROVE room' <= n'
  BY <1>0 DEF NoPlaceSleptOver
<1> HIDE DEF n
<1>1. CASE UNCHANGED <<queue_, ppc>>
  <2>1. n' = n /\ WaitingProducers' = WaitingProducers
    BY <1>1 DEF n, WaitingProducers
  <2> QED BY <1>1, <1>a, <1>b, <2>1
<1>2. CASE Stop
  BY <1>2, <1>0, <1>b DEF Stop, AllWoken, WaitingProducers
<1>3. ASSUME UNCHANGED queue_, NEW p \in WaitingProducers, ppc' = [ppc EXCEPT ![p] = "woken"]
      PROVE  room' <= n'
  <2>1. p \in Producers /\ ppc[p] # "woken"
    BY DEF WaitingProducers
  <2>2. n' = n + 1
    BY <1>0, <1>3, <2>1, WakeCounts DEF n
  <2> QED BY <1>0, <1>3, <1>a, <2>2
<1>4. ASSUME NEW p \in Producers, CallRun(p) PROVE room' <= n'
  <2>1. ppc' = [ppc EXCEPT ![p] = "run"] /\ ppc[p] = "idle" /\ queue_' = queue_
    BY <1>4 DEF CallRun
  <2>2. n' = n
    BY <1>0, <2>1, OtherMoves DEF n
  <2>3. WaitingProducers' = WaitingProducers
    BY <1>0, <2>1 DEF WaitingProducers
  <2> QED BY <1>a, <1>b, <2>1, <2>2, <2>3
<1>5. ASSUME NEW p \in Producers, WaitNotFull(p) PROVE room' <= n'
  <2>1. room' <= 0
    BY <1>0, <1>5 DEF WaitNotFull, isFull
  <2> QED BY <1>0, <2>1, <1>5 DEF WaitNotFull
<1>6. ASSUME NEW p \in Producers, Put(p) PROVE room' <= n'
  <2>1. ppc' = [ppc EXCEPT ![p] = "idle"] /\ InRun(p)
    BY <1>6 DEF Put
  <2>2. n - 1 <= n'
    BY <1>0, <2>1, MoveCounts DEF n
  <2>3. WaitingProducers' = WaitingProducers
    BY <1>0, <2>1 DEF WaitingProducers, InRun
  <2>4. Len(queue_') = Len(queue_) + 1
    BY <1>6 DEF Put, InRun, PoolTypes
  <2> QED BY <1>0, <1>a, <1>b, <2>2, <2>3, <2>4
<1>7. ASSUME NEW w \in Workers, Take(w) PROVE room' <= n'
  <2>1. Len(queue_') = Len(queue_) - 1 /\ Len(queue_) >= 1
    BY <1>7 DEF Take, Popped, PoolTypes
  <2>2. CASE maxQueueSize_ > 0 /\ WaitingProducers # {}
    <3>1. PICK p \in WaitingProducers : ppc' = [ppc EXCEPT ![p] = "woken"]
      BY <1>7, <2>2 DEF Take, Notified
    <3>2. p \in Producers /\ ppc[p] # "woken"
      BY DEF WaitingProducers
    <3>3. n' = n + 1
      BY <1>0, <3>1, <3>2, WakeCounts DEF n
    <3> QED BY <1>0, <1>a, <2>1, <2>2, <3>3
  <2>3. CASE WaitingProducers = {}
    BY <1>7, <1>b, <2>3 DEF Take, Notified, WaitingProducers
  <2>4. CASE ~(maxQueueSize_ > 0)
    BY <1>0, <2>1, <2>4
  <2> QED BY <2>2, <2>3, <2>4
<1>8. CASE Start \/ StartReturns \/ Join \/ UNCHANGED poolVars
  BY <1>1, <1>8 DEF Start, StartReturns, Join, poolVars
<1>9. CASE WakesAlone
  BY <1>1, <1>3, <1>9 DEF WakesAlone
<1>10. ASSUME NEW p \in Producers, RunStopped(p) PROVE room' <= n'
  <2>1. WaitingProducers = {}
    BY <1>10 DEF RunStopped, AsleepOnlyRunning
  <2>2. WaitingProducers' = {}
    BY <1>0, <1>10, <2>1 DEF RunStopped, WaitingProducers
  <2> QED BY <1>b, <2>2
<1>11. ASSUME NEW w \in Workers,
              StartThread(w) \/ WhileRunning(w) \/ TaskReturns(w) \/ WaitNotEmpty(w)
                \/ TakeStopped(w)
       PROVE  room' <= n'
  BY <1>1, <1>11 DEF StartThread, WhileRunning, TaskReturns, WaitNotEmpty, TakeStopped
<1> QED BY <1>2, <1>4, <1>5, <1>6, <1>7, <1>8, <1>9, <1>10, <1>11
        DEF PoolNext, WorkerStep, ProducerStep

\* No producer stays asleep with a free place and nobody on the way to it
\* (ThreadPool.cc:62,82), whatever the size of the queue.
THEOREM NoPlaceIsSleptOver == PoolSpec => []NoPlaceSleptOver
<1>1. PoolInit => NoPlaceSleptOver
  BY DEF PoolInit, NoPlaceSleptOver, WaitingProducers
<1>2. PoolTypes /\ AsleepOnlyRunning /\ NoPlaceSleptOver /\ [PoolNext]_poolVars => NoPlaceSleptOver'
  BY NoPlaceSleptOverStep
<1>3. PoolTypes /\ [PoolNext]_poolVars => PoolTypes'
  BY PoolTypesStep
<1>4. PoolTypes /\ AsleepOnlyRunning /\ [PoolNext]_poolVars => AsleepOnlyRunning'
  BY AsleepOnlyRunningStep
<1> QED BY <1>1, <1>2, <1>3, <1>4, PoolTypesInit, AsleepOnlyRunningInit, PTL DEF PoolSpec
==============================================================================
