------------------------------ MODULE EventLoop ------------------------------
(***************************************************************************)
(* dws::net::EventLoop: one loop thread that polls, dispatches the active  *)
(* channels and runs the functors other threads hand it, and the calls     *)
(* other threads may make meanwhile (queueInLoop, runInLoop, quit).        *)
(*                                                                         *)
(* Any channel other than the wakeup channel is abstracted to "io": its    *)
(* handler, like the body of a functor, is user code that may call the     *)
(* loop again.  looping_ and eventHandling_ are functions of the loop      *)
(* thread's program counter lpc (looping_ below; eventHandling_ is         *)
(* lpc \in {"handle", "io"}); iteration_ and pollReturnTime_ are not kept. *)
(***************************************************************************)
EXTENDS Naturals, Sequences, FiniteSets, Functions

CONSTANTS
  Callers,     \* the threads other than the loop thread
  Functors,    \* the functors ever submitted, each at most once
  EventfdMax   \* where the eventfd counter saturates (2^64 - 2 in Linux)

ASSUME EventfdMaxAssumption == EventfdMax \in Nat \ {0}

VARIABLES
  lpc,                      \* where the loop thread is
  cpc,                      \* where each other thread is
  quit_,
  callingPendingFunctors_,
  pendingFunctors_,         \* guarded by mutex_: each access is one step
  functors,                 \* the local batch of doPendingFunctors
  wakeupFd_,                \* the value of the eventfd counter
  activeChannels_,          \* what poll returned and is not handled yet
  ran,                      \* history: functors started, in order
  quiet                     \* history: queued by the loop thread outside loop()

vars == <<lpc, cpc, quit_, callingPendingFunctors_, pendingFunctors_, functors,
          wakeupFd_, activeChannels_, ran, quiet>>

LoopPCs == {"outside", "while", "poll", "handle", "io", "swap", "run", "functor"}

looping_ == lpc # "outside"

\* User code runs on the loop thread: outside loop(), in a channel's callback
\* or in the body of a functor.
InUserCode == lpc \in {"outside", "io", "functor"}

Submitted == Range(pendingFunctors_) \union Range(functors) \union Range(ran)

TypeOK ==
  /\ lpc \in LoopPCs
  /\ cpc \in [Callers -> {"idle", "wakeup"}]
  /\ quit_ \in BOOLEAN
  /\ callingPendingFunctors_ \in BOOLEAN
  /\ pendingFunctors_ \in Seq(Functors)
  /\ functors \in Seq(Functors)
  /\ wakeupFd_ \in 0..EventfdMax
  /\ activeChannels_ \subseteq {"wakeup", "io"}
  /\ ran \in Seq(Functors)
  /\ quiet \subseteq Functors

Init ==
  /\ lpc = "outside"
  /\ cpc = [c \in Callers |-> "idle"]
  /\ quit_ = FALSE
  /\ callingPendingFunctors_ = FALSE
  /\ pendingFunctors_ = <<>>
  /\ functors = <<>>
  /\ wakeupFd_ = 0
  /\ activeChannels_ = {}
  /\ ran = <<>>
  /\ quiet = {}

-----------------------------------------------------------------------------
(* The eventfd: a write adds one and fails (EAGAIN, logged) when the       *)
(* counter would pass its maximum; a read resets it.                       *)

Incremented(n) == IF n < EventfdMax THEN n + 1 ELSE n

-----------------------------------------------------------------------------
(* Calls from other threads.  The push under mutex_ (or the store to       *)
(* quit_) and the write to the eventfd are separate steps.                 *)

\* queueInLoop, and runInLoop which off the loop thread is the same.
QueueInLoop(c, f) ==
  /\ cpc[c] = "idle"
  /\ f \notin Submitted
  /\ pendingFunctors_' = Append(pendingFunctors_, f)
  /\ cpc' = [cpc EXCEPT ![c] = "wakeup"]
  /\ UNCHANGED <<lpc, quit_, callingPendingFunctors_, functors, wakeupFd_,
                 activeChannels_, ran, quiet>>

\* Mutant: quit() only sets the flag.
QuitWithoutWakeup(c) ==
  /\ cpc[c] = "idle"
  /\ quit_' = TRUE
  /\ UNCHANGED <<lpc, cpc, callingPendingFunctors_, pendingFunctors_, functors,
                 wakeupFd_, activeChannels_, ran, quiet>>

Quit(c) ==
  /\ cpc[c] = "idle"
  /\ quit_' = TRUE
  /\ cpc' = [cpc EXCEPT ![c] = "wakeup"]
  /\ UNCHANGED <<lpc, callingPendingFunctors_, pendingFunctors_, functors,
                 wakeupFd_, activeChannels_, ran, quiet>>

Wakeup(c) ==
  /\ cpc[c] = "wakeup"
  /\ wakeupFd_' = Incremented(wakeupFd_)
  /\ cpc' = [cpc EXCEPT ![c] = "idle"]
  /\ UNCHANGED <<lpc, quit_, callingPendingFunctors_, pendingFunctors_, functors,
                 activeChannels_, ran, quiet>>

-----------------------------------------------------------------------------
(* Calls user code makes on the loop thread.  Only this thread reads the   *)
(* eventfd and swaps the queue, so push and wakeup are one step.           *)

\* Mutant: queueInLoop takes the loop thread to be awake.
NeverOnLoopThread == FALSE

\* queueInLoop on the loop thread writes a wakeup only if the batch that runs now
\* was taken before this functor came.
WakeupNeeded == callingPendingFunctors_

InLoopQueueInLoop(f) ==
  /\ InUserCode
  /\ f \notin Submitted
  /\ pendingFunctors_' = Append(pendingFunctors_, f)
  /\ wakeupFd_' = IF WakeupNeeded THEN Incremented(wakeupFd_) ELSE wakeupFd_
  /\ quiet' = IF looping_ THEN quiet ELSE quiet \union {f}
  /\ UNCHANGED <<lpc, cpc, quit_, callingPendingFunctors_, functors,
                 activeChannels_, ran>>

InLoopRunInLoop(f) ==
  /\ InUserCode
  /\ f \notin Submitted
  /\ ran' = Append(ran, f)
  /\ UNCHANGED <<lpc, cpc, quit_, callingPendingFunctors_, pendingFunctors_, functors,
                 wakeupFd_, activeChannels_, quiet>>

InLoopQuit ==
  /\ InUserCode
  /\ quit_' = TRUE
  /\ UNCHANGED <<lpc, cpc, callingPendingFunctors_, pendingFunctors_, functors,
                 wakeupFd_, activeChannels_, ran, quiet>>

-----------------------------------------------------------------------------
(* loop() itself.                                                          *)

Loop ==
  /\ lpc = "outside"
  /\ lpc' = "while"
  /\ quit_' = FALSE
  /\ UNCHANGED <<cpc, callingPendingFunctors_, pendingFunctors_, functors, wakeupFd_,
                 activeChannels_, ran, quiet>>

WhileTest ==
  /\ lpc = "while"
  /\ lpc' = IF quit_ THEN "outside" ELSE "poll"
  /\ activeChannels_' = {}
  /\ UNCHANGED <<cpc, quit_, callingPendingFunctors_, pendingFunctors_, functors,
                 wakeupFd_, ran, quiet>>

PollReturns(ready) ==
  /\ lpc = "poll"
  /\ lpc' = "handle"
  /\ activeChannels_' = ready
  /\ UNCHANGED <<cpc, quit_, callingPendingFunctors_, pendingFunctors_, functors,
                 wakeupFd_, ran, quiet>>

\* The eventfd is readable, so the call returns.  EPollPoller::poll hands no
\* channel over when the stale errno it tests is 0, hence the empty set.
PollWakeup ==
  /\ wakeupFd_ > 0
  /\ \E ready \in {{}, {"wakeup"}, {"wakeup", "io"}} : PollReturns(ready)

\* Another channel is ready, a signal came, or kPollTimeMs went by.
PollOther ==
  /\ wakeupFd_ = 0
  /\ \E ready \in {{}, {"io"}} : PollReturns(ready)

HandleRead ==
  /\ lpc = "handle" /\ "wakeup" \in activeChannels_
  /\ wakeupFd_' = 0
  /\ activeChannels_' = activeChannels_ \ {"wakeup"}
  /\ UNCHANGED <<lpc, cpc, quit_, callingPendingFunctors_, pendingFunctors_, functors,
                 ran, quiet>>

HandleIo ==
  /\ lpc = "handle" /\ "io" \in activeChannels_
  /\ lpc' = "io"
  /\ activeChannels_' = activeChannels_ \ {"io"}
  /\ UNCHANGED <<cpc, quit_, callingPendingFunctors_, pendingFunctors_, functors,
                 wakeupFd_, ran, quiet>>

IoReturns ==
  /\ lpc = "io"
  /\ lpc' = "handle"
  /\ UNCHANGED <<cpc, quit_, callingPendingFunctors_, pendingFunctors_, functors,
                 wakeupFd_, activeChannels_, ran, quiet>>

\* Every active channel is handled; doPendingFunctors begins.
BeginPendingFunctors ==
  /\ lpc = "handle" /\ activeChannels_ = {}
  /\ callingPendingFunctors_' = TRUE
  /\ lpc' = "swap"
  /\ UNCHANGED <<cpc, quit_, pendingFunctors_, functors, wakeupFd_, activeChannels_,
                 ran, quiet>>

\* Mutant: the batch is copied and pendingFunctors_ left as it was.
NotSwapped == pendingFunctors_

\* What the swap leaves in pendingFunctors_.
Swapped == functors

SwapPendingFunctors ==
  /\ lpc = "swap"
  /\ functors' = pendingFunctors_
  /\ pendingFunctors_' = Swapped
  /\ lpc' = "run"
  /\ UNCHANGED <<cpc, quit_, callingPendingFunctors_, wakeupFd_, activeChannels_,
                 ran, quiet>>

StartFunctor ==
  /\ lpc = "run" /\ functors # <<>>
  /\ ran' = Append(ran, Head(functors))
  /\ functors' = Tail(functors)
  /\ lpc' = "functor"
  /\ UNCHANGED <<cpc, quit_, callingPendingFunctors_, pendingFunctors_, wakeupFd_,
                 activeChannels_, quiet>>

FunctorReturns ==
  /\ lpc = "functor"
  /\ lpc' = "run"
  /\ UNCHANGED <<cpc, quit_, callingPendingFunctors_, pendingFunctors_, functors,
                 wakeupFd_, activeChannels_, ran, quiet>>

EndPendingFunctors ==
  /\ lpc = "run" /\ functors = <<>>
  /\ callingPendingFunctors_' = FALSE
  /\ lpc' = "while"
  /\ UNCHANGED <<cpc, quit_, pendingFunctors_, functors, wakeupFd_, activeChannels_,
                 ran, quiet>>

-----------------------------------------------------------------------------

CallerNext ==
  \E c \in Callers : Wakeup(c) \/ Quit(c) \/ \E f \in Functors : QueueInLoop(c, f)

UserNext ==
  \/ InLoopQuit
  \/ \E f \in Functors : InLoopQueueInLoop(f) \/ InLoopRunInLoop(f)

\* The steps of the loop thread that the code takes by itself once it is in
\* loop(): user code returns, and poll returns when the eventfd is readable.
LoopStep ==
  \/ WhileTest \/ PollWakeup \/ HandleRead \/ HandleIo \/ IoReturns
  \/ BeginPendingFunctors \/ SwapPendingFunctors \/ StartFunctor
  \/ FunctorReturns \/ EndPendingFunctors

Next == CallerNext \/ UserNext \/ Loop \/ LoopStep \/ PollOther

Spec == Init /\ [][Next]_vars

\* The loop thread keeps running while in loop() and a call another thread has
\* begun is finished.  Nothing is assumed of poll's timeout, of other channels
\* or of anyone calling loop() again.
FairSpec == Spec /\ WF_vars(LoopStep) /\ \A c \in Callers : WF_vars(Wakeup(c))

-----------------------------------------------------------------------------
(* Properties.                                                             *)

\* A wakeup is in the eventfd or about to be written by the thread that owes it.
Signalled == wakeupFd_ > 0 \/ \E c \in Callers : cpc[c] = "wakeup"

\* The loop thread never sleeps in poll on top of functors it was not told of:
\* while it is there, a queued functor either has a wakeup under way or was
\* queued by the loop thread itself before loop() was entered, the one case in
\* which queueInLoop (EventLoop.cc:125) writes none and poll's timeout serves.
NoLostWakeup ==
  lpc = "poll" /\ ~(Range(pendingFunctors_) \subseteq quiet) => Signalled

\* The loop thread never sleeps in poll on top of a quit() it was not told of
\* (EventLoop.cc:104-109), however the call races the test of quit_.
NoLostQuit == lpc = "poll" /\ quit_ => Signalled

\* The two-vector queue of the code is the one queue of FunctorQueue: arrival
\* order is kept across the swap and each functor is started at most once.
FunctorQueue == INSTANCE FunctorQueue WITH queue <- functors \o pendingFunctors_
ImplementsFunctorQueue == FunctorQueue!Spec

\* A functor queued with a wakeup is started or the loop is left, without the
\* help of poll's timeout or of traffic on other channels.
QueuedFunctorsRun ==
  \A f \in Functors :
    (f \in Range(pendingFunctors_) \ quiet) ~> (f \in Range(ran) \/ ~looping_)
==============================================================================
