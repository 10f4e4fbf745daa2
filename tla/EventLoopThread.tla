--------------------------- MODULE EventLoopThread ---------------------------
(***************************************************************************)
(* dws::net::EventLoopThread: a thread that makes an EventLoop, hands its  *)
(* address to the thread that started it and runs it until the object is   *)
(* destroyed.  A loop may also be run by the thread that made it: then     *)
(* tpc is "main" and the behaviour is that of EventLoop.                   *)
(*                                                                         *)
(* Left to the users: nobody but the destructor ends the loop, and no call *)
(* to it begins once the destructor has.  One that is under way then may   *)
(* touch the loop after its end, which is not modelled.                    *)
(***************************************************************************)
EXTENDS EventLoop

CONSTANT Owner   \* the thread that starts and destroys the object

ASSUME OwnerAssumption == Owner \in Callers

VARIABLES
  tpc,     \* where threadFunc is
  opc,     \* what the owner has done
  loop_,   \* the address is set
  early    \* history: the destructor called quit() before the thread was in loop()

threadVars == <<tpc, opc, loop_, early>>
allVars == <<vars, threadVars>>

ThreadInit ==
  /\ Init
  /\ tpc \in {"main", "unstarted"}
  /\ opc = "new"
  /\ loop_ = FALSE /\ early = FALSE

\* startLoop up to the wait: thread_.start() returns when the thread runs.
StartLoop ==
  /\ tpc = "unstarted" /\ opc = "new"
  /\ tpc' = "init" /\ opc' = "wait"
  /\ UNCHANGED <<vars, loop_, early>>

\* callback_(&loop), on the thread.
InitCallback ==
  /\ tpc = "init"
  /\ \E f \in Functors : InLoopQueueInLoop(f) \/ InLoopRunInLoop(f)
  /\ UNCHANGED threadVars

Publish ==
  /\ tpc = "init"
  /\ tpc' = "published" /\ loop_' = TRUE
  /\ UNCHANGED <<vars, opc, early>>

\* The wait ends, or never began: loop_ is tested under mutex_.
StartLoopReturns ==
  /\ opc = "wait" /\ loop_
  /\ opc' = "running"
  /\ UNCHANGED <<vars, tpc, loop_, early>>

EnterLoop ==
  /\ tpc = "published"
  /\ Loop
  /\ tpc' = "looping"
  /\ UNCHANGED <<opc, loop_, early>>

\* loop() has returned; the EventLoop is destroyed with the stack frame.
LeaveLoop ==
  /\ tpc = "looping" /\ ~looping_
  /\ tpc' = "exited" /\ loop_' = FALSE
  /\ UNCHANGED <<vars, opc, early>>

\* ~EventLoopThread when loop_ is null.
DestroyUnstarted ==
  /\ tpc = "unstarted" /\ opc = "new" /\ ~loop_
  /\ opc' = "done"
  /\ UNCHANGED <<vars, tpc, loop_, early>>

\* ~EventLoopThread: loop_->quit(), wherever the thread is.
Destroy ==
  /\ opc = "running" /\ loop_
  /\ Quit(Owner)
  /\ opc' = "join"
  /\ early' = ~looping_
  /\ UNCHANGED <<tpc, loop_>>

\* thread_.join().
Join ==
  /\ opc = "join" /\ cpc[Owner] = "idle" /\ tpc = "exited"
  /\ opc' = "done"
  /\ UNCHANGED <<vars, tpc, loop_, early>>

\* Users of a running EventLoopThread, on its thread and on others.
Use ==
  /\ UNCHANGED threadVars
  /\ \/ tpc = "looping" /\ looping_
        /\ \E f \in Functors : InLoopQueueInLoop(f) \/ InLoopRunInLoop(f)
     \/ opc = "running" /\ \E c \in Callers, f \in Functors : QueueInLoop(c, f)

CallReturns(c) == Wakeup(c) /\ UNCHANGED threadVars

Iterate ==
  /\ tpc \in {"main", "looping"}
  /\ LoopStep
  /\ UNCHANGED threadVars

ThreadStep == Publish \/ EnterLoop \/ LeaveLoop \/ Iterate

ThreadNext ==
  \/ tpc = "main" /\ (CallerNext \/ UserNext \/ Loop) /\ UNCHANGED threadVars
  \/ StartLoop \/ InitCallback \/ StartLoopReturns
  \/ DestroyUnstarted \/ Destroy \/ Join
  \/ Use
  \/ tpc # "main" /\ \E c \in Callers : CallReturns(c)
  \/ ThreadStep
  \/ PollOther /\ UNCHANGED threadVars

\* A thread in loop() keeps running, and so do threadFunc and every call begun.
\* Nothing is assumed of poll's timeout or of other channels.
ThreadSpec ==
  /\ ThreadInit /\ [][ThreadNext]_allVars
  /\ WF_allVars(ThreadStep)
  /\ \A c \in Callers : WF_allVars(CallReturns(c))
  /\ WF_allVars(Join)

\* The destructor returns if the thread was in loop(): the quit() it sends reaches the
\* loop wherever that is, in poll, in a handler or between two functors, and the thread
\* ends (EventLoopThread.cc:15-21, EventLoop::quit).  A quit() that comes between the
\* return of startLoop and loop() is undone by loop() (EventLoop.cc:80), and then the
\* destructor waits in join() for ever.
JoinReturns ==
  /\ (opc = "join" /\ ~early) ~> (opc = "done")
  /\ [](opc = "done" => ~early)
=============================================================================
