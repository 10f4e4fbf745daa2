----------------------------- MODULE ThreadPool -----------------------------
(***************************************************************************)
(* dws::ThreadPool: threads call run() to hand tasks over, workers take    *)
(* them in turn, and stop() ends both.  mutex_ makes each critical section *)
(* one step; a wait on a condition variable ends one and a woken thread    *)
(* begins another, in competition with whoever locks first.  A wait may    *)
(* also end by itself.                                                     *)
(*                                                                         *)
(* The pool has workers (without any, run() is a plain call of the task),  *)
(* run() is called when start() has returned, and tasks return without     *)
(* calling run() themselves.                                               *)
(***************************************************************************)
EXTENDS Integers, Sequences, FiniteSets

CONSTANTS
  Workers,       \* threads_
  Producers,     \* the threads that call run()
  maxQueueSize_,
  MaxTasks       \* bound: calls of run()

ASSUME ThreadPoolAssumption ==
  /\ IsFiniteSet(Workers) /\ Workers # {}
  /\ IsFiniteSet(Producers)
  /\ maxQueueSize_ \in Nat
  /\ MaxTasks \in Nat

VARIABLES
  running_,
  queue_,
  opc,       \* the thread that calls start() and stop()
  wpc,       \* each worker
  ppc,       \* each producer
  task,      \* the task each producer hands over; tasks are numbered by call
  calls,     \* calls of run() so far
  taken      \* history: tasks taken, in order

poolVars == <<running_, queue_, opc, wpc, ppc, task, calls, taken>>

Tasks == 1..MaxTasks

PoolTypeOK ==
  /\ running_ \in BOOLEAN
  /\ queue_ \in Seq(Tasks) /\ Len(queue_) <= maxQueueSize_
  /\ opc \in {"new", "start", "up", "join", "stopped"}
  /\ wpc \in [Workers -> {"unborn", "while", "take", "wait", "woken", "task", "done"}]
  /\ ppc \in [Producers -> {"idle", "run", "wait", "woken"}]
  /\ task \in [Producers -> 0..MaxTasks]
  /\ calls \in 0..MaxTasks
  /\ taken \in Seq(Tasks)

PoolInit ==
  /\ running_ = FALSE
  /\ queue_ = <<>>
  /\ opc = "new"
  /\ wpc = [w \in Workers |-> "unborn"]
  /\ ppc = [p \in Producers |-> "idle"]
  /\ task = [p \in Producers |-> 0]
  /\ calls = 0 /\ taken = <<>>

isFull == Len(queue_) >= maxQueueSize_

WaitingWorkers == {w \in Workers : wpc[w] = "wait"}
WaitingProducers == {p \in Producers : ppc[p] = "wait"}

-----------------------------------------------------------------------------
(* start() and stop().                                                     *)

Start ==
  /\ opc = "new"
  /\ opc' = "start"
  /\ running_' = TRUE
  /\ UNCHANGED <<queue_, wpc, ppc, task, calls, taken>>

StartThread(w) ==
  /\ opc = "start" /\ wpc[w] = "unborn"
  /\ wpc' = [wpc EXCEPT ![w] = "while"]
  /\ UNCHANGED <<running_, queue_, opc, ppc, task, calls, taken>>

StartReturns ==
  /\ opc = "start" /\ \A w \in Workers : wpc[w] # "unborn"
  /\ opc' = "up"
  /\ UNCHANGED <<running_, queue_, wpc, ppc, task, calls, taken>>

\* Mutant: stop() tells one worker.
OneWoken(pc) ==
  LET sleepers == {t \in DOMAIN pc : pc[t] = "wait"}
  IN  IF sleepers = {} THEN pc
      ELSE [pc EXCEPT ![CHOOSE t \in sleepers : TRUE] = "woken"]

\* notify_all.
AllWoken(pc) == [t \in DOMAIN pc |-> IF pc[t] = "wait" THEN "woken" ELSE pc[t]]

Stop ==
  /\ opc = "up"
  /\ opc' = "join"
  /\ running_' = FALSE
  /\ wpc' = AllWoken(wpc)
  /\ ppc' = AllWoken(ppc)
  /\ UNCHANGED <<queue_, task, calls, taken>>

Join ==
  /\ opc = "join" /\ \A w \in Workers : wpc[w] = "done"
  /\ opc' = "stopped"
  /\ UNCHANGED <<running_, queue_, wpc, ppc, task, calls, taken>>

-----------------------------------------------------------------------------
(* run(task).                                                              *)

CallRun(p) ==
  /\ opc \notin {"new", "start"}
  /\ ppc[p] = "idle" /\ calls < MaxTasks
  /\ calls' = calls + 1
  /\ task' = [task EXCEPT ![p] = calls + 1]
  /\ ppc' = [ppc EXCEPT ![p] = "run"]
  /\ UNCHANGED <<running_, queue_, opc, wpc, taken>>

InRun(p) == ppc[p] \in {"run", "woken"}

WaitNotFull(p) ==
  /\ InRun(p)
  /\ isFull /\ running_
  /\ ppc' = [ppc EXCEPT ![p] = "wait"]
  /\ UNCHANGED <<running_, queue_, opc, wpc, task, calls, taken>>

RunStopped(p) ==
  /\ InRun(p)
  /\ ~running_
  /\ ppc' = [ppc EXCEPT ![p] = "idle"]
  /\ UNCHANGED <<running_, queue_, opc, wpc, task, calls, taken>>

\* Mutant: nobody is notified.
NobodyNotified(pc, sleepers) == {pc}

\* notify_one: one of the sleepers, if there is one, is woken.
Notified(pc, sleepers) ==
  IF sleepers = {} THEN {pc} ELSE {[pc EXCEPT ![t] = "woken"] : t \in sleepers}

\* The loop around the wait is left with room in the queue.
Room(p) == ~isFull

Put(p) ==
  /\ InRun(p)
  /\ Room(p) /\ running_
  /\ queue_' = Append(queue_, task[p])
  /\ ppc' = [ppc EXCEPT ![p] = "idle"]
  /\ wpc' \in Notified(wpc, WaitingWorkers)
  /\ UNCHANGED <<running_, opc, task, calls, taken>>

-----------------------------------------------------------------------------
(* runInThread and take.                                                   *)

WhileRunning(w) ==
  /\ wpc[w] = "while"
  /\ wpc' = [wpc EXCEPT ![w] = IF running_ THEN "take" ELSE "done"]
  /\ UNCHANGED <<running_, queue_, opc, ppc, task, calls, taken>>

InTake(w) == wpc[w] \in {"take", "woken"}

WaitNotEmpty(w) ==
  /\ InTake(w)
  /\ queue_ = <<>> /\ running_
  /\ wpc' = [wpc EXCEPT ![w] = "wait"]
  /\ UNCHANGED <<running_, queue_, opc, ppc, task, calls, taken>>

\* take() returns no task.
TakeStopped(w) ==
  /\ InTake(w)
  /\ queue_ = <<>> /\ ~running_
  /\ wpc' = [wpc EXCEPT ![w] = "while"]
  /\ UNCHANGED <<running_, queue_, opc, ppc, task, calls, taken>>

\* The queue without its front.
Popped == Tail(queue_)

Take(w) ==
  /\ InTake(w)
  /\ queue_ # <<>>
  /\ queue_' = Popped
  /\ taken' = Append(taken, Head(queue_))
  /\ wpc' = [wpc EXCEPT ![w] = "task"]
  /\ ppc' \in IF maxQueueSize_ > 0 THEN Notified(ppc, WaitingProducers) ELSE {ppc}
  /\ UNCHANGED <<running_, opc, task, calls>>

TaskReturns(w) ==
  /\ wpc[w] = "task"
  /\ wpc' = [wpc EXCEPT ![w] = "while"]
  /\ UNCHANGED <<running_, queue_, opc, ppc, task, calls, taken>>

-----------------------------------------------------------------------------

\* A wait may end without a notification.
WakesAlone ==
  \/ /\ \E w \in WaitingWorkers : wpc' = [wpc EXCEPT ![w] = "woken"]
     /\ UNCHANGED <<running_, queue_, opc, ppc, task, calls, taken>>
  \/ /\ \E p \in WaitingProducers : ppc' = [ppc EXCEPT ![p] = "woken"]
     /\ UNCHANGED <<running_, queue_, opc, wpc, task, calls, taken>>

WorkerStep(w) ==
  WhileRunning(w) \/ WaitNotEmpty(w) \/ TakeStopped(w) \/ Take(w) \/ TaskReturns(w)

ProducerStep(p) == WaitNotFull(p) \/ RunStopped(p) \/ Put(p)

PoolNext ==
  \/ Start \/ StartReturns \/ Stop \/ Join \/ WakesAlone
  \/ \E w \in Workers : StartThread(w) \/ WorkerStep(w)
  \/ \E p \in Producers : CallRun(p) \/ ProducerStep(p)

PoolSpec == PoolInit /\ [][PoolNext]_poolVars

\* Threads run, tasks return and a thread that wants mutex_ gets it in the end; no
\* wait ends by itself, and nobody has to call run() or stop().
FairPoolSpec ==
  /\ PoolSpec
  /\ WF_poolVars(Join)
  /\ \A w \in Workers : WF_poolVars(WorkerStep(w))
  /\ \A p \in Producers : WF_poolVars(ProducerStep(p))

-----------------------------------------------------------------------------
(* Properties.                                                             *)

\* No worker sleeps over a task: while one waits on notEmpty_, as many workers are
\* on their way out of the wait as there are tasks, although a worker that did not
\* wait may take the task another one was woken for (ThreadPool.cc:68,74).
NoTaskSleptOver ==
  WaitingWorkers # {} => Len(queue_) <= Cardinality({w \in Workers : wpc[w] = "woken"})

\* The same for producers and free places (ThreadPool.cc:62,82).
NoPlaceSleptOver ==
  WaitingProducers # {} =>
    maxQueueSize_ - Len(queue_) <= Cardinality({p \in Producers : ppc[p] = "woken"})

\* Nobody goes to sleep once stop() (ThreadPool.cc:40) has woken everyone.
NoSleepAfterStop == opc \in {"join", "stopped"} => WaitingWorkers \union WaitingProducers = {}

\* stop() gets all its workers.
StopReturns == (opc = "join") ~> (opc = "stopped")
=============================================================================
