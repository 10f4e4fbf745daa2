----------------------------- MODULE TimerQueue -----------------------------
(***************************************************************************)
(* dws::net::TimerQueue with Timer and TimerId: the timers of one loop,    *)
(* ordered by expiration, behind one timerfd.  Timers are heap objects;    *)
(* their addresses are reused, which is why an id is <<address, sequence>>.*)
(*                                                                         *)
(* All work is done on the loop thread.  Another thread's addTimer and     *)
(* cancel go through runInLoop, i.e. through the queue of FunctorQueue.tla *)
(* (EventLoop.tla implements it); on the loop thread they act at once,     *)
(* also from inside a timer's own callback.                                *)
(*                                                                         *)
(* Time is counted in ticks of 100 microseconds, the least delay the code  *)
(* programs; it saturates at MaxTime.  Time 0 is the invalid Timestamp.    *)
(***************************************************************************)
EXTENDS Integers, Sequences, FiniteSets, FiniteSetsExt, Functions

CONSTANTS
  Addrs,      \* heap addresses for Timer objects
  MaxTimers,  \* bound: timers created, i.e. the last value of s_numCreated_
  MaxTime,    \* bound: where the clock stops
  Whens,      \* the expirations that are asked for
  Intervals,  \* the intervals in use; 0 is a one-shot timer
  MaxQueued   \* bound: functors waiting in the loop's queue

ASSUME TimeAssumption ==
  /\ MaxTimers \in Nat /\ MaxQueued \in Nat
  /\ MaxTime \in Nat \ {0}
  /\ Whens \subseteq Nat /\ Intervals \subseteq Nat

VARIABLES
  now,                    \* Timestamp::now()
  heap,                   \* address -> Timer object, or Free
  s_numCreated_,
  timers_,                \* set of <<expiration, address>>
  activeTimers_,          \* set of <<address, sequence>>
  cancelingTimers_,
  callingExpiredTimers_,
  expired,                \* handleRead's local vector, as a set of entries
  toRun,                  \* the entries of it whose callback has not run
  current,                \* address of the timer whose callback runs, or NoAddr
  handleNow,              \* handleRead's local now
  left,                   \* ticks until the timerfd expires; Disarmed if unset
  queued,                 \* functors other threads put in the loop's queue
  unread,                 \* address whose sequence() addTimer has yet to read
  ids,                    \* TimerIds handed out
  cancelled               \* history: ids that cancelInLoop acted upon

vars == <<now, heap, s_numCreated_, timers_, activeTimers_, cancelingTimers_,
          callingExpiredTimers_, expired, toRun, current, handleNow, left, queued,
          unread, ids, cancelled>>

Free == [expiration |-> 0, interval |-> 0, sequence |-> -1]   \* no object there
NoAddr == "none"
Disarmed == -1
Times == 0..MaxTime
Seqs == 0..(MaxTimers - 1)
TimerIds == Addrs \X Seqs
Timers == [expiration : Nat, interval : Intervals, sequence : Seqs]
Entries == Nat \X Addrs

Live == {a \in Addrs : heap[a] # Free}
repeat(t) == t.interval > 0
Active(a) == <<a, heap[a].sequence>>
Addresses(entries) == {e[2] : e \in entries}

TypeOK ==
  /\ now \in 1..MaxTime
  /\ heap \in [Addrs -> Timers \union {Free}]
  /\ s_numCreated_ \in 0..MaxTimers
  /\ timers_ \subseteq Entries
  /\ activeTimers_ \subseteq TimerIds
  /\ cancelingTimers_ \subseteq TimerIds
  /\ callingExpiredTimers_ \in BOOLEAN
  /\ expired \subseteq Entries /\ toRun \subseteq expired
  /\ current \in Addrs \union {NoAddr}
  /\ handleNow \in Times
  /\ left \in Nat \union {Disarmed}
  /\ queued \in Seq([op : {"add"}, addr : Addrs] \union [op : {"cancel"}, id : TimerIds])
  /\ unread \in Addrs \union {NoAddr}
  /\ ids \subseteq TimerIds
  /\ cancelled \subseteq TimerIds

Init ==
  /\ now = 1
  /\ heap = [a \in Addrs |-> Free]
  /\ s_numCreated_ = 0
  /\ timers_ = {} /\ activeTimers_ = {} /\ cancelingTimers_ = {}
  /\ callingExpiredTimers_ = FALSE
  /\ expired = {} /\ toRun = {} /\ current = NoAddr /\ handleNow = 0
  /\ left = Disarmed
  /\ queued = <<>> /\ unread = NoAddr /\ ids = {} /\ cancelled = {}

-----------------------------------------------------------------------------
(* The operations on the two sets.                                         *)

howMuchTimeFromNow(when) == IF when - now < 1 THEN 1 ELSE when - now

NewTimer(when, interval) ==
  [expiration |-> when, interval |-> interval, sequence |-> s_numCreated_]

\* insert: a timer t at address a enters both sets.
Inserted(a, t) ==
  /\ timers_' = timers_ \union {<<t.expiration, a>>}
  /\ activeTimers_' = activeTimers_ \union {<<a, t.sequence>>}

\* Mutant: only the first timer counts as earliest.
FirstTimer(t) == timers_ = {}

earliestChanged(t) == \A e \in timers_ : t.expiration < e[1]

\* The timerfd is set again when the new timer becomes the earliest.
addTimerInLoop(a, t) ==
  /\ Inserted(a, t)
  /\ left' = IF earliestChanged(t) THEN howMuchTimeFromNow(t.expiration) ELSE left

\* Mutant: the lookup goes by the address alone.
FoundByAddress(id) == id[1] \in Addresses(timers_)

FoundActive(id) == id \in activeTimers_

\* Mutant: a timer of the running batch is not noted.
NotNoted(id) == cancelingTimers_

Noted(id) == cancelingTimers_ \union {id}

\* An active timer is taken out of both sets and deleted.  A timer that is not
\* active is only noted, and only while callbacks are being called.
cancelInLoop(id) ==
  \/ /\ FoundActive(id)
     /\ timers_' = timers_ \ {<<heap[id[1]].expiration, id[1]>>}
     /\ activeTimers_' = activeTimers_ \ {id}
     /\ heap' = [heap EXCEPT ![id[1]] = Free]
     /\ cancelled' = cancelled \union {id}
     /\ UNCHANGED cancelingTimers_
  \/ /\ ~FoundActive(id) /\ callingExpiredTimers_
     /\ cancelingTimers_' = Noted(id)
     /\ cancelled' = IF \E a \in Addresses(expired) : id = Active(a)
                     THEN cancelled \union {id} ELSE cancelled
     /\ UNCHANGED <<timers_, activeTimers_, heap>>
  \/ /\ ~FoundActive(id) /\ ~callingExpiredTimers_
     /\ UNCHANGED <<timers_, activeTimers_, heap, cancelingTimers_, cancelled>>

-----------------------------------------------------------------------------
(* Calls on the loop thread: from a functor, another channel's handler or  *)
(* a timer's callback, but not between two callbacks.                      *)

InUserCode == current # NoAddr \/ ~callingExpiredTimers_

AddTimerInLoop(a, when, interval) ==
  /\ InUserCode
  /\ heap[a] = Free /\ s_numCreated_ < MaxTimers
  /\ LET t == NewTimer(when, interval)
     IN  /\ heap' = [heap EXCEPT ![a] = t]
         /\ addTimerInLoop(a, t)
         /\ ids' = ids \union {<<a, t.sequence>>}
  /\ s_numCreated_' = s_numCreated_ + 1
  /\ UNCHANGED <<now, cancelingTimers_, callingExpiredTimers_, expired, toRun, current,
                 handleNow, queued, unread, cancelled>>

CancelInLoop(id) ==
  /\ InUserCode
  /\ id \in ids
  /\ cancelInLoop(id)
  /\ UNCHANGED <<now, s_numCreated_, callingExpiredTimers_, expired, toRun, current,
                 handleNow, left, queued, unread, ids>>

-----------------------------------------------------------------------------
(* Calls from another thread.                                              *)

AddTimer(a, when, interval) ==
  /\ unread = NoAddr
  /\ Len(queued) < MaxQueued
  /\ heap[a] = Free /\ s_numCreated_ < MaxTimers
  /\ heap' = [heap EXCEPT ![a] = NewTimer(when, interval)]
  /\ s_numCreated_' = s_numCreated_ + 1
  /\ queued' = Append(queued, [op |-> "add", addr |-> a])
  /\ unread' = a
  /\ UNCHANGED <<now, timers_, activeTimers_, cancelingTimers_, callingExpiredTimers_,
                 expired, toRun, current, handleNow, left, ids, cancelled>>

\* addTimer reads timer->sequence() after runInLoop handed the timer over: by then
\* the loop may have run and deleted it, and the read gives whatever is there.
ReadSequence ==
  /\ unread # NoAddr
  /\ \E s \in IF heap[unread] # Free THEN {heap[unread].sequence} ELSE Seqs :
       ids' = ids \union {<<unread, s>>}
  /\ unread' = NoAddr
  /\ UNCHANGED <<now, heap, s_numCreated_, timers_, activeTimers_, cancelingTimers_,
                 callingExpiredTimers_, expired, toRun, current, handleNow, left, queued,
                 cancelled>>

Cancel(id) ==
  /\ id \in ids
  /\ Len(queued) < MaxQueued
  /\ queued' = Append(queued, [op |-> "cancel", id |-> id])
  /\ UNCHANGED <<now, heap, s_numCreated_, timers_, activeTimers_, cancelingTimers_,
                 callingExpiredTimers_, expired, toRun, current, handleNow, left, unread,
                 ids, cancelled>>

\* doPendingFunctors runs the next functor; handleRead is not in progress then.
RunQueuedAdd ==
  /\ ~callingExpiredTimers_
  /\ queued # <<>> /\ Head(queued).op = "add"
  /\ addTimerInLoop(Head(queued).addr, heap[Head(queued).addr])
  /\ queued' = Tail(queued)
  /\ UNCHANGED <<now, heap, s_numCreated_, cancelingTimers_, callingExpiredTimers_, expired,
                 toRun, current, handleNow, unread, ids, cancelled>>

RunQueuedCancel ==
  /\ ~callingExpiredTimers_
  /\ queued # <<>> /\ Head(queued).op = "cancel"
  /\ cancelInLoop(Head(queued).id)
  /\ queued' = Tail(queued)
  /\ UNCHANGED <<now, s_numCreated_, callingExpiredTimers_, expired, toRun, current,
                 handleNow, left, unread, ids>>

-----------------------------------------------------------------------------
(* handleRead.                                                             *)

\* getExpired.
Due == {e \in timers_ : e[1] <= now}

\* The timerfd is readable: read it, take what has expired out of both sets and
\* begin to call the callbacks.
HandleRead ==
  /\ ~callingExpiredTimers_
  /\ left = 0
  /\ expired' = Due /\ toRun' = Due
  /\ timers_' = timers_ \ Due
  /\ activeTimers_' = activeTimers_ \ {Active(a) : a \in Addresses(Due)}
  /\ left' = Disarmed
  /\ handleNow' = now
  /\ callingExpiredTimers_' = TRUE
  /\ cancelingTimers_' = {}
  /\ UNCHANGED <<now, heap, s_numCreated_, current, queued, unread, ids, cancelled>>

RunTimer(e) ==
  /\ callingExpiredTimers_ /\ current = NoAddr
  /\ e \in toRun /\ \A d \in toRun : e[1] <= d[1]
  /\ current' = e[2]
  /\ toRun' = toRun \ {e}
  /\ UNCHANGED <<now, heap, s_numCreated_, timers_, activeTimers_, cancelingTimers_,
                 callingExpiredTimers_, expired, handleNow, left, queued, unread, ids,
                 cancelled>>

CallbackReturns ==
  /\ current # NoAddr
  /\ current' = NoAddr
  /\ UNCHANGED <<now, heap, s_numCreated_, timers_, activeTimers_, cancelingTimers_,
                 callingExpiredTimers_, expired, toRun, handleNow, left, queued, unread, ids,
                 cancelled>>

\* Timer::restart.
Restarted(t) == [t EXCEPT !.expiration = handleNow + t.interval]

\* The timers of the batch that are started again.
Again == {a \in Addresses(expired) : repeat(heap[a]) /\ Active(a) \notin cancelingTimers_}

\* Mutant: a timer that is not started again is not deleted.
Leaked(a) == IF a \in Again THEN Restarted(heap[a]) ELSE heap[a]

\* What is at address a after the batch.
AfterBatch(a) ==
  CASE a \in Again -> Restarted(heap[a])
    [] a \in Addresses(expired) \ Again -> Free
    [] OTHER -> heap[a]

\* Mutant: the timerfd is left as it is.
NotRearmed(entries) == left

\* The timerfd is set for the earliest entry, unless that has the invalid time.
Rearmed(entries) ==
  LET first == IF entries = {} THEN 0 ELSE Min({e[1] : e \in entries})
  IN  IF first > 0 THEN howMuchTimeFromNow(first) ELSE left

\* Every callback has returned: reset().
Reset ==
  /\ callingExpiredTimers_ /\ current = NoAddr /\ toRun = {}
  /\ callingExpiredTimers_' = FALSE
  /\ heap' = [a \in Addrs |-> AfterBatch(a)]
  /\ timers_' = timers_ \union {<<Restarted(heap[a]).expiration, a>> : a \in Again}
  /\ activeTimers_' = activeTimers_ \union {Active(a) : a \in Again}
  /\ left' = Rearmed(timers_')
  /\ expired' = {} /\ handleNow' = 0
  /\ UNCHANGED <<now, s_numCreated_, cancelingTimers_, toRun, current, queued, unread, ids,
                 cancelled>>

\* Time goes by, also while a callback runs.
Tick ==
  /\ now' = IF now < MaxTime THEN now + 1 ELSE now
  /\ left' = IF left > 0 THEN left - 1 ELSE left
  /\ UNCHANGED <<heap, s_numCreated_, timers_, activeTimers_, cancelingTimers_,
                 callingExpiredTimers_, expired, toRun, current, handleNow, queued, unread,
                 ids, cancelled>>

-----------------------------------------------------------------------------

LoopStep ==
  \/ RunQueuedAdd \/ RunQueuedCancel \/ HandleRead \/ CallbackReturns \/ Reset
  \/ \E e \in toRun : RunTimer(e)

Next ==
  \/ LoopStep \/ Tick \/ ReadSequence
  \/ \E a \in Addrs, when \in Whens, i \in Intervals :
       AddTimerInLoop(a, when, i) \/ AddTimer(a, when, i)
  \/ \E id \in ids : CancelInLoop(id) \/ Cancel(id)

Spec == Init /\ [][Next]_vars

\* Time passes and the loop thread runs: it takes the queued functors and, when
\* the timerfd is readable, handles it; callbacks return.
FairSpec == Spec /\ WF_vars(Tick) /\ WF_vars(LoopStep) /\ WF_vars(HandleRead)

-----------------------------------------------------------------------------
(* Properties.                                                             *)

\* The two sets describe the same timers, and no entry is stale: what the
\* asserts on their sizes (TimerQueue.cc:97,109,130,145,173,191) and on erase and
\* insert (102, 141, 182, 188) rely on.
SetsAgree ==
  /\ timers_ = {<<heap[id[1]].expiration, id[1]>> : id \in activeTimers_}
  /\ \A id \in activeTimers_ : id[1] \in Live /\ id[2] = heap[id[1]].sequence

\* Each live Timer object has exactly one owner, and no owner holds a deleted one:
\* a queued addTimerInLoop, the sets, or the batch handleRead is working on.
\* Nothing is leaked, deleted twice or used after deletion.
OneOwner ==
  LET inQueue == {queued[i].addr : i \in {j \in DOMAIN queued : queued[j].op = "add"}}
      inSets == {id[1] : id \in activeTimers_}
      inBatch == Addresses(expired)
  IN  /\ Live = inQueue \union inSets \union inBatch
      /\ inQueue \intersect inSets = {}
      /\ (inQueue \union inSets) \intersect inBatch = {}

\* Whenever the loop is not inside handleRead the timerfd is set, for no later
\* than any timer is due (100 microseconds from now if it is overdue).
TimerfdArmed ==
  ~callingExpiredTimers_ =>
    \A e \in timers_ : left \in 0..howMuchTimeFromNow(e[1])

\* After cancelInLoop acted on a timer it is never put back in the sets, and its
\* callback runs at most within the batch that was being run at that moment.
CancelIsFinal ==
  /\ activeTimers_ \intersect cancelled = {}
  /\ current # NoAddr /\ Active(current) \in cancelled => Active(current) \in cancelingTimers_

\* A timer due within the time modelled is run or cancelled, whatever is added,
\* cancelled or slow meanwhile.
DueTimersFire ==
  \A s \in Seqs :
    (\E a \in Addrs : <<a, s>> \in activeTimers_ /\ heap[a].expiration <= MaxTime)
      ~> (\E a \in Addrs : <<a, s>> \in cancelled \/ (current = a /\ heap[a].sequence = s))
=============================================================================
