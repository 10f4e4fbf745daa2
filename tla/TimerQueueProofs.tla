--------------------------- MODULE TimerQueueProofs ---------------------------
(***************************************************************************)
(* Safety of TimerQueue for every set of addresses, of expirations and of  *)
(* intervals and every bound: the two sets describe the same live timers,  *)
(* every Timer object has exactly one owner, the timerfd is never set too  *)
(* late, and a cancelled timer does not come back, although addresses are  *)
(* reused and ids may be stale or read from a deleted timer.               *)
(***************************************************************************)
EXTENDS TimerQueue, SequenceTheorems, WellFoundedInduction, TLAPS

Queued == [op : {"add"}, addr : Addrs] \union [op : {"cancel"}, id : TimerIds]

-----------------------------------------------------------------------------
(* The inductive invariant.                                                *)

\* The timers that the functors of a queue are to add.
AddedBy(q) == {q[i].addr : i \in {j \in DOMAIN q : q[j].op = "add"}}

\* No timer is queued twice, so that running its functor ends the queue's ownership.
AddedOnce(q) ==
  \A i, j \in DOMAIN q :
    q[i].op = "add" /\ q[j].op = "add" /\ q[i].addr = q[j].addr => i = j

\* The other places where a timer's address is kept.
InSets == {id[1] : id \in activeTimers_}
InBatch == Addresses(expired)

\* OneOwner, in these words.
Owners ==
  /\ Live = AddedBy(queued) \union InSets \union InBatch
  /\ AddedBy(queued) \intersect InSets = {}
  /\ (AddedBy(queued) \union InSets) \intersect InBatch = {}

\* There is a batch only inside handleRead, and the running timer belongs to it.
BatchInHandleRead ==
  /\ ~callingExpiredTimers_ => expired = {} /\ current = NoAddr
  /\ current # NoAddr => current \in InBatch

\* Sequence numbers in use are past ones, so that a new timer's is fresh.
SequencesPast ==
  /\ \A a \in Live : heap[a].sequence < s_numCreated_
  /\ \A id \in cancelled : id[2] < s_numCreated_

\* A live timer that was cancelled is in the running batch, and noted.
CancelledAreNoted ==
  \A a \in Live : Active(a) \in cancelled => a \in InBatch /\ Active(a) \in cancelingTimers_

\* reset() does not set the timerfd for the invalid time: it is set already.
InvalidTimeArmed == \A e \in timers_ : e[1] = 0 => left \in 0..1

TimerInv ==
  /\ TypeOK
  /\ SetsAgree
  /\ Owners
  /\ AddedOnce(queued)
  /\ BatchInHandleRead
  /\ SequencesPast
  /\ CancelledAreNoted
  /\ InvalidTimeArmed
  /\ TimerfdArmed

-----------------------------------------------------------------------------
(* Lemmas about the operators.                                             *)

\* A nonempty set of natural numbers has a least element, which Min gives.
LEMMA MinOfNats ==
  ASSUME NEW T, T \subseteq Nat, T # {}
  PROVE  Min(T) \in T /\ \A y \in T : Min(T) <= y
<1> DEFINE R == {ss \in Nat \X Nat : ss[1] < ss[2]}
<1>1. IsWellFoundedOn(R, Nat)
  BY NatLessThanWellFounded, Zenon DEF OpToRel
<1>2. PICK x \in T : \A y \in T : ~ (<<y, x>> \in R)
  BY <1>1, WFMin
<1>3. ASSUME NEW y \in T PROVE x <= y
  <2>1. x \in Nat /\ y \in Nat /\ <<y, x>> \notin R
    BY <1>2
  <2>2. ~ (y < x)
    BY <2>1, Zenon
  <2> QED BY <2>1, <2>2
<1> QED BY <1>3 DEF Min

\* The delay the timerfd is programmed with is at least one tick, and grows with
\* the expiration.
LEMMA DelayFacts ==
  ASSUME NEW n \in Int, NEW w \in Int, NEW v \in Int, w <= v, now = n
  PROVE  /\ howMuchTimeFromNow(w) \in Nat /\ 1 <= howMuchTimeFromNow(w)
         /\ howMuchTimeFromNow(w) <= howMuchTimeFromNow(v)
BY DEF howMuchTimeFromNow

\* A timer object is not a free cell.
LEMMA TimersNotFree == Free \notin Timers
BY TimeAssumption DEF Free, Timers, Seqs

\* What the timerfd is set to when reset() is done with it: no later than any entry
\* is due, if it was right for entries with the invalid time.
LEMMA RearmedEarly ==
  ASSUME NEW S, S \subseteq Entries, now \in Nat, left \in Nat \union {Disarmed},
         \A e \in S : e[1] = 0 => left \in 0..1
  PROVE  /\ Rearmed(S) \in Nat \union {Disarmed}
         /\ \A e \in S : Rearmed(S) \in 0..howMuchTimeFromNow(e[1])
         /\ \A e \in S : e[1] = 0 => Rearmed(S) \in 0..1
<1>1. CASE S = {}
  BY <1>1 DEF Rearmed
<1>2. CASE S # {}
  <2> DEFINE T == {e[1] : e \in S}
             m == Min(T)
  <2>1. T \subseteq Nat /\ T # {}
    BY <1>2 DEF Entries
  <2>2. m \in T /\ m \in Nat /\ \A y \in T : m <= y
    BY <2>1, MinOfNats
  <2>3. Rearmed(S) = IF m > 0 THEN howMuchTimeFromNow(m) ELSE left
    BY <1>2 DEF Rearmed
  <2> HIDE DEF m
  <2>4. CASE m > 0
    <3>1. Rearmed(S) = howMuchTimeFromNow(m) /\ Rearmed(S) \in Nat
      BY <2>2, <2>3, <2>4, DelayFacts
    <3>2. ASSUME NEW e \in S PROVE e[1] # 0 /\ Rearmed(S) <= howMuchTimeFromNow(e[1])
      <4>1. e[1] \in T /\ e[1] \in Nat
        BY <2>1
      <4> QED BY <2>2, <2>4, <3>1, <4>1 DEF howMuchTimeFromNow
    <3>3. \A e \in S : e[1] \in Nat
      BY <2>1
    <3> QED BY <3>1, <3>2, <3>3 DEF howMuchTimeFromNow
  <2>5. CASE m = 0
    <3>1. Rearmed(S) = left
      BY <2>3, <2>5
    <3>2. PICK f \in S : f[1] = 0
      BY <2>2, <2>5
    <3>3. left \in 0..1
      BY <3>2
    <3>4. \A e \in S : 1 <= howMuchTimeFromNow(e[1]) /\ howMuchTimeFromNow(e[1]) \in Nat
      <4>1. \A e \in S : e[1] \in Nat
        BY <2>1
      <4> QED BY <4>1 DEF howMuchTimeFromNow
    <3> QED BY <3>1, <3>3, <3>4
  <2> QED BY <2>2, <2>4, <2>5
<1> QED BY <1>1, <1>2

\* Queuing a functor: an added timer joins those of the queue.
LEMMA AppendAdded ==
  ASSUME NEW q \in Seq(Queued), NEW f \in Queued, AddedOnce(q),
         f.op = "add" => f.addr \notin AddedBy(q)
  PROVE  /\ Append(q, f) \in Seq(Queued) /\ AddedOnce(Append(q, f))
         /\ AddedBy(Append(q, f)) =
              IF f.op = "add" THEN AddedBy(q) \union {f.addr} ELSE AddedBy(q)
<1> DEFINE r == Append(q, f)
           n == Len(q)
<1>1. /\ r \in Seq(Queued) /\ Len(r) = n + 1 /\ n \in Nat
      /\ \A i \in 1..n : r[i] = q[i]
      /\ r[n + 1] = f
      /\ DOMAIN r = 1..(n + 1) /\ DOMAIN q = 1..n
  BY AppendProperties, LenProperties
<1> HIDE DEF r, n
<1>2. AddedOnce(r)
  BY <1>1 DEF AddedOnce, AddedBy
<1>3. AddedBy(r) = IF f.op = "add" THEN AddedBy(q) \union {f.addr} ELSE AddedBy(q)
  BY <1>1 DEF AddedBy
<1> QED BY <1>1, <1>2, <1>3 DEF r

\* Running the first functor: its timer, if it adds one, leaves those of the queue.
LEMMA TailAdded ==
  ASSUME NEW q \in Seq(Queued), q # <<>>, AddedOnce(q)
  PROVE  /\ Tail(q) \in Seq(Queued) /\ AddedOnce(Tail(q)) /\ Head(q) \in Queued
         /\ Head(q).op = "add" => Head(q).addr \in AddedBy(q)
         /\ AddedBy(Tail(q)) =
              IF Head(q).op = "add" THEN AddedBy(q) \ {Head(q).addr} ELSE AddedBy(q)
<1> DEFINE r == Tail(q)
           n == Len(q)
<1>1. /\ r \in Seq(Queued) /\ Len(r) = n - 1 /\ n \in Nat /\ n >= 1
      /\ \A i \in 1..(n - 1) : r[i] = q[i + 1]
      /\ DOMAIN r = 1..(n - 1) /\ DOMAIN q = 1..n
      /\ Head(q) = q[1] /\ Head(q) \in Queued
  BY HeadTailProperties, LenProperties
<1> HIDE DEF r, n
<1>2. AddedOnce(r)
  <2> SUFFICES ASSUME NEW i \in 1..(n - 1), NEW j \in 1..(n - 1),
                      r[i].op = "add", r[j].op = "add", r[i].addr = r[j].addr
               PROVE  i = j
    BY <1>1 DEF AddedOnce
  <2>1. i + 1 \in 1..n /\ j + 1 \in 1..n
    BY <1>1
  <2>2. r[i] = q[i + 1] /\ r[j] = q[j + 1]
    BY <1>1
  <2>3. i + 1 = j + 1
    BY <1>1, <2>1, <2>2 DEF AddedOnce
  <2> QED BY <1>1, <2>3
<1>3. \A i \in 2..n : i - 1 \in 1..(n - 1) /\ q[i] = r[i - 1]
  BY <1>1
<1>4. AddedBy(r) = {q[i].addr : i \in {j \in 2..n : q[j].op = "add"}}
  <2>1. ASSUME NEW x \in AddedBy(r) PROVE \E i \in 2..n : q[i].op = "add" /\ x = q[i].addr
    <3>1. PICK i \in 1..(n - 1) : r[i].op = "add" /\ x = r[i].addr
      BY <1>1 DEF AddedBy
    <3>2. i + 1 \in 2..n /\ q[i + 1] = r[i]
      BY <1>1
    <3> QED BY <3>1, <3>2
  <2>2. ASSUME NEW i \in 2..n, q[i].op = "add" PROVE q[i].addr \in AddedBy(r)
    BY <1>1, <1>3, <2>2 DEF AddedBy
  <2> QED BY <2>1, <2>2
<1>5. Head(q).op = "add" => Head(q).addr \in AddedBy(q)
  BY <1>1 DEF AddedBy
<1>6. AddedBy(q) = {q[i].addr : i \in {j \in 2..n : q[j].op = "add"}} \union
                     (IF q[1].op = "add" THEN {q[1].addr} ELSE {})
  BY <1>1 DEF AddedBy
<1>7. q[1].op = "add" => \A i \in 2..n : q[i].op = "add" => q[i].addr # q[1].addr
  BY <1>1 DEF AddedOnce
<1> QED BY <1>1, <1>2, <1>4, <1>5, <1>6, <1>7 DEF r

\* Both sets, read through the addresses in them.
LEMMA SetsByAddress ==
  ASSUME TypeOK, SetsAgree
  PROVE  /\ InSets \subseteq Live /\ InSets \subseteq Addrs
         /\ activeTimers_ = {Active(a) : a \in InSets}
         /\ timers_ = {<<heap[a].expiration, a>> : a \in InSets}
<1>1. \A id \in activeTimers_ : id = <<id[1], id[2]>> /\ id[1] \in Addrs
  BY DEF TypeOK, TimerIds
<1>2. \A id \in activeTimers_ : id = Active(id[1])
  BY <1>1 DEF SetsAgree, Active
<1>3. InSets \subseteq Live /\ InSets \subseteq Addrs
  BY <1>1 DEF SetsAgree, InSets
<1>4. activeTimers_ = {Active(a) : a \in InSets}
  BY <1>2 DEF InSets
<1>5. timers_ = {<<heap[a].expiration, a>> : a \in InSets}
  BY DEF SetsAgree, InSets
<1> QED BY <1>3, <1>4, <1>5

\* The sets tim and act of the timers at the addresses T of a heap h, and what
\* SetsAgree says of two such sets.
BuiltFrom(h, T, tim, act) ==
  /\ act = {<<a, h[a].sequence>> : a \in T}
  /\ tim = {<<h[a].expiration, a>> : a \in T}

AgreeOn(h, T, tim, act) ==
  /\ tim = {<<h[id[1]].expiration, id[1]>> : id \in act}
  /\ \A id \in act : id[1] \in T /\ id[2] = h[id[1]].sequence
  /\ {id[1] : id \in act} = T

\* The converse: two sets built from the same addresses agree.
LEMMA SetsBuilt ==
  ASSUME NEW h, NEW T, NEW tim, NEW act, BuiltFrom(h, T, tim, act)
  PROVE  AgreeOn(h, T, tim, act)
<1> USE DEF BuiltFrom
<1>1. ASSUME NEW id \in act
      PROVE  id[1] \in T /\ id[2] = h[id[1]].sequence
  OBVIOUS
<1>2. ASSUME NEW a \in T
      PROVE  \E id \in act : id[1] = a
  <2>1. <<a, h[a].sequence>> \in act
    OBVIOUS
  <2> QED BY <2>1
<1>3. {id[1] : id \in act} = T
  BY <1>1, <1>2
<1>4. tim = {<<h[id[1]].expiration, id[1]>> : id \in act}
  BY <1>1, <1>2
<1> QED BY <1>1, <1>3, <1>4 DEF AgreeOn

-----------------------------------------------------------------------------
(* The two ways the sets change: a timer enters them, or leaves them by    *)
(* cancelInLoop.                                                           *)

\* addTimerInLoop of a timer that is in neither set keeps them in agreement and
\* the timerfd early enough.
LEMMA InsertEffect ==
  ASSUME TimerInv, NEW a \in Addrs, NEW t \in Timers, a \notin InSets,
         addTimerInLoop(a, t), now' = now, callingExpiredTimers_' = callingExpiredTimers_,
         heap' \in [Addrs -> Timers \union {Free}], heap'[a] = t,
         \A b \in InSets : heap'[b] = heap[b]
  PROVE  /\ SetsAgree' /\ InSets' = InSets \union {a}
         /\ timers_' \subseteq Entries /\ activeTimers_' \subseteq TimerIds
         /\ left' \in Nat \union {Disarmed}
         /\ InvalidTimeArmed' /\ TimerfdArmed'
<1> DEFINE T == InSets \union {a}
<1>1. TypeOK /\ SetsAgree
  BY DEF TimerInv
<1>2. t.expiration \in Nat /\ t.sequence \in Seqs /\ t # Free /\ now \in Nat /\ now \in Int
  BY <1>1, TimersNotFree DEF Timers, TypeOK
<1>3. /\ timers_' = timers_ \union {<<t.expiration, a>>}
      /\ activeTimers_' = activeTimers_ \union {<<a, t.sequence>>}
      /\ left' = IF earliestChanged(t) THEN howMuchTimeFromNow(t.expiration) ELSE left
  BY DEF addTimerInLoop, Inserted
<1>4. timers_' = {<<heap'[b].expiration, b>> : b \in T}
  BY <1>1, <1>3, SetsByAddress
<1>5. activeTimers_' = {<<b, heap'[b].sequence>> : b \in T}
  BY <1>1, <1>3, SetsByAddress DEF Active
<1>6. AgreeOn(heap', T, timers_', activeTimers_')
  <2>1. BuiltFrom(heap', T, timers_', activeTimers_')
    BY <1>4, <1>5 DEF BuiltFrom
  <2> QED BY <2>1, SetsBuilt
<1>7. InSets' = T
  BY <1>6 DEF InSets, AgreeOn
<1>8. \A b \in T : b \in Addrs /\ heap'[b] # Free
  BY <1>1, <1>2, SetsByAddress DEF Live
<1>9. SetsAgree'
  BY <1>6, <1>8 DEF SetsAgree, Live, AgreeOn
<1>10. timers_' \subseteq Entries /\ activeTimers_' \subseteq TimerIds
  BY <1>1, <1>2, <1>3 DEF TypeOK, Entries, TimerIds
<1>11. left' \in Nat \union {Disarmed}
  BY <1>1, <1>2, <1>3 DEF TypeOK, howMuchTimeFromNow
<1>12. \A e \in timers_ : e[1] \in Nat
  BY <1>1 DEF TypeOK, Entries
<1>13. InvalidTimeArmed'
  <2> SUFFICES ASSUME NEW e \in timers_', e[1] = 0 PROVE left' \in 0..1
    BY DEF InvalidTimeArmed
  <2>1. CASE e \in timers_
    <3>1. ~earliestChanged(t)
      BY <1>2, <2>1 DEF earliestChanged
    <3> QED BY <1>3, <2>1, <3>1 DEF TimerInv, InvalidTimeArmed
  <2>2. CASE e = <<t.expiration, a>> /\ earliestChanged(t)
    BY <1>2, <1>3, <2>2 DEF howMuchTimeFromNow
  <2>3. CASE e = <<t.expiration, a>> /\ ~earliestChanged(t)
    <3>1. PICK d \in timers_ : ~(t.expiration < d[1])
      BY <2>3 DEF earliestChanged
    <3>2. d[1] = 0
      BY <1>12, <2>3, <3>1
    <3> QED BY <1>3, <2>3, <3>2 DEF TimerInv, InvalidTimeArmed
  <2> QED BY <1>3, <2>1, <2>2, <2>3
<1>14. TimerfdArmed'
  <2> SUFFICES ASSUME ~callingExpiredTimers_, NEW e \in timers_'
               PROVE  left' \in 0..howMuchTimeFromNow(e[1])
    BY DEF TimerfdArmed, howMuchTimeFromNow
  <2>1. \A d \in timers_ : left \in 0..howMuchTimeFromNow(d[1])
    BY DEF TimerInv, TimerfdArmed
  <2>2. e[1] \in Nat
    BY <1>10 DEF Entries
  <2>3. CASE earliestChanged(t)
    <3>1. t.expiration <= e[1]
      BY <1>2, <1>3, <1>12, <2>3 DEF earliestChanged
    <3> QED BY <1>2, <1>3, <2>2, <2>3, <3>1 DEF howMuchTimeFromNow
  <2>4. CASE ~earliestChanged(t)
    <3>1. PICK d \in timers_ : ~(t.expiration < d[1])
      BY <2>4 DEF earliestChanged
    <3>2. CASE e \in timers_
      BY <1>3, <2>1, <2>4, <3>2
    <3>3. CASE e = <<t.expiration, a>>
      <4>1. d[1] \in Nat /\ d[1] <= e[1]
        BY <1>2, <1>12, <3>1, <3>3
      <4>2. left \in 0..howMuchTimeFromNow(d[1])
        BY <2>1
      <4> QED BY <1>2, <1>3, <2>2, <2>4, <4>1, <4>2 DEF howMuchTimeFromNow
    <3> QED BY <1>3, <3>2, <3>3
  <2> QED BY <2>3, <2>4
<1> QED BY <1>7, <1>9, <1>10, <1>11, <1>13, <1>14

\* cancelInLoop, called directly or by a functor of the queue, for any id: one of a
\* live timer, of a deleted one, or one read from a deleted timer.
LEMMA CancelEffect ==
  ASSUME TimerInv, NEW id \in TimerIds, cancelInLoop(id),
         queued' \in Seq(Queued), AddedOnce(queued'), AddedBy(queued') = AddedBy(queued),
         UNCHANGED <<now, s_numCreated_, callingExpiredTimers_, expired, toRun, current,
                     handleNow, left, unread, ids>>
  PROVE  TimerInv'
<1>1. TypeOK /\ SetsAgree /\ Owners
  BY DEF TimerInv
<1>2. id[1] \in Addrs /\ id[2] \in Seqs /\ id = <<id[1], id[2]>>
  BY DEF TimerIds
<1>3. CASE FoundActive(id)
  <2> DEFINE a == id[1]
             T == InSets \ {a}
  <2>1. /\ timers_' = timers_ \ {<<heap[a].expiration, a>>}
        /\ activeTimers_' = activeTimers_ \ {id}
        /\ heap' = [heap EXCEPT ![a] = Free]
        /\ cancelled' = cancelled \union {id}
        /\ cancelingTimers_' = cancelingTimers_
        /\ id \in activeTimers_
    BY <1>3 DEF cancelInLoop, FoundActive
  <2>2. id = Active(a) /\ a \in InSets /\ a \in Live
    BY <1>1, <1>2, <2>1 DEF SetsAgree, Active, InSets
  <2>3. a \notin AddedBy(queued) /\ a \notin InBatch
    BY <1>1, <2>2 DEF Owners
  <2>4. Live' = Live \ {a} /\ \A b \in Addrs \ {a} : heap'[b] = heap[b]
    BY <1>1, <2>1 DEF Live, TypeOK
  <2>5. AgreeOn(heap', T, timers_', activeTimers_')
    <3>1. T \subseteq Addrs \ {a}
      BY <1>1, SetsByAddress
    <3>2. timers_' = {<<heap[b].expiration, b>> : b \in T}
      BY <1>1, <2>1, <2>2, SetsByAddress
    <3>3. activeTimers_' = {<<b, heap[b].sequence>> : b \in T}
      BY <1>1, <2>1, <2>2, SetsByAddress DEF Active
    <3>4. \A b \in T : heap'[b] = heap[b]
      BY <2>4, <3>1
    <3>5. BuiltFrom(heap', T, timers_', activeTimers_')
      BY <3>2, <3>3, <3>4 DEF BuiltFrom
    <3> QED BY <3>5, SetsBuilt
  <2>6. InSets' = InSets \ {a} /\ InBatch' = InBatch
    BY <2>5 DEF AgreeOn, InSets, InBatch
  <2>7. TypeOK'
    <3>1. heap' \in [Addrs -> Timers \union {Free}]
      BY <1>1, <2>1 DEF TypeOK
    <3> QED BY <1>1, <2>1, <3>1 DEF TypeOK, Queued
  <2>8. SetsAgree'
    <3>1. T \subseteq Live'
      BY <1>1, <2>4, SetsByAddress
    <3> QED BY <2>5, <3>1 DEF SetsAgree, AgreeOn
  <2>9. Owners'
    BY <1>1, <2>2, <2>3, <2>4, <2>6 DEF Owners
  <2>10. BatchInHandleRead'
    BY <2>6 DEF TimerInv, BatchInHandleRead
  <2>11. SequencesPast'
    <3>1. \A b \in Live' : heap'[b].sequence < s_numCreated_
      BY <2>4 DEF TimerInv, SequencesPast, Live
    <3>2. id[2] < s_numCreated_
      BY <2>2 DEF TimerInv, SequencesPast, Active
    <3> QED BY <2>1, <3>1, <3>2 DEF TimerInv, SequencesPast
  <2>12. CancelledAreNoted'
    <3> SUFFICES ASSUME NEW b \in Live', Active(b)' \in cancelled'
                 PROVE  b \in InBatch /\ Active(b)' \in cancelingTimers_
      BY <2>1, <2>6 DEF CancelledAreNoted
    <3>1. b \in Live /\ b # a /\ b \in Addrs
      BY <2>4 DEF Live
    <3>2. Active(b)' = Active(b) /\ Active(b) # id
      BY <1>2, <2>4, <3>1 DEF Active
    <3> QED BY <2>1, <3>1, <3>2 DEF TimerInv, CancelledAreNoted
  <2>13. InvalidTimeArmed' /\ TimerfdArmed'
    BY <2>1 DEF TimerInv, InvalidTimeArmed, TimerfdArmed, howMuchTimeFromNow
  <2> QED BY <2>7, <2>8, <2>9, <2>10, <2>11, <2>12, <2>13 DEF TimerInv
<1>4. CASE ~FoundActive(id)
  <2>1. UNCHANGED <<timers_, activeTimers_, heap>>
    BY <1>4 DEF cancelInLoop
  <2>2. \/ cancelingTimers_' = cancelingTimers_ /\ cancelled' = cancelled
        \/ cancelingTimers_' = cancelingTimers_ \union {id} /\ cancelled' = cancelled
        \/ /\ cancelingTimers_' = cancelingTimers_ \union {id}
           /\ cancelled' = cancelled \union {id}
           /\ \E a \in InBatch : id = Active(a)
    BY <1>4 DEF cancelInLoop, Noted, InBatch
  <2>3. TypeOK'
    BY <1>1, <2>1, <2>2 DEF TypeOK, Queued
  <2>4. /\ Live' = Live /\ InSets' = InSets /\ InBatch' = InBatch
        /\ \A a : Active(a)' = Active(a)
    BY <2>1 DEF Live, InSets, InBatch, Active
  <2>5. SetsAgree' /\ Owners'
    BY <1>1, <2>1, <2>4 DEF SetsAgree, Owners
  <2>6. BatchInHandleRead'
    BY <2>4 DEF TimerInv, BatchInHandleRead
  <2>7. SequencesPast' /\ CancelledAreNoted'
    <3>1. CASE cancelled' = cancelled
      BY <2>1, <2>2, <2>4, <3>1 DEF TimerInv, SequencesPast, CancelledAreNoted
    <3>2. CASE /\ cancelingTimers_' = cancelingTimers_ \union {id}
               /\ cancelled' = cancelled \union {id}
               /\ \E a \in InBatch : id = Active(a)
      <4>1. PICK a \in InBatch : id = Active(a)
        BY <3>2
      <4>2. a \in Live /\ id[2] = heap[a].sequence
        BY <1>1, <4>1 DEF Owners, Active
      <4>3. SequencesPast'
        BY <2>1, <2>4, <3>2, <4>2 DEF TimerInv, SequencesPast
      <4>4. \A b : Active(b) = id => b = a
        BY <4>1 DEF Active
      <4>5. CancelledAreNoted'
        BY <2>4, <3>2, <4>1, <4>4 DEF TimerInv, CancelledAreNoted
      <4> QED BY <4>3, <4>5
    <3> QED BY <2>2, <3>1, <3>2
  <2>8. InvalidTimeArmed' /\ TimerfdArmed'
    BY <2>1 DEF TimerInv, InvalidTimeArmed, TimerfdArmed, howMuchTimeFromNow
  <2> QED BY <2>3, <2>5, <2>6, <2>7, <2>8 DEF TimerInv
<1> QED BY <1>3, <1>4

-----------------------------------------------------------------------------
(* One lemma per group of operations.                                      *)

\* The invariant holds at first.
LEMMA InitInv == Init => TimerInv
<1> SUFFICES ASSUME Init PROVE TimerInv
  OBVIOUS
<1> USE DEF Init
<1>1. TypeOK
  <2>1. now \in 1..MaxTime /\ s_numCreated_ \in 0..MaxTimers /\ handleNow \in Times
    BY TimeAssumption DEF Times
  <2>2. heap \in [Addrs -> Timers \union {Free}]
    OBVIOUS
  <2>3. callingExpiredTimers_ \in BOOLEAN
    OBVIOUS
  <2>4. queued \in Seq(Queued)
    OBVIOUS
  <2> QED BY <2>1, <2>2, <2>3, <2>4 DEF TypeOK, Queued
<1>2. Live = {} /\ InSets = {} /\ InBatch = {} /\ AddedBy(queued) = {}
  BY DEF Live, InSets, InBatch, AddedBy, Addresses
<1>3. SetsAgree /\ Owners /\ AddedOnce(queued)
  BY <1>2 DEF SetsAgree, Owners, AddedOnce
<1>4. BatchInHandleRead /\ SequencesPast /\ CancelledAreNoted
  BY <1>2 DEF BatchInHandleRead, SequencesPast, CancelledAreNoted
<1>5. InvalidTimeArmed /\ TimerfdArmed
  BY DEF InvalidTimeArmed, TimerfdArmed
<1> QED BY <1>1, <1>3, <1>4, <1>5 DEF TimerInv

\* addTimer on the loop thread.
LEMMA AddTimerInLoopStep ==
  ASSUME TimerInv, NEW a \in Addrs, NEW when \in Whens, NEW i \in Intervals,
         AddTimerInLoop(a, when, i)
  PROVE  TimerInv'
<1> DEFINE t == NewTimer(when, i)
<1>1. TypeOK /\ SetsAgree /\ Owners
  BY DEF TimerInv
<1>2. /\ heap[a] = Free /\ s_numCreated_ < MaxTimers
      /\ heap' = [heap EXCEPT ![a] = t]
      /\ addTimerInLoop(a, t)
      /\ ids' = ids \union {<<a, t.sequence>>}
      /\ s_numCreated_' = s_numCreated_ + 1
      /\ UNCHANGED <<now, cancelingTimers_, callingExpiredTimers_, expired, toRun, current,
                     handleNow, queued, unread, cancelled>>
  BY DEF AddTimerInLoop
<1>3. s_numCreated_ \in Nat /\ s_numCreated_ \in Seqs /\ s_numCreated_' \in 0..MaxTimers
  BY <1>1, <1>2, TimeAssumption DEF TypeOK, Seqs
<1>4. t \in Timers /\ t # Free /\ t.sequence = s_numCreated_
  BY <1>3, TimersNotFree, TimeAssumption DEF NewTimer, Timers
<1> HIDE DEF t
<1>5. a \notin Live /\ a \notin InSets /\ a \notin InBatch /\ a \notin AddedBy(queued)
  BY <1>1, <1>2 DEF Live, Owners
<1>6. /\ heap' \in [Addrs -> Timers \union {Free}] /\ heap'[a] = t
      /\ \A b \in Addrs \ {a} : heap'[b] = heap[b]
      /\ Live' = Live \union {a}
  BY <1>1, <1>2, <1>4 DEF TypeOK, Live
<1>7. \A b \in InSets : heap'[b] = heap[b]
  BY <1>1, <1>5, <1>6, SetsByAddress
<1>8. /\ SetsAgree' /\ InSets' = InSets \union {a}
      /\ timers_' \subseteq Entries /\ activeTimers_' \subseteq TimerIds
      /\ left' \in Nat \union {Disarmed}
      /\ InvalidTimeArmed' /\ TimerfdArmed'
  BY <1>2, <1>4, <1>5, <1>6, <1>7, InsertEffect
<1>9. TypeOK'
  <2>1. <<a, t.sequence>> \in TimerIds
    BY <1>3, <1>4 DEF TimerIds
  <2> QED BY <1>1, <1>2, <1>3, <1>6, <1>8, <2>1 DEF TypeOK
<1>10. InBatch' = InBatch
  BY <1>2 DEF InBatch
<1>11. Owners' /\ AddedOnce(queued')
  BY <1>1, <1>2, <1>5, <1>6, <1>8, <1>10 DEF Owners, TimerInv
<1>12. BatchInHandleRead'
  BY <1>2, <1>10 DEF TimerInv, BatchInHandleRead
<1>13. \A b \in Live : b \in Addrs /\ heap'[b] = heap[b] /\ Active(b)' = Active(b)
  BY <1>5, <1>6 DEF Live, Active
<1>14. SequencesPast'
  <2>1. \A b \in Live : heap[b].sequence < s_numCreated_ /\ heap[b].sequence \in Int
    BY <1>1 DEF TimerInv, SequencesPast, Live, TypeOK, Timers, Seqs
  <2>2. \A id \in cancelled : id[2] < s_numCreated_ /\ id[2] \in Int
    BY <1>1 DEF TimerInv, SequencesPast, TypeOK, TimerIds, Seqs
  <2> QED BY <1>2, <1>3, <1>4, <1>6, <1>13, <2>1, <2>2 DEF SequencesPast
<1>15. CancelledAreNoted'
  <2>1. Active(a)' \notin cancelled
    BY <1>3, <1>4, <1>6 DEF TimerInv, SequencesPast, Active
  <2> QED BY <1>2, <1>6, <1>10, <1>13, <2>1 DEF TimerInv, CancelledAreNoted
<1> QED BY <1>8, <1>9, <1>11, <1>12, <1>14, <1>15 DEF TimerInv

\* addTimer on another thread: the new timer belongs to the queued functor.
LEMMA AddTimerStep ==
  ASSUME TimerInv, NEW a \in Addrs, NEW when \in Whens, NEW i \in Intervals,
         AddTimer(a, when, i)
  PROVE  TimerInv'
<1> DEFINE t == NewTimer(when, i)
           f == [op |-> "add", addr |-> a]
<1>1. TypeOK /\ SetsAgree /\ Owners /\ queued \in Seq(Queued) /\ AddedOnce(queued)
  BY DEF TimerInv, TypeOK, Queued
<1>2. /\ heap[a] = Free /\ s_numCreated_ < MaxTimers
      /\ heap' = [heap EXCEPT ![a] = t]
      /\ s_numCreated_' = s_numCreated_ + 1
      /\ queued' = Append(queued, f)
      /\ unread' = a
      /\ UNCHANGED <<now, timers_, activeTimers_, cancelingTimers_, callingExpiredTimers_,
                     expired, toRun, current, handleNow, left, ids, cancelled>>
  BY DEF AddTimer
<1>3. s_numCreated_ \in Nat /\ s_numCreated_ \in Seqs /\ s_numCreated_' \in 0..MaxTimers
  BY <1>1, <1>2, TimeAssumption DEF TypeOK, Seqs
<1>4. t \in Timers /\ t # Free /\ t.sequence = s_numCreated_
  BY <1>3, TimersNotFree, TimeAssumption DEF NewTimer, Timers
<1> HIDE DEF t
<1>5. a \notin Live /\ a \notin InSets /\ a \notin InBatch /\ a \notin AddedBy(queued)
  BY <1>1, <1>2 DEF Live, Owners
<1>6. /\ queued' \in Seq(Queued) /\ AddedOnce(queued')
      /\ AddedBy(queued') = AddedBy(queued) \union {a}
  <2>1. f \in Queued /\ f.op = "add" /\ f.addr = a
    BY DEF Queued
  <2> HIDE DEF f
  <2> QED BY <1>1, <1>2, <1>5, <2>1, AppendAdded
<1>7. /\ heap' \in [Addrs -> Timers \union {Free}] /\ heap'[a] = t
      /\ \A b \in Addrs \ {a} : heap'[b] = heap[b]
      /\ Live' = Live \union {a}
  BY <1>1, <1>2, <1>4 DEF TypeOK, Live
<1>8. TypeOK'
  BY <1>1, <1>2, <1>3, <1>6, <1>7 DEF TypeOK, Queued
<1>9. InBatch' = InBatch /\ InSets' = InSets
  BY <1>2 DEF InBatch, InSets
<1>10. SetsAgree'
  <2>1. \A id \in activeTimers_ : id[1] \in Live /\ id[1] \in Addrs \ {a}
    BY <1>1, <1>5 DEF SetsAgree, InSets, Live
  <2> QED BY <1>1, <1>2, <1>7, <2>1 DEF SetsAgree
<1>11. Owners'
  BY <1>1, <1>5, <1>6, <1>7, <1>9 DEF Owners
<1>12. BatchInHandleRead'
  BY <1>2, <1>9 DEF TimerInv, BatchInHandleRead
<1>13. \A b \in Live : b \in Addrs /\ heap'[b] = heap[b] /\ Active(b)' = Active(b)
  BY <1>5, <1>7 DEF Live, Active
<1>14. SequencesPast'
  <2>1. \A b \in Live : heap[b].sequence < s_numCreated_ /\ heap[b].sequence \in Int
    BY <1>1 DEF TimerInv, SequencesPast, Live, TypeOK, Timers, Seqs
  <2>2. \A id \in cancelled : id[2] < s_numCreated_ /\ id[2] \in Int
    BY <1>1 DEF TimerInv, SequencesPast, TypeOK, TimerIds, Seqs
  <2> QED BY <1>2, <1>3, <1>4, <1>7, <1>13, <2>1, <2>2 DEF SequencesPast
<1>15. CancelledAreNoted'
  <2>1. Active(a)' \notin cancelled
    BY <1>3, <1>4, <1>7 DEF TimerInv, SequencesPast, Active
  <2> QED BY <1>2, <1>7, <1>9, <1>13, <2>1 DEF TimerInv, CancelledAreNoted
<1>16. InvalidTimeArmed' /\ TimerfdArmed'
  BY <1>2 DEF TimerInv, InvalidTimeArmed, TimerfdArmed, howMuchTimeFromNow
<1> QED BY <1>6, <1>8, <1>10, <1>11, <1>12, <1>14, <1>15, <1>16 DEF TimerInv

\* Steps that leave the timers, the sets, the batch and the functors that add alone.
LEMMA TimersKept ==
  ASSUME TimerInv, TypeOK',
         AddedOnce(queued'), AddedBy(queued') = AddedBy(queued),
         UNCHANGED <<heap, s_numCreated_, timers_, activeTimers_, cancelingTimers_,
                     callingExpiredTimers_, expired, cancelled>>,
         BatchInHandleRead', InvalidTimeArmed', TimerfdArmed'
  PROVE  TimerInv'
<1>1. /\ Live' = Live /\ InSets' = InSets /\ InBatch' = InBatch
      /\ \A a : Active(a)' = Active(a)
  BY DEF Live, InSets, InBatch, Active
<1>2. SetsAgree'
  BY <1>1 DEF TimerInv, SetsAgree
<1>3. Owners'
  BY <1>1 DEF TimerInv, Owners
<1>4. SequencesPast' /\ CancelledAreNoted'
  BY <1>1 DEF TimerInv, SequencesPast, CancelledAreNoted
<1> QED BY <1>2, <1>3, <1>4 DEF TimerInv

\* The late read of sequence(), a cancel that is queued, a callback's beginning and
\* end, and time.
LEMMA QuietStep ==
  ASSUME TimerInv,
         \/ ReadSequence \/ CallbackReturns \/ Tick
         \/ \E id \in ids : Cancel(id)
         \/ \E e \in toRun : RunTimer(e)
  PROVE  TimerInv'
<1>1. TypeOK /\ queued \in Seq(Queued) /\ AddedOnce(queued)
  BY DEF TimerInv, TypeOK, Queued
<1>2. CASE ReadSequence
  <2>1. PICK s \in IF heap[unread] # Free THEN {heap[unread].sequence} ELSE Seqs :
          ids' = ids \union {<<unread, s>>}
    BY <1>2 DEF ReadSequence
  <2>2. unread \in Addrs
    BY <1>1, <1>2 DEF ReadSequence, TypeOK
  <2>3. s \in Seqs
    BY <1>1, <2>1, <2>2 DEF TypeOK, Timers
  <2>4. TypeOK'
    BY <1>1, <1>2, <2>1, <2>2, <2>3 DEF ReadSequence, TypeOK, TimerIds
  <2>5. BatchInHandleRead' /\ InvalidTimeArmed' /\ TimerfdArmed'
    BY <1>2 DEF ReadSequence, TimerInv, BatchInHandleRead, InBatch, InvalidTimeArmed,
       TimerfdArmed, howMuchTimeFromNow
  <2> QED BY <1>1, <1>2, <2>4, <2>5, TimersKept DEF ReadSequence
<1>3. CASE CallbackReturns
  <2>1. TypeOK'
    BY <1>1, <1>3 DEF CallbackReturns, TypeOK
  <2>2. BatchInHandleRead' /\ InvalidTimeArmed' /\ TimerfdArmed'
    BY <1>3 DEF CallbackReturns, TimerInv, BatchInHandleRead, InBatch, InvalidTimeArmed,
       TimerfdArmed, howMuchTimeFromNow
  <2> QED BY <1>1, <1>3, <2>1, <2>2, TimersKept DEF CallbackReturns
<1>4. CASE Tick
  <2>1. now \in Nat /\ now' \in 1..MaxTime /\ (now' = now \/ now' = now + 1)
    BY <1>1, <1>4, TimeAssumption DEF Tick, TypeOK
  <2>2. left' \in Nat \union {Disarmed}
    BY <1>1, <1>4 DEF Tick, TypeOK, Disarmed
  <2>3. TypeOK'
    BY <1>1, <1>4, <2>1, <2>2 DEF Tick, TypeOK
  <2>4. BatchInHandleRead'
    BY <1>4 DEF Tick, TimerInv, BatchInHandleRead, InBatch
  <2>5. InvalidTimeArmed'
    BY <1>1, <1>4 DEF Tick, TimerInv, InvalidTimeArmed, TypeOK
  <2>6. TimerfdArmed'
    <3> SUFFICES ASSUME ~callingExpiredTimers_, NEW e \in timers_
                 PROVE  left' \in 0..(howMuchTimeFromNow(e[1])')
      BY <1>4 DEF Tick, TimerfdArmed, howMuchTimeFromNow
    <3>1. e[1] \in Nat /\ left \in 0..howMuchTimeFromNow(e[1])
      BY <1>1 DEF TimerInv, TimerfdArmed, TypeOK, Entries
    <3> QED BY <1>4, <2>1, <3>1 DEF Tick, howMuchTimeFromNow
  <2> QED BY <1>1, <1>4, <2>3, <2>4, <2>5, <2>6, TimersKept DEF Tick
<1>5. CASE \E id \in ids : Cancel(id)
  <2>1. PICK id \in ids : Cancel(id)
    BY <1>5
  <2> DEFINE f == [op |-> "cancel", id |-> id]
  <2>2. f \in Queued /\ f.op # "add"
    BY <1>1 DEF Queued, TypeOK
  <2>3. queued' = Append(queued, f)
    BY <2>1 DEF Cancel
  <2> HIDE DEF f
  <2>4. queued' \in Seq(Queued) /\ AddedOnce(queued') /\ AddedBy(queued') = AddedBy(queued)
    BY <1>1, <2>2, <2>3, AppendAdded
  <2>5. TypeOK'
    BY <1>1, <2>1, <2>4 DEF Cancel, TypeOK, Queued
  <2>6. BatchInHandleRead' /\ InvalidTimeArmed' /\ TimerfdArmed'
    BY <2>1 DEF Cancel, TimerInv, BatchInHandleRead, InBatch, InvalidTimeArmed,
       TimerfdArmed, howMuchTimeFromNow
  <2> QED BY <1>1, <2>1, <2>4, <2>5, <2>6, TimersKept DEF Cancel
<1>6. CASE \E e \in toRun : RunTimer(e)
  <2>1. PICK e \in toRun : RunTimer(e)
    BY <1>6
  <2>2. e \in expired /\ e[2] \in Addrs /\ e[2] \in InBatch
    BY <1>1 DEF TypeOK, Entries, InBatch, Addresses
  <2>3. TypeOK'
    BY <1>1, <2>1, <2>2 DEF RunTimer, TypeOK
  <2>4. BatchInHandleRead' /\ InvalidTimeArmed' /\ TimerfdArmed'
    BY <2>1, <2>2 DEF RunTimer, TimerInv, BatchInHandleRead, InBatch, InvalidTimeArmed,
       TimerfdArmed, howMuchTimeFromNow
  <2> QED BY <1>1, <2>1, <2>3, <2>4, TimersKept DEF RunTimer
<1> QED BY <1>2, <1>3, <1>4, <1>5, <1>6

\* cancel on the loop thread, and the functor of a cancel from another thread.
LEMMA CancelStep ==
  ASSUME TimerInv, RunQueuedCancel \/ \E id \in ids : CancelInLoop(id)
  PROVE  TimerInv'
<1>1. TypeOK /\ queued \in Seq(Queued) /\ AddedOnce(queued)
  BY DEF TimerInv, TypeOK, Queued
<1>2. CASE RunQueuedCancel
  <2>1. queued # <<>> /\ Head(queued).op = "cancel" /\ queued' = Tail(queued)
    BY <1>2 DEF RunQueuedCancel
  <2>2. /\ queued' \in Seq(Queued) /\ AddedOnce(queued') /\ Head(queued) \in Queued
        /\ AddedBy(queued') = AddedBy(queued)
    BY <1>1, <2>1, TailAdded
  <2>3. Head(queued).id \in TimerIds
    BY <2>1, <2>2 DEF Queued
  <2> QED BY <1>2, <2>2, <2>3, CancelEffect DEF RunQueuedCancel
<1>3. CASE \E id \in ids : CancelInLoop(id)
  <2>1. PICK id \in ids : CancelInLoop(id)
    BY <1>3
  <2>2. id \in TimerIds /\ queued' = queued
    BY <1>1, <2>1 DEF TypeOK, CancelInLoop
  <2> QED BY <1>1, <2>1, <2>2, CancelEffect DEF CancelInLoop
<1> QED BY <1>2, <1>3

\* The functor of an addTimer from another thread: the timer passes from the queue
\* to the sets.
LEMMA RunQueuedAddStep ==
  ASSUME TimerInv, RunQueuedAdd
  PROVE  TimerInv'
<1> DEFINE a == Head(queued).addr
           t == heap[a]
<1>1. TypeOK /\ SetsAgree /\ Owners /\ queued \in Seq(Queued) /\ AddedOnce(queued)
  BY DEF TimerInv, TypeOK, Queued
<1>2. /\ queued # <<>> /\ Head(queued).op = "add" /\ queued' = Tail(queued)
      /\ addTimerInLoop(a, t)
      /\ UNCHANGED <<now, heap, s_numCreated_, cancelingTimers_, callingExpiredTimers_,
                     expired, toRun, current, handleNow, unread, ids, cancelled>>
  BY DEF RunQueuedAdd
<1>3. /\ queued' \in Seq(Queued) /\ AddedOnce(queued') /\ a \in AddedBy(queued)
      /\ AddedBy(queued') = AddedBy(queued) \ {a}
  BY <1>1, <1>2, TailAdded
<1>4. a \in Live /\ a \in Addrs /\ a \notin InSets /\ a \notin InBatch
  BY <1>1, <1>3 DEF Owners, Live
<1>5. t \in Timers /\ heap' \in [Addrs -> Timers \union {Free}] /\ heap'[a] = t
  BY <1>1, <1>2, <1>4 DEF Live, TypeOK
<1> HIDE DEF a, t
<1>6. /\ SetsAgree' /\ InSets' = InSets \union {a}
      /\ timers_' \subseteq Entries /\ activeTimers_' \subseteq TimerIds
      /\ left' \in Nat \union {Disarmed}
      /\ InvalidTimeArmed' /\ TimerfdArmed'
  BY <1>2, <1>4, <1>5, InsertEffect
<1>7. TypeOK'
  BY <1>1, <1>2, <1>3, <1>6 DEF TypeOK, Queued
<1>8. Live' = Live /\ InBatch' = InBatch /\ \A b : Active(b)' = Active(b)
  BY <1>2 DEF Live, InBatch, Active
<1>9. Owners'
  BY <1>1, <1>3, <1>4, <1>6, <1>8 DEF Owners
<1>10. BatchInHandleRead' /\ SequencesPast' /\ CancelledAreNoted'
  BY <1>2, <1>8 DEF TimerInv, BatchInHandleRead, SequencesPast, CancelledAreNoted
<1> QED BY <1>3, <1>6, <1>7, <1>9, <1>10 DEF TimerInv

\* handleRead begins: the timers that are due pass from the sets to the batch, and
\* none of them has been cancelled.
LEMMA HandleReadStep ==
  ASSUME TimerInv, HandleRead
  PROVE  TimerInv'
<1> DEFINE D == Addresses(Due)
           T == InSets \ D
<1>1. TypeOK /\ SetsAgree /\ Owners
  BY DEF TimerInv
<1>2. /\ expired' = Due /\ toRun' = Due
      /\ timers_' = timers_ \ Due
      /\ activeTimers_' = activeTimers_ \ {Active(a) : a \in D}
      /\ left' = Disarmed /\ handleNow' = now /\ callingExpiredTimers_' = TRUE
      /\ cancelingTimers_' = {}
      /\ UNCHANGED <<now, heap, s_numCreated_, current, queued, unread, ids, cancelled>>
  BY DEF HandleRead
<1>3. expired = {} /\ current = NoAddr /\ InBatch = {}
  BY DEF HandleRead, TimerInv, BatchInHandleRead, InBatch, Addresses
<1>4. now \in Nat /\ now >= 1 /\ now \in Times
  BY <1>1 DEF TypeOK, Times
<1>5. D = {a \in InSets : heap[a].expiration <= now}
  <2>1. timers_ = {<<heap[a].expiration, a>> : a \in InSets}
    BY <1>1, SetsByAddress
  <2>2. ASSUME NEW a \in D PROVE a \in InSets /\ heap[a].expiration <= now
    BY <2>1 DEF Due, Addresses
  <2>3. ASSUME NEW a \in InSets, heap[a].expiration <= now PROVE a \in D
    <3>1. <<heap[a].expiration, a>> \in Due
      BY <2>1, <2>3 DEF Due
    <3> QED BY <3>1 DEF Addresses
  <2> QED BY <2>2, <2>3
<1>6. AgreeOn(heap', T, timers_', activeTimers_')
  <2>1. timers_' = {<<heap[a].expiration, a>> : a \in T}
    <3>1. timers_ = {<<heap[a].expiration, a>> : a \in InSets}
      BY <1>1, SetsByAddress
    <3> QED BY <1>2, <1>5, <3>1 DEF Due
  <2>2. activeTimers_' = {<<a, heap[a].sequence>> : a \in T}
    <3>1. activeTimers_ = {Active(a) : a \in InSets}
      BY <1>1, SetsByAddress
    <3> QED BY <1>2, <1>5, <3>1 DEF Active
  <2>3. BuiltFrom(heap', T, timers_', activeTimers_')
    BY <1>2, <2>1, <2>2 DEF BuiltFrom
  <2> QED BY <2>3, SetsBuilt
<1>7. InSets' = InSets \ D /\ InBatch' = D /\ Live' = Live /\ AddedBy(queued') = AddedBy(queued)
  BY <1>2, <1>6 DEF AgreeOn, InSets, InBatch, Live
<1>8. TypeOK'
  <2>1. Due \subseteq Entries
    BY <1>1 DEF Due, TypeOK
  <2>2. callingExpiredTimers_' \in BOOLEAN
    BY <1>2
  <2> QED BY <1>1, <1>2, <1>4, <2>1, <2>2 DEF TypeOK
<1>9. SetsAgree'
  <2>1. T \subseteq Live'
    BY <1>1, <1>7, SetsByAddress
  <2> QED BY <1>6, <2>1 DEF SetsAgree, AgreeOn
<1>10. Owners' /\ AddedOnce(queued')
  BY <1>1, <1>2, <1>3, <1>5, <1>7 DEF Owners, TimerInv
<1>11. BatchInHandleRead'
  BY <1>2, <1>3 DEF BatchInHandleRead
<1>12. SequencesPast' /\ CancelledAreNoted'
  <2>1. \A a \in Live : Active(a) \notin cancelled
    BY <1>3 DEF TimerInv, CancelledAreNoted
  <2>2. \A a : Active(a)' = Active(a)
    BY <1>2 DEF Active
  <2> QED BY <1>2, <1>7, <2>1, <2>2 DEF TimerInv, SequencesPast, CancelledAreNoted
<1>13. InvalidTimeArmed' /\ TimerfdArmed'
  BY <1>2, <1>4 DEF InvalidTimeArmed, TimerfdArmed, Due
<1> QED BY <1>8, <1>9, <1>10, <1>11, <1>12, <1>13 DEF TimerInv

\* reset(): the timers of the batch go back to the sets or are deleted, the
\* cancelled ones are deleted, and the timerfd is set for the earliest entry.
LEMMA ResetStep ==
  ASSUME TimerInv, Reset
  PROVE  TimerInv'
<1> DEFINE T == InSets \union Again
<1>1. TypeOK /\ SetsAgree /\ Owners
  BY DEF TimerInv
<1>2. /\ current = NoAddr /\ toRun = {}
      /\ callingExpiredTimers_' = FALSE
      /\ heap' = [a \in Addrs |-> AfterBatch(a)]
      /\ timers_' = timers_ \union {<<Restarted(heap[a]).expiration, a>> : a \in Again}
      /\ activeTimers_' = activeTimers_ \union {Active(a) : a \in Again}
      /\ left' = Rearmed(timers_')
      /\ expired' = {} /\ handleNow' = 0
      /\ UNCHANGED <<now, s_numCreated_, cancelingTimers_, toRun, current, queued, unread,
                     ids, cancelled>>
  BY DEF Reset
<1>3. Again \subseteq InBatch /\ InBatch \subseteq Live /\ Live \subseteq Addrs
  BY <1>1 DEF Again, InBatch, Owners, Live
<1>4. \A a \in Live : heap[a] \in Timers
  BY <1>1 DEF Live, TypeOK
<1>5. handleNow \in Nat /\ now \in Nat
  BY <1>1 DEF TypeOK, Times
<1>6. \A a \in Again : /\ Restarted(heap[a]) \in Timers
                       /\ Restarted(heap[a]).sequence = heap[a].sequence
                       /\ Restarted(heap[a]).expiration \in Nat
                       /\ Restarted(heap[a]).expiration > 0
  <2> SUFFICES ASSUME NEW a \in Again
               PROVE  /\ Restarted(heap[a]) \in Timers
                      /\ Restarted(heap[a]).sequence = heap[a].sequence
                      /\ Restarted(heap[a]).expiration \in Nat
                      /\ Restarted(heap[a]).expiration > 0
    OBVIOUS
  <2>1. heap[a] \in Timers /\ heap[a].interval > 0 /\ heap[a].interval \in Nat
    BY <1>3, <1>4, TimeAssumption DEF Again, repeat, Timers
  <2> QED BY <1>5, <2>1 DEF Restarted, Timers
<1>7. /\ \A a \in Again : heap'[a] = Restarted(heap[a])
      /\ \A a \in InBatch \ Again : heap'[a] = Free
      /\ \A a \in Addrs \ InBatch : heap'[a] = heap[a]
  BY <1>2, <1>3 DEF AfterBatch, InBatch
<1>8. heap' \in [Addrs -> Timers \union {Free}]
  <2>1. \A a \in Addrs : heap'[a] \in Timers \union {Free}
    BY <1>1, <1>6, <1>7 DEF TypeOK
  <2> QED BY <1>2, <2>1
<1>9. Live' = (Live \ InBatch) \union Again
  BY <1>3, <1>6, <1>7, TimersNotFree DEF Live
<1>10. AgreeOn(heap', T, timers_', activeTimers_')
  <2>1. \A a \in InSets : a \in Addrs \ InBatch
    BY <1>1, SetsByAddress DEF Owners
  <2>2. timers_' = {<<heap'[a].expiration, a>> : a \in T}
    <3>1. timers_ = {<<heap[a].expiration, a>> : a \in InSets}
      BY <1>1, SetsByAddress
    <3> QED BY <1>2, <1>7, <2>1, <3>1
  <2>3. activeTimers_' = {<<a, heap'[a].sequence>> : a \in T}
    <3>1. activeTimers_ = {Active(a) : a \in InSets}
      BY <1>1, SetsByAddress
    <3> QED BY <1>2, <1>6, <1>7, <2>1, <3>1 DEF Active
  <2>4. BuiltFrom(heap', T, timers_', activeTimers_')
    BY <2>2, <2>3 DEF BuiltFrom
  <2> QED BY <2>4, SetsBuilt
<1>11. InSets' = InSets \union Again /\ InBatch' = {}
  BY <1>2, <1>10 DEF AgreeOn, InSets, InBatch, Addresses
<1>12. SetsAgree'
  <2>1. T \subseteq Live'
    BY <1>1, <1>9, SetsByAddress DEF Owners
  <2> QED BY <1>10, <2>1 DEF SetsAgree, AgreeOn
<1>13. timers_' \subseteq Entries /\ activeTimers_' \subseteq TimerIds
  <2>1. \A a \in Again : Active(a) \in TimerIds
    BY <1>3, <1>4 DEF Active, TimerIds, Timers
  <2> QED BY <1>1, <1>2, <1>3, <1>6, <2>1 DEF TypeOK, Entries
<1>14. /\ left' \in Nat \union {Disarmed}
       /\ \A e \in timers_' : left' \in 0..howMuchTimeFromNow(e[1])
       /\ \A e \in timers_' : e[1] = 0 => left' \in 0..1
  <2>1. \A e \in timers_' : e[1] = 0 => left \in 0..1
    <3>1. \A e \in timers_' : e[1] = 0 => e \in timers_
      BY <1>2, <1>6
    <3> QED BY <3>1 DEF TimerInv, InvalidTimeArmed
  <2>2. left \in Nat \union {Disarmed}
    BY <1>1 DEF TypeOK
  <2> QED BY <1>2, <1>5, <1>13, <2>1, <2>2, RearmedEarly
<1>15. InvalidTimeArmed' /\ TimerfdArmed'
  BY <1>2, <1>14 DEF InvalidTimeArmed, TimerfdArmed, howMuchTimeFromNow
<1>16. TypeOK'
  <2>1. callingExpiredTimers_' \in BOOLEAN
    BY <1>2
  <2>2. handleNow' \in Times
    BY <1>2, TimeAssumption DEF Times
  <2> QED BY <1>1, <1>2, <1>8, <1>13, <1>14, <2>1, <2>2 DEF TypeOK
<1>17. Owners' /\ AddedOnce(queued')
  BY <1>1, <1>2, <1>3, <1>9, <1>11 DEF Owners, TimerInv
<1>18. BatchInHandleRead'
  BY <1>2 DEF BatchInHandleRead
<1>19. \A a \in Live' : a \in Live /\ heap'[a].sequence = heap[a].sequence
  BY <1>3, <1>6, <1>7, <1>9
<1>20. SequencesPast'
  BY <1>2, <1>19 DEF TimerInv, SequencesPast
<1>21. CancelledAreNoted'
  <2> SUFFICES ASSUME NEW a \in Live' PROVE Active(a)' \notin cancelled'
    BY DEF CancelledAreNoted
  <2>1. Active(a)' = Active(a) /\ cancelled' = cancelled
    BY <1>2, <1>19 DEF Active
  <2>2. CASE a \in Again
    BY <1>19, <2>1, <2>2 DEF TimerInv, CancelledAreNoted, Again
  <2>3. CASE a \notin Again
    BY <1>9, <1>19, <2>1, <2>3 DEF TimerInv, CancelledAreNoted
  <2> QED BY <2>2, <2>3
<1> QED BY <1>12, <1>15, <1>16, <1>17, <1>18, <1>20, <1>21 DEF TimerInv

-----------------------------------------------------------------------------
(* The theorems.                                                           *)

\* The inductive invariant holds in every reachable state.
THEOREM TimerQueueInvariant == Spec => []TimerInv
<1>1. TimerInv /\ [Next]_vars => TimerInv'
  <2> SUFFICES ASSUME TimerInv, [Next]_vars PROVE TimerInv'
    OBVIOUS
  <2>1. CASE LoopStep
    BY <2>1, RunQueuedAddStep, CancelStep, HandleReadStep, ResetStep, QuietStep DEF LoopStep
  <2>2. CASE Tick \/ ReadSequence
    BY <2>2, QuietStep
  <2>3. CASE \E a \in Addrs, when \in Whens, i \in Intervals :
               AddTimerInLoop(a, when, i) \/ AddTimer(a, when, i)
    BY <2>3, AddTimerInLoopStep, AddTimerStep
  <2>4. CASE \E id \in ids : CancelInLoop(id) \/ Cancel(id)
    BY <2>4, CancelStep, QuietStep
  <2>5. CASE UNCHANGED vars
    <3>1. TypeOK' /\ AddedOnce(queued') /\ AddedBy(queued') = AddedBy(queued)
      BY <2>5 DEF vars, TimerInv, TypeOK
    <3>2. BatchInHandleRead' /\ InvalidTimeArmed' /\ TimerfdArmed'
      BY <2>5 DEF vars, TimerInv, BatchInHandleRead, InBatch, InvalidTimeArmed,
         TimerfdArmed, howMuchTimeFromNow
    <3> QED BY <2>5, <3>1, <3>2, TimersKept DEF vars
  <2> QED BY <2>1, <2>2, <2>3, <2>4, <2>5 DEF Next
<1> QED BY <1>1, InitInv, PTL DEF Spec

\* timers_ and activeTimers_ always describe the same live timers: no assert on
\* their sizes, and none on erase or insert, fails.
THEOREM SetsAlwaysAgree == Spec => []SetsAgree
<1>1. TimerInv => SetsAgree
  BY DEF TimerInv
<1> QED BY <1>1, TimerQueueInvariant, PTL

\* Every Timer object is owned by exactly one of the queue, the sets and the batch:
\* none leaks, is deleted twice or is used after it was deleted.
THEOREM TimersOwned == Spec => []OneOwner
<1>1. TimerInv => OneOwner
  BY DEF TimerInv, Owners, OneOwner, AddedBy, InSets, InBatch
<1> QED BY <1>1, TimerQueueInvariant, PTL

\* Outside handleRead the timerfd is set for no later than the earliest timer, also
\* when that was asked for with the invalid time.
THEOREM TimerfdNeverLate == Spec => []TimerfdArmed
<1>1. TimerInv => TimerfdArmed
  BY DEF TimerInv
<1> QED BY <1>1, TimerQueueInvariant, PTL

\* A cancelled timer is never back in the sets, and runs at most in the batch that
\* was running when it was cancelled.
THEOREM CancelledStayOut == Spec => []CancelIsFinal
<1>1. TimerInv => CancelIsFinal
  <2> SUFFICES ASSUME TimerInv PROVE CancelIsFinal
    OBVIOUS
  <2>1. TypeOK /\ SetsAgree /\ Owners
    BY DEF TimerInv
  <2>2. ASSUME NEW id \in activeTimers_ PROVE id \notin cancelled
    <3>1. PICK a \in InSets : id = Active(a)
      BY <2>1, SetsByAddress
    <3>2. a \in Live /\ a \notin InBatch
      BY <2>1, SetsByAddress DEF Owners
    <3> QED BY <3>1, <3>2 DEF TimerInv, CancelledAreNoted
  <2>3. ASSUME current # NoAddr, Active(current) \in cancelled
        PROVE  Active(current) \in cancelingTimers_
    <3>1. current \in Live
      BY <2>1, <2>3 DEF TimerInv, BatchInHandleRead, Owners
    <3> QED BY <2>3, <3>1 DEF TimerInv, CancelledAreNoted
  <2> QED BY <2>2, <2>3 DEF CancelIsFinal
<1> QED BY <1>1, TimerQueueInvariant, PTL
=============================================================================
