------------------------- MODULE AsyncLoggingProofs -------------------------
(***************************************************************************)
(* The asserts of AsyncLogging::threadFunc hold, no full buffer is slept   *)
(* on, and every line is accounted for, for every buffer capacity, every   *)
(* set of line lengths and every backlog limit of at least two.  The       *)
(* logger with its files (LogFile) is an implementation of AsyncLogging,   *)
(* so all of this holds for it too.                                        *)
(***************************************************************************)
EXTENDS LogFile, SequenceTheorems, WellFoundedInduction, TLAPS

USE LoggingAssumption DEF LoggingAssumption

\* The part of the types the argument needs.
BufferTypes ==
  /\ count \in 0..MaxLines
  /\ currentBuffer_ \in Buffer
  /\ nextBuffer_ \in {Empty, Null}
  /\ buffers_ \in Seq(Buffer)
  /\ newBuffer1 \in {Empty, Null} /\ newBuffer2 \in {Empty, Null}
  /\ buffersToWrite \in Seq(Buffer)

\* The spare given up by append is matched by a full buffer in buffers_: this is
\* why a refill of both spares finds two written buffers.
SparesInv ==
  /\ opc = "new" => tpc = "unborn"
  /\ nextBuffer_ = Null => buffers_ # <<>>
  /\ tpc \in {"unborn", "begin"} => buffersToWrite = <<>>
  /\ tpc \in {"while", "lock", "wait"} =>
       newBuffer1 = Empty /\ newBuffer2 = Empty /\ buffersToWrite = <<>>
  /\ tpc \in {"write", "recycle"} =>
       /\ buffersToWrite # <<>>
       /\ newBuffer2 = Null => Len(buffersToWrite) >= 2

\* An empty unique_ptr is no buffer, and a fresh buffer is one.
LEMMA NullIsNoBuffer == Null \notin Buffer /\ Empty \in Buffer /\ Empty # Null
<1>1. Null.length = -1 /\ Empty.length = 0
  BY DEF Null, Empty
<1>2. Empty \in Buffer
  BY DEF Empty, Buffer
<1>3. \A b \in Buffer : b.length >= 0
  BY DEF Buffer
<1> QED BY <1>1, <1>2, <1>3

\* Putting a line in a buffer gives a buffer.
LEMMA PutIsBuffer ==
  ASSUME NEW b \in Buffer, NEW line \in Lines, NEW len \in Lens
  PROVE  Put(b, line, len) \in Buffer
<1>1. CASE avail(b) > len
  <2>1. b.length + len \in 0..Capacity
    BY <1>1 DEF avail, Buffer
  <2>2. Append(b.lines, line) \in Seq(Lines)
    BY DEF Buffer
  <2> QED BY <1>1, <2>1, <2>2 DEF Put, Buffer
<1>2. CASE ~(avail(b) > len)
  BY <1>2 DEF Put
<1> QED BY <1>1, <1>2

\* The swap keeps the types and leaves something to write, twice if both spares
\* went.
LEMMA TakeBuffersStep ==
  ASSUME BufferTypes, SparesInv, tpc \in {"lock", "wait"}, TakeBuffers
  PROVE  BufferTypes' /\ SparesInv'
<1>1. newBuffer1 = Empty /\ newBuffer2 = Empty /\ buffersToWrite = <<>>
  BY DEF SparesInv
<1>2. count' = count
  BY DEF TakeBuffers, history
<1>3. BufferTypes'
  BY <1>1, <1>2, NullIsNoBuffer DEF BufferTypes, TakeBuffers, Swapped
<1>4. nextBuffer_' # Null
  BY <1>1, NullIsNoBuffer DEF TakeBuffers
<1>5. Len(buffersToWrite') = Len(buffers_) + 1 /\ buffersToWrite' # <<>>
  BY DEF TakeBuffers, BufferTypes
<1>6. newBuffer2' = Null => Len(buffersToWrite') >= 2
  <2>1. SUFFICES ASSUME newBuffer2' = Null PROVE Len(buffersToWrite') >= 2
    OBVIOUS
  <2>2. buffers_ # <<>>
    BY <1>1, <2>1, NullIsNoBuffer DEF TakeBuffers, SparesInv
  <2>3. Len(buffers_) >= 1
    BY <2>2 DEF BufferTypes
  <2> QED BY <1>5, <2>3 DEF BufferTypes
<1> QED BY <1>3, <1>4, <1>5, <1>6 DEF TakeBuffers, SparesInv

\* Cutting and writing keep as many buffers as there are spares to refill.
LEMMA WriteBuffersStep ==
  ASSUME BufferTypes, SparesInv, WriteBuffers
  PROVE  BufferTypes' /\ SparesInv'
<1> DEFINE kept == IF Len(buffersToWrite) > MaxToWrite THEN SubSeq(buffersToWrite, 1, 2)
                   ELSE buffersToWrite
           keep == Keep(Len(kept))
<1>1. /\ buffersToWrite' = SubSeq(kept, 1, keep)
      /\ UNCHANGED <<opc, count, newBuffer1, newBuffer2, currentBuffer_, nextBuffer_, buffers_>>
      /\ tpc = "write" /\ tpc' = "recycle"
  BY DEF WriteBuffers, shared
<1>2. buffersToWrite \in Seq(Buffer) /\ Len(buffersToWrite) \in Nat
  BY DEF BufferTypes
<1>3. /\ kept \in Seq(Buffer) /\ Len(kept) \in Nat
      /\ Len(buffersToWrite) >= 1 => Len(kept) >= 1
      /\ Len(buffersToWrite) >= 2 => Len(kept) >= 2
  <2>1. CASE Len(buffersToWrite) > MaxToWrite
    <3>1. SubSeq(buffersToWrite, 1, 2) \in Seq(Buffer) /\ Len(SubSeq(buffersToWrite, 1, 2)) = 2
      BY <1>2, <2>1
    <3> QED BY <2>1, <3>1
  <2>2. CASE ~(Len(buffersToWrite) > MaxToWrite)
    BY <1>2, <2>2
  <2> QED BY <2>1, <2>2
<1> HIDE DEF kept
<1>4. keep \in 0..Len(kept) /\ (Len(kept) >= 1 => keep >= 1) /\ (Len(kept) >= 2 => keep = 2)
  <2>1. \A n \in Nat : /\ Keep(n) \in 0..n
                       /\ n >= 1 => Keep(n) >= 1
                       /\ n >= 2 => Keep(n) = 2
    BY DEF Keep
  <2>2. Len(kept) \in Nat
    BY <1>3
  <2> QED BY <2>1, <2>2
<1> HIDE DEF keep
<1>5. SubSeq(kept, 1, keep) \in Seq(Buffer) /\ Len(SubSeq(kept, 1, keep)) = keep
  BY <1>3, <1>4
<1>6. BufferTypes'
  BY <1>1, <1>5 DEF BufferTypes
<1>7. Len(buffersToWrite) >= 1
  BY <1>1, <1>2 DEF SparesInv
<1>8. buffersToWrite' # <<>>
  BY <1>1, <1>3, <1>4, <1>5, <1>7
<1>9. newBuffer2 = Null => Len(buffersToWrite') >= 2
  BY <1>1, <1>3, <1>4, <1>5 DEF SparesInv
<1> QED BY <1>1, <1>6, <1>8, <1>9 DEF SparesInv

\* An append that needs a fresh buffer leaves the full one in buffers_.
LEMMA AppendInFreshStep ==
  ASSUME BufferTypes, SparesInv, NEW len \in Lens, AppendInFresh(len)
  PROVE  BufferTypes' /\ SparesInv'
<1> DEFINE fresh == IF nextBuffer_ # Null THEN nextBuffer_ ELSE Empty
<1>1. fresh \in Buffer
  BY NullIsNoBuffer DEF BufferTypes
<1>2. count + 1 \in Lines /\ count' = count + 1
  BY DEF AppendInFresh, BufferTypes, Lines
<1>3. Put(fresh, count + 1, len) \in Buffer
  BY <1>1, <1>2, PutIsBuffer
<1>4. currentBuffer_' = Put(fresh, count + 1, len)
  BY DEF AppendInFresh
<1>5. buffers_' \in Seq(Buffer) /\ buffers_' # <<>>
  BY DEF AppendInFresh, BufferTypes
<1>6. UNCHANGED <<opc, tpc, newBuffer1, newBuffer2, buffersToWrite>> /\ nextBuffer_' = Null
  BY DEF AppendInFresh, locals
<1> QED BY <1>2, <1>3, <1>4, <1>5, <1>6 DEF BufferTypes, SparesInv, Lines

\* One step of the induction.
LEMMA SparesStep ==
  ASSUME BufferTypes, SparesInv, [Next]_vars
  PROVE  BufferTypes' /\ SparesInv'
<1>1. ASSUME NEW len \in Lens, AppendInCurrent(len) PROVE BufferTypes' /\ SparesInv'
  <2>1. count + 1 \in Lines /\ count' = count + 1
    BY <1>1 DEF AppendInCurrent, BufferTypes, Lines
  <2>2. currentBuffer_' \in Buffer
    BY <1>1, <2>1, PutIsBuffer DEF AppendInCurrent, BufferTypes
  <2> QED BY <1>1, <2>1, <2>2 DEF AppendInCurrent, BufferTypes, SparesInv, Lines, locals
<1>2. ASSUME NEW len \in Lens, AppendInFresh(len) PROVE BufferTypes' /\ SparesInv'
  BY <1>2, AppendInFreshStep
<1>3. CASE Start
  BY <1>3 DEF Start, BufferTypes, SparesInv, shared, locals, history
<1>4. CASE LatchOpens \/ Stop \/ Join
  BY <1>4 DEF LatchOpens, Stop, Join, BufferTypes, SparesInv, shared, locals, history
<1>5. CASE ThreadBegins
  BY <1>5 DEF ThreadBegins, BufferTypes, SparesInv, shared, history
<1>6. CASE WhileRunning \/ WaitForBuffers
  BY <1>6 DEF WhileRunning, WaitForBuffers, BufferTypes, SparesInv, shared, locals, history
<1>7. CASE TakeAtOnce \/ TakeNotified \/ TakeTimedOut
  BY <1>7, TakeBuffersStep DEF TakeAtOnce, TakeNotified, TakeTimedOut
<1>8. CASE WriteBuffers
  BY <1>8, WriteBuffersStep
<1>9. CASE Recycle
  <2>1. BufferTypes'
    BY <1>9 DEF Recycle, BufferTypes, shared, history
  <2> QED BY <1>9, <2>1 DEF Recycle, SparesInv, shared
<1>10. CASE UNCHANGED vars
  BY <1>10 DEF vars, BufferTypes, SparesInv, shared, locals, history
<1> QED BY <1>1, <1>2, <1>3, <1>4, <1>5, <1>6, <1>7, <1>8, <1>9, <1>10 DEF Next, LoggingStep

\* The logging thread never asserts and never moves from an empty vector when it
\* refills its spares (AsyncLogging.cc:55-57,72,92,99).
THEOREM SparesAlwaysSuffice == Spec => []SparesSuffice
<1>1. Init => BufferTypes /\ SparesInv
  BY NullIsNoBuffer DEF Init, BufferTypes, SparesInv
<1>2. BufferTypes /\ SparesInv /\ [Next]_vars => (BufferTypes /\ SparesInv)'
  BY SparesStep
<1>3. BufferTypes /\ SparesInv => SparesSuffice
  <2> SUFFICES ASSUME BufferTypes, SparesInv PROVE SparesSuffice
    OBVIOUS
  <2>1. tpc = "recycle" => Missing <= Len(buffersToWrite)
    <3> SUFFICES ASSUME tpc = "recycle" PROVE Missing <= Len(buffersToWrite)
      OBVIOUS
    <3>1. Len(buffersToWrite) >= 1 /\ Len(buffersToWrite) \in Nat
      BY DEF BufferTypes, SparesInv
    <3>2. newBuffer2 = Null => Len(buffersToWrite) >= 2
      BY DEF SparesInv
    <3> QED BY <3>1, <3>2 DEF Missing
  <2> QED BY <2>1 DEF SparesInv, SparesSuffice
<1> QED BY <1>1, <1>2, <1>3, PTL DEF Spec

\* The logging thread checks buffers_ and goes to sleep in one critical section,
\* and every later append of a full buffer notifies it: cond_ loses no full buffer
\* (AsyncLogging.cc:32-40,60-62), whoever appends and however often.
THEOREM FullBufferNeverSleptOn == Spec => []FullBufferNotified
<1>1. Init => FullBufferNotified
  BY DEF Init, FullBufferNotified
<1>2. FullBufferNotified /\ [Next]_vars => FullBufferNotified'
  <2> SUFFICES ASSUME FullBufferNotified, [Next]_vars PROVE FullBufferNotified'
    OBVIOUS
  <2>1. ASSUME NEW len \in Lens, AppendInCurrent(len) PROVE FullBufferNotified'
    BY <2>1 DEF AppendInCurrent, FullBufferNotified
  <2>2. ASSUME NEW len \in Lens, AppendInFresh(len) PROVE FullBufferNotified'
    BY <2>2 DEF AppendInFresh, Announced, FullBufferNotified
  <2>3. CASE Start
    BY <2>3 DEF Start, FullBufferNotified
  <2>4. CASE Stop
    BY <2>4 DEF Stop, Announced, FullBufferNotified, shared
  <2>5. CASE LatchOpens \/ Join
    BY <2>5 DEF LatchOpens, Join, FullBufferNotified, shared
  <2>6. CASE ThreadBegins \/ WhileRunning
    BY <2>6 DEF ThreadBegins, WhileRunning, FullBufferNotified
  <2>7. CASE WaitForBuffers
    BY <2>7 DEF WaitForBuffers, FullBufferNotified, shared
  <2>8. CASE TakeAtOnce \/ TakeNotified \/ TakeTimedOut
    BY <2>8 DEF TakeAtOnce, TakeNotified, TakeTimedOut, TakeBuffers, FullBufferNotified
  <2>9. CASE WriteBuffers \/ Recycle
    BY <2>9 DEF WriteBuffers, Recycle, FullBufferNotified
  <2>10. CASE UNCHANGED vars
    BY <2>10 DEF vars, shared, FullBufferNotified
  <2> QED BY <2>1, <2>2, <2>3, <2>4, <2>5, <2>6, <2>7, <2>8, <2>9, <2>10 DEF Next, LoggingStep
<1> QED BY <1>1, <1>2, PTL DEF Spec

-----------------------------------------------------------------------------
(* What the buffers hold.                                                  *)

\* Induction over the numbers, for a set: the least number outside of it.
LEMMA SetInduction ==
  ASSUME NEW S, 0 \in S, \A n \in Nat : n \in S => n + 1 \in S
  PROVE  Nat \subseteq S
<1> DEFINE R == OpToRel(<, Nat)
           T == Nat \ S
<1>1. IsWellFoundedOn(R, Nat)
  BY NatLessThanWellFounded
<1>2. \A x, y \in Nat : x < y => <<x, y>> \in R
  BY DEF OpToRel
<1> HIDE DEF R
<1> SUFFICES ASSUME T # {} PROVE FALSE
  OBVIOUS
<1>3. PICK x \in T : \A y \in T : ~ (<<y, x>> \in R)
  BY <1>1, WFMin
<1>4. x \in Nat /\ x # 0 /\ x - 1 \in Nat /\ x - 1 < x /\ (x - 1) + 1 = x
  BY <1>3
<1>5. x - 1 \in T
  BY <1>3, <1>4
<1> QED BY <1>2, <1>3, <1>4, <1>5

\* f is the table of partial results by which FlattenSeq joins the first n of s.
JoinTable(f, s, n) == f = [i \in 1..n |-> IF i = 1 THEN s[i] ELSE f[i - 1] \o s[i]]

\* There is such a table.
LEMMA JoinedExists ==
  ASSUME NEW s, NEW n \in Nat
  PROVE  \E f : JoinTable(f, s, n)
<1> DEFINE S == {m \in Nat : \E f : JoinTable(f, s, m)}
<1>1. 0 \in S
  <2>1. JoinTable([i \in 1..0 |-> s[i]], s, 0)
    BY DEF JoinTable
  <2> QED BY <2>1
<1>2. ASSUME NEW m \in Nat, m \in S PROVE m + 1 \in S
  <2>1. PICK f : JoinTable(f, s, m)
    BY <1>2
  <2> DEFINE g == [i \in 1..(m + 1) |-> IF i = 1 THEN s[i] ELSE f[i - 1] \o s[i]]
  <2>2. \A i \in 1..m : g[i] = f[i]
    <3>1. \A i \in 1..m : f[i] = IF i = 1 THEN s[i] ELSE f[i - 1] \o s[i]
      BY <2>1 DEF JoinTable
    <3> QED BY <3>1
  <2>3. \A i \in 1..(m + 1) : i # 1 => i - 1 \in 1..m
    OBVIOUS
  <2>4. g = [i \in 1..(m + 1) |-> IF i = 1 THEN s[i] ELSE g[i - 1] \o s[i]]
    BY <2>2, <2>3
  <2>5. JoinTable(g, s, m + 1)
    BY <2>4 DEF JoinTable
  <2> QED BY <2>5
<1> HIDE DEF S
<1>3. Nat \subseteq S
  BY <1>1, <1>2, SetInduction
<1> QED BY <1>3 DEF S

\* The first n entries of two sequences are the same.
Agree(s, t, n) == \A i \in 1..n : s[i] = t[i]

\* Two such tables agree as long as the sequences do.
LEMMA JoinedAgree ==
  ASSUME NEW s, NEW t, NEW f, NEW g, NEW n \in Nat, NEW m \in Nat, n <= m,
         JoinTable(f, s, n), JoinTable(g, t, m), Agree(s, t, n)
  PROVE  Agree(f, g, n)
<1> DEFINE S == {i \in Nat : i \in 1..n => f[i] = g[i]}
<1>1. 0 \in S
  OBVIOUS
<1>2. ASSUME NEW i \in Nat, i \in S PROVE i + 1 \in S
  <2> SUFFICES ASSUME i + 1 \in 1..n PROVE f[i + 1] = g[i + 1]
    OBVIOUS
  <2>1. /\ f[i + 1] = IF i + 1 = 1 THEN s[i + 1] ELSE f[(i + 1) - 1] \o s[i + 1]
        /\ g[i + 1] = IF i + 1 = 1 THEN t[i + 1] ELSE g[(i + 1) - 1] \o t[i + 1]
    <3>1. i + 1 \in 1..n /\ i + 1 \in 1..m
      OBVIOUS
    <3> QED BY <3>1 DEF JoinTable
  <2>2. s[i + 1] = t[i + 1] /\ (i + 1) - 1 = i
    BY DEF Agree
  <2>3. i + 1 # 1 => f[i] = g[i]
    BY <1>2
  <2> QED BY <2>1, <2>2, <2>3
<1> HIDE DEF S
<1>3. Nat \subseteq S
  BY <1>1, <1>2, SetInduction
<1> QED BY <1>3 DEF S, Agree

\* FlattenSeq is the last entry of the table.
LEMMA FlattenJoined ==
  ASSUME NEW s \in Seq(Seq(Lines)), s # <<>>, NEW f, JoinTable(f, s, Len(s))
  PROVE  FlattenSeq(s) = f[Len(s)]
<1>1. PICK n \in Nat : n = Len(s) /\ n # 0
  OBVIOUS
<1>2. PICK h : JoinTable(h, s, n) /\ FlattenSeq(s) = h[n]
  <2> DEFINE h == CHOOSE g : g = [i \in 1..Len(s) |-> IF i = 1 THEN s[i] ELSE g[i - 1] \o s[i]]
  <2>1. FlattenSeq(s) = h[Len(s)]
    BY <1>1 DEF FlattenSeq
  <2>2. \E g : g = [i \in 1..Len(s) |-> IF i = 1 THEN s[i] ELSE g[i - 1] \o s[i]]
    BY DEF JoinTable
  <2>3. h = [i \in 1..Len(s) |-> IF i = 1 THEN s[i] ELSE h[i - 1] \o s[i]]
    BY <2>2
  <2> HIDE DEF h
  <2>4. JoinTable(h, s, Len(s))
    BY <2>3 DEF JoinTable
  <2> QED BY <1>1, <2>1, <2>4
<1>3. JoinTable(f, s, n) /\ n <= n /\ Agree(s, s, n)
  BY <1>1 DEF Agree
<1>4. Agree(h, f, n)
  BY <1>2, <1>3, JoinedAgree
<1> QED BY <1>1, <1>2, <1>4 DEF Agree

\* A later entry of the table continues an earlier one.
Continued(f, n) == \A k \in 1..n : \A i \in k..n : \E u \in Seq(Lines) : f[i] = f[k] \o u

\* Every entry is a sequence of lines, and each continues the ones before.
LEMMA JoinedLines ==
  ASSUME NEW s \in Seq(Seq(Lines)), NEW f, JoinTable(f, s, Len(s))
  PROVE  /\ \A i \in 1..Len(s) : f[i] \in Seq(Lines)
         /\ Continued(f, Len(s))
<1> DEFINE n == Len(s)
<1>1. n \in Nat /\ \A i \in 1..n : s[i] \in Seq(Lines)
  OBVIOUS
<1>2. \A i \in 1..n : f[i] = IF i = 1 THEN s[i] ELSE f[i - 1] \o s[i]
  BY DEF JoinTable
<1> HIDE DEF n
<1>3. \A i \in 1..n : f[i] \in Seq(Lines)
  <2> DEFINE S == {i \in Nat : i \in 1..n => f[i] \in Seq(Lines)}
  <2>1. 0 \in S
    OBVIOUS
  <2>2. ASSUME NEW i \in Nat, i \in S PROVE i + 1 \in S
    <3> SUFFICES ASSUME i + 1 \in 1..n PROVE f[i + 1] \in Seq(Lines)
      OBVIOUS
    <3>1. s[i + 1] \in Seq(Lines) /\ (i + 1) - 1 = i
      BY <1>1
    <3>2. CASE i = 0
      BY <1>2, <3>1, <3>2
    <3>3. CASE i # 0
      <4>1. f[i] \in Seq(Lines)
        BY <1>1, <2>2, <3>3
      <4>2. f[i + 1] = IF i + 1 = 1 THEN s[i + 1] ELSE f[(i + 1) - 1] \o s[i + 1]
        BY <1>2
      <4>3. f[i + 1] = f[i] \o s[i + 1]
        <5>1. i + 1 # 1
          BY <3>3
        <5> QED BY <3>1, <4>2, <5>1, Zenon
      <4> QED BY <3>1, <4>1, <4>3
    <3> QED BY <3>2, <3>3
  <2> HIDE DEF S
  <2>3. Nat \subseteq S
    BY <2>1, <2>2, SetInduction
  <2> QED BY <2>3 DEF S
<1>4. ASSUME NEW k \in 1..n PROVE \A i \in k..n : \E u \in Seq(Lines) : f[i] = f[k] \o u
  <2> DEFINE S == {i \in Nat : i \in k..n => \E u \in Seq(Lines) : f[i] = f[k] \o u}
  <2>1. 0 \in S
    BY <1>1
  <2>2. ASSUME NEW i \in Nat, i \in S PROVE i + 1 \in S
    <3> SUFFICES ASSUME i + 1 \in k..n PROVE \E u \in Seq(Lines) : f[i + 1] = f[k] \o u
      OBVIOUS
    <3>1. f[k] \in Seq(Lines) /\ s[i + 1] \in Seq(Lines) /\ i + 1 \in 1..n /\ (i + 1) - 1 = i
      BY <1>1, <1>3
    <3>2. CASE i + 1 = k
      <4>1. f[k] \o <<>> = f[k] /\ <<>> \in Seq(Lines)
        BY <3>1
      <4> QED BY <3>2, <4>1
    <3>3. CASE i + 1 # k
      <4>1. i \in k..n /\ i + 1 # 1
        BY <1>1, <3>3
      <4>2. PICK u \in Seq(Lines) : f[i] = f[k] \o u
        BY <2>2, <4>1
      <4>3. f[i + 1] = f[i] \o s[i + 1]
        BY <1>2, <3>1, <4>1
      <4> DEFINE a == f[k]
                 b == s[i + 1]
      <4>4. a \in Seq(Lines) /\ b \in Seq(Lines) /\ f[i + 1] = (a \o u) \o b /\ f[k] = a
        BY <3>1, <4>2, <4>3
      <4> HIDE DEF a, b
      <4>5. (a \o u) \o b = a \o (u \o b) /\ u \o b \in Seq(Lines)
        BY <4>4, ConcatAssociative
      <4> QED BY <4>4, <4>5
    <3> QED BY <3>2, <3>3
  <2> HIDE DEF S
  <2>3. Nat \subseteq S
    BY <2>1, <2>2, SetInduction
  <2>4. \A i \in k..n : i \in Nat
    BY <1>1
  <2>5. ASSUME NEW i \in k..n PROVE \E u \in Seq(Lines) : f[i] = f[k] \o u
    BY <2>3, <2>4 DEF S
  <2> QED BY <2>5
<1> QED BY <1>3, <1>4 DEF n, Continued

\* A sequence appended to the joined ones ends up at the end.
LEMMA FlattenAppend ==
  ASSUME NEW s \in Seq(Seq(Lines)), NEW x \in Seq(Lines)
  PROVE  FlattenSeq(s) \in Seq(Lines) /\ FlattenSeq(Append(s, x)) = FlattenSeq(s) \o x
<1>1. PICK n \in Nat : n = Len(s)
  OBVIOUS
<1>2. PICK t \in Seq(Seq(Lines)) :
          /\ t = Append(s, x) /\ t # <<>>
          /\ Len(t) = n + 1 /\ t[n + 1] = x
          /\ \A i \in 1..n : s[i] = t[i]
  <2>1. PICK T : T = Seq(Lines)
    OBVIOUS
  <2>2. s \in Seq(T) /\ x \in T
    BY <2>1
  <2>3. /\ Append(s, x) \in Seq(T) /\ Append(s, x) # <<>>
        /\ Len(Append(s, x)) = Len(s) + 1 /\ Append(s, x)[Len(s) + 1] = x
        /\ \A i \in 1..Len(s) : Append(s, x)[i] = s[i]
    BY <2>2, AppendProperties
  <2> QED BY <1>1, <2>1, <2>3
<1>3. /\ Len(t) = n + 1 /\ t # <<>> /\ t[n + 1] = x
      /\ \A i \in 1..n : s[i] = t[i]
  BY <1>2
<1>4. PICK f : JoinTable(f, s, n)
  BY JoinedExists
<1>5. PICK g : JoinTable(g, t, n + 1)
  <2>1. n + 1 \in Nat
    OBVIOUS
  <2> QED BY <2>1, JoinedExists, Zenon
<1>6. Agree(f, g, n)
  <2>1. n + 1 \in Nat /\ n <= n + 1 /\ Agree(s, t, n)
    BY <1>3 DEF Agree
  <2> QED BY <1>4, <1>5, <2>1, JoinedAgree
<1>7. FlattenSeq(t) = g[n + 1]
  BY <1>3, <1>5, FlattenJoined
<1>8. g[n + 1] = IF n + 1 = 1 THEN t[n + 1] ELSE g[(n + 1) - 1] \o t[n + 1]
  <2>1. n + 1 \in 1..(n + 1)
    OBVIOUS
  <2> QED BY <1>5, <2>1 DEF JoinTable
<1>9. CASE n = 0
  <2>1. s = <<>>
    BY <1>1, <1>9, EmptySeq
  <2>2. FlattenSeq(s) = <<>>
    BY <2>1 DEF FlattenSeq
  <2>3. <<>> \in Seq(Lines) /\ <<>> \o x = x
    OBVIOUS
  <2>4. g[n + 1] = x
    BY <1>3, <1>8, <1>9
  <2> QED BY <1>2, <1>7, <2>2, <2>3, <2>4
<1>10. CASE n # 0
  <2>1. s # <<>> /\ n \in 1..n /\ (n + 1) - 1 = n /\ n + 1 # 1
    BY <1>1, <1>10
  <2>2. FlattenSeq(s) = f[n] /\ f[n] \in Seq(Lines)
    BY <1>1, <1>4, <2>1, FlattenJoined, JoinedLines
  <2>3. g[n + 1] = g[n] \o x
    BY <1>3, <1>8, <2>1
  <2>4. g[n] = f[n]
    BY <1>6, <2>1 DEF Agree
  <2> QED BY <1>2, <1>7, <2>2, <2>3, <2>4
<1> QED BY <1>9, <1>10

\* The lines of a sequence of buffers, buffer by buffer.
LinesOf(bs) == [i \in 1..Len(bs) |-> bs[i].lines]

\* They are sequences of lines, one for each buffer.
LEMMA LinesOfProperties ==
  ASSUME NEW bs \in Seq(Buffer)
  PROVE  /\ LinesOf(bs) \in Seq(Seq(Lines))
         /\ Len(LinesOf(bs)) = Len(bs)
         /\ \A i \in 1..Len(bs) : LinesOf(bs)[i] = bs[i].lines
<1>1. Len(bs) \in Nat /\ \A i \in 1..Len(bs) : bs[i].lines \in Seq(Lines)
  <2>1. Len(bs) \in Nat /\ \A i \in 1..Len(bs) : bs[i] \in Buffer
    OBVIOUS
  <2>2. \A b \in Buffer : b.lines \in Seq(Lines)
    BY DEF Buffer
  <2> QED BY <2>1, <2>2
<1>2. PICK T : T = Seq(Lines)
  OBVIOUS
<1>3. LinesOf(bs) \in Seq(T)
  BY <1>1, <1>2, IsASeq DEF LinesOf
<1>4. DOMAIN LinesOf(bs) = 1..Len(bs)
  BY DEF LinesOf
<1>5. Len(LinesOf(bs)) = Len(bs)
  <2>1. /\ Len(LinesOf(bs)) \in Nat
        /\ DOMAIN LinesOf(bs) = 1..Len(LinesOf(bs))
    BY <1>3, LenProperties
  <2> QED BY <1>1, <1>4, <2>1
<1> QED BY <1>2, <1>3, <1>5 DEF LinesOf

\* A buffer pushed at the end adds its lines at the end.
LEMMA ContentAppend ==
  ASSUME NEW bs \in Seq(Buffer), NEW b \in Buffer
  PROVE  /\ Content(bs) \in Seq(Lines) /\ b.lines \in Seq(Lines)
         /\ Content(Append(bs, b)) = Content(bs) \o b.lines
<1>1. b.lines \in Seq(Lines)
  BY DEF Buffer
<1>2. PICK s \in Seq(Seq(Lines)) : s = LinesOf(bs)
  BY LinesOfProperties
<1>3. FlattenSeq(s) \in Seq(Lines) /\ FlattenSeq(Append(s, b.lines)) = FlattenSeq(s) \o b.lines
  BY <1>1, FlattenAppend
<1>4. PICK cs \in Seq(Buffer) :
          /\ cs = Append(bs, b) /\ Len(cs) = Len(bs) + 1 /\ cs[Len(bs) + 1] = b
          /\ \A i \in 1..Len(bs) : cs[i] = bs[i]
  <2>1. /\ Append(bs, b) \in Seq(Buffer) /\ Len(Append(bs, b)) = Len(bs) + 1
        /\ Append(bs, b)[Len(bs) + 1] = b
        /\ \A i \in 1..Len(bs) : Append(bs, b)[i] = bs[i]
    BY AppendProperties
  <2> QED BY <2>1
<1>5. LinesOf(cs) = Append(s, b.lines)
  <2>1. PICK T : T = Seq(Lines)
    OBVIOUS
  <2>2. s \in Seq(T) /\ b.lines \in T
    BY <1>1, <2>1
  <2>3. /\ Append(s, b.lines) \in Seq(T)
        /\ Len(Append(s, b.lines)) = Len(s) + 1 /\ Append(s, b.lines)[Len(s) + 1] = b.lines
        /\ \A i \in 1..Len(s) : Append(s, b.lines)[i] = s[i]
    BY <2>2, AppendProperties
  <2>4. Len(s) = Len(bs) /\ Len(bs) \in Nat /\ \A i \in 1..Len(bs) : s[i] = bs[i].lines
    BY <1>2, LinesOfProperties
  <2>5. /\ LinesOf(cs) \in Seq(T) /\ Len(LinesOf(cs)) = Len(bs) + 1
        /\ \A i \in 1..(Len(bs) + 1) : LinesOf(cs)[i] = cs[i].lines
    BY <1>4, <2>1, LinesOfProperties
  <2>6. \A i \in 1..(Len(bs) + 1) : LinesOf(cs)[i] = Append(s, b.lines)[i]
    <3> TAKE i \in 1..(Len(bs) + 1)
    <3>1. CASE i \in 1..Len(bs)
      BY <1>4, <2>3, <2>4, <2>5, <3>1
    <3>2. CASE i = Len(bs) + 1
      <4>1. LinesOf(cs)[i] = b.lines
        BY <1>4, <2>5, <3>2
      <4>2. Append(s, b.lines)[i] = b.lines
        BY <2>3, <2>4, <3>2
      <4> QED BY <4>1, <4>2
    <3>3. i \in 1..Len(bs) \/ i = Len(bs) + 1
      OBVIOUS
    <3> QED BY <3>1, <3>2, <3>3
  <2> QED BY <2>3, <2>4, <2>5, <2>6, SeqEqual
<1>6. \A x \in Seq(Buffer) : Content(x) = FlattenSeq(LinesOf(x))
  BY DEF Content, LinesOf
<1> QED BY <1>1, <1>2, <1>3, <1>4, <1>5, <1>6

\* What is left when a backlog is cut to two buffers is a beginning of it.
LEMMA ContentCut ==
  ASSUME NEW bs \in Seq(Buffer), Len(bs) >= 2
  PROVE  /\ Content(SubSeq(bs, 1, 2)) \in Seq(Lines)
         /\ \E u \in Seq(Lines) : Content(bs) = Content(SubSeq(bs, 1, 2)) \o u
<1>1. PICK n \in Nat : n = Len(bs) /\ n >= 2
  OBVIOUS
<1>2. PICK cs \in Seq(Buffer) : /\ cs = SubSeq(bs, 1, 2) /\ Len(cs) = 2
                                /\ cs[1] = bs[1] /\ cs[2] = bs[2]
  <2>1. \A i \in 1..2 : bs[i] \in Buffer
    BY <1>1
  <2>2. /\ SubSeq(bs, 1, 2) \in Seq(Buffer) /\ Len(SubSeq(bs, 1, 2)) = 2
        /\ \A i \in 1..2 : SubSeq(bs, 1, 2)[i] = bs[i]
    BY <1>1, <2>1
  <2>3. SubSeq(bs, 1, 2)[1] = bs[1] /\ SubSeq(bs, 1, 2)[2] = bs[2]
    BY <2>2
  <2> QED BY <2>2, <2>3
<1>3. PICK s \in Seq(Seq(Lines)) : /\ s = LinesOf(bs) /\ Len(s) = n
                                   /\ \A i \in 1..n : s[i] = bs[i].lines
  BY <1>1, LinesOfProperties
<1>4. PICK t \in Seq(Seq(Lines)) : /\ t = LinesOf(cs) /\ Len(t) = 2
                                   /\ \A i \in 1..2 : t[i] = cs[i].lines
  BY <1>2, LinesOfProperties
<1>5. PICK f : JoinTable(f, s, n)
  BY JoinedExists
<1>6. PICK g : JoinTable(g, t, 2)
  <2>1. 2 \in Nat
    OBVIOUS
  <2> QED BY <2>1, JoinedExists, Zenon
<1>7. g[2] = f[2]
  <2>1. 2 \in Nat /\ 2 <= n /\ 1 \in 1..n /\ 2 \in 1..n
    BY <1>1
  <2>2. t[1] = s[1] /\ t[2] = s[2]
    BY <1>2, <1>3, <1>4, <2>1
  <2>3. Agree(t, s, 2)
    BY <2>2 DEF Agree
  <2>4. Agree(g, f, 2)
    BY <1>5, <1>6, <2>1, <2>3, JoinedAgree
  <2> QED BY <2>4 DEF Agree
<1>8. s # <<>> /\ t # <<>>
  <2>1. Len(s) # 0 /\ Len(t) # 0
    BY <1>1, <1>3, <1>4
  <2> QED BY <2>1
<1>9. FlattenSeq(s) = f[n] /\ FlattenSeq(t) = g[2]
  BY <1>3, <1>4, <1>5, <1>6, <1>8, FlattenJoined
<1>10. g[2] \in Seq(Lines)
  <2>1. JoinTable(g, t, Len(t)) /\ 2 \in 1..Len(t)
    BY <1>4, <1>6
  <2>2. \A i \in 1..Len(t) : g[i] \in Seq(Lines)
    BY <2>1, JoinedLines
  <2> QED BY <2>1, <2>2
<1>11. \E u \in Seq(Lines) : f[n] = f[2] \o u
  <2>1. 2 \in 1..n /\ n \in 2..n
    BY <1>1
  <2>2. \A k \in 1..n : \A i \in k..n : \E u \in Seq(Lines) : f[i] = f[k] \o u
    <3>1. JoinTable(f, s, Len(s))
      BY <1>3, <1>5
    <3>2. Continued(f, Len(s))
      BY <3>1, JoinedLines
    <3> QED BY <1>3, <3>2 DEF Continued
  <2> QED BY <2>1, <2>2
<1>12. \A x \in Seq(Buffer) : Content(x) = FlattenSeq(LinesOf(x))
  BY DEF Content, LinesOf
<1>13. Content(bs) = f[n] /\ Content(cs) = f[2]
  BY <1>3, <1>4, <1>7, <1>9, <1>12
<1> QED BY <1>2, <1>7, <1>10, <1>11, <1>13

-----------------------------------------------------------------------------
(* Lines are accounted for.                                                *)

\* Ascending, entry by entry: the form of "in the order of append" that survives
\* a cut in the middle.
Ascending(s) == \A i, j \in 1..Len(s) : i < j => s[i] < s[j]

\* The lines in all are those of the first n that are not gone, in order.
Accounts(all, n, gone) ==
  /\ all \in Seq(Lines)
  /\ Ascending(all)
  /\ gone \subseteq 1..n
  /\ Range(all) = (1..n) \ gone

\* The range of a sequence, by its positions.
LEMMA RangeBy ==
  ASSUME NEW s \in Seq(Lines)
  PROVE  /\ \A i \in 1..Len(s) : s[i] \in Range(s)
         /\ \A x \in Range(s) : \E i \in 1..Len(s) : x = s[i]
BY DEF Range

\* A line with the next number at the end.
LEMMA AccountsAppend ==
  ASSUME NEW all, NEW n \in Nat, NEW gone, Accounts(all, n, gone), n + 1 \in Lines
  PROVE  Accounts(Append(all, n + 1), n + 1, gone)
<1>1. all \in Seq(Lines) /\ Ascending(all) /\ gone \subseteq 1..n /\ Range(all) = (1..n) \ gone
  BY DEF Accounts
<1>2. PICK t : /\ t = Append(all, n + 1) /\ t \in Seq(Lines) /\ Len(t) = Len(all) + 1
               /\ t[Len(all) + 1] = n + 1
               /\ \A i \in 1..Len(all) : t[i] = all[i]
  <2>1. /\ Append(all, n + 1) \in Seq(Lines) /\ Len(Append(all, n + 1)) = Len(all) + 1
        /\ Append(all, n + 1)[Len(all) + 1] = n + 1
        /\ \A i \in 1..Len(all) : Append(all, n + 1)[i] = all[i]
    BY <1>1, AppendProperties
  <2> QED BY <2>1
<1>3. Len(all) \in Nat
  BY <1>1
<1>4. \A i \in 1..Len(all) : all[i] \in 1..n
  BY <1>1, RangeBy
<1>5. Ascending(t)
  <2> SUFFICES ASSUME NEW i \in 1..Len(t), NEW j \in 1..Len(t), i < j PROVE t[i] < t[j]
    BY DEF Ascending
  <2>1. i \in 1..Len(all) /\ t[i] = all[i]
    BY <1>2, <1>3
  <2>2. CASE j \in 1..Len(all)
    <3>1. t[j] = all[j] /\ all[i] < all[j]
      BY <1>1, <1>2, <2>1, <2>2 DEF Ascending
    <3> QED BY <2>1, <3>1
  <2>3. CASE j = Len(all) + 1
    <3>1. t[j] = n + 1 /\ all[i] \in 1..n
      BY <1>2, <1>4, <2>1, <2>3
    <3> QED BY <2>1, <3>1
  <2>4. j \in 1..Len(all) \/ j = Len(all) + 1
    BY <1>2, <1>3
  <2> QED BY <2>2, <2>3, <2>4
<1>6. Range(t) = Range(all) \union {n + 1}
  <2>1. ASSUME NEW x \in Range(t) PROVE x \in Range(all) \union {n + 1}
    <3>1. PICK i \in 1..Len(t) : x = t[i]
      BY <1>2, RangeBy
    <3>2. i \in 1..Len(all) \/ i = Len(all) + 1
      BY <1>2, <1>3
    <3> QED BY <1>1, <1>2, <3>1, <3>2, RangeBy
  <2>2. ASSUME NEW x \in Range(all) PROVE x \in Range(t)
    <3>1. PICK i \in 1..Len(all) : x = all[i]
      BY <1>1, RangeBy
    <3>2. i \in 1..Len(t) /\ t[i] = x
      BY <1>2, <1>3, <3>1
    <3> QED BY <1>2, <3>2, RangeBy
  <2>3. n + 1 \in Range(t)
    <3>1. Len(all) + 1 \in 1..Len(t)
      BY <1>2, <1>3
    <3> QED BY <1>2, <3>1, RangeBy
  <2> QED BY <2>1, <2>2, <2>3
<1>7. (1..n) \union {n + 1} = 1..(n + 1) /\ n + 1 \notin 1..n
  OBVIOUS
<1>8. gone \subseteq 1..(n + 1) /\ Range(t) = (1..(n + 1)) \ gone
  BY <1>1, <1>6, <1>7
<1> QED BY <1>2, <1>5, <1>8 DEF Accounts

\* A line that is gone at once.
LEMMA AccountsReject ==
  ASSUME NEW all, NEW n \in Nat, NEW gone, Accounts(all, n, gone)
  PROVE  Accounts(all, n + 1, gone \union {n + 1})
<1>1. (1..n) \union {n + 1} = 1..(n + 1) /\ n + 1 \notin 1..n
  OBVIOUS
<1> QED BY <1>1 DEF Accounts

\* Lines cut out of the middle: the others stay in order and no line cut is among
\* them.
LEMMA AscendingCut ==
  ASSUME NEW a \in Seq(Lines), NEW u \in Seq(Lines), NEW b \in Seq(Lines),
         Ascending((a \o u) \o b)
  PROVE  Ascending(a \o b) /\ Range(a \o b) \intersect Range(u) = {}
<1>1. PICK la \in Nat, lu \in Nat, lb \in Nat : la = Len(a) /\ lu = Len(u) /\ lb = Len(b)
  OBVIOUS
<1>2. PICK w \in Seq(Lines) :
          /\ w = (a \o u) \o b /\ Len(w) = la + lu + lb
          /\ \A i \in 1..la : w[i] = a[i]
          /\ \A i \in 1..lu : w[la + i] = u[i]
          /\ \A i \in 1..lb : w[(la + lu) + i] = b[i]
  <2>1. PICK v \in Seq(Lines) :
            /\ v = a \o u /\ Len(v) = la + lu
            /\ \A i \in 1..(la + lu) : v[i] = IF i <= la THEN a[i] ELSE u[i - la]
    <3>1. /\ a \o u \in Seq(Lines) /\ Len(a \o u) = Len(a) + Len(u)
          /\ \A i \in 1..(Len(a) + Len(u)) :
               (a \o u)[i] = IF i <= Len(a) THEN a[i] ELSE u[i - Len(a)]
      BY ConcatProperties
    <3> QED BY <1>1, <3>1
  <2>2. /\ v \o b \in Seq(Lines) /\ Len(v \o b) = Len(v) + Len(b)
        /\ \A i \in 1..(Len(v) + Len(b)) :
             (v \o b)[i] = IF i <= Len(v) THEN v[i] ELSE b[i - Len(v)]
    BY ConcatProperties
  <2>3. PICK w \in Seq(Lines) :
            /\ w = v \o b /\ Len(w) = (la + lu) + lb
            /\ \A i \in 1..((la + lu) + lb) :
                 w[i] = IF i <= la + lu THEN v[i] ELSE b[i - (la + lu)]
    <3>1. Len(v) = la + lu /\ Len(b) = lb
      BY <1>1, <2>1
    <3> QED BY <2>2, <3>1
  <2>4. ASSUME NEW i \in 1..la PROVE w[i] = a[i]
    <3>1. i \in 1..((la + lu) + lb) /\ i \in 1..(la + lu) /\ i <= la + lu /\ i <= la
      OBVIOUS
    <3> QED BY <2>1, <2>3, <3>1
  <2>5. ASSUME NEW i \in 1..lu PROVE w[la + i] = u[i]
    <3>1. /\ la + i \in 1..((la + lu) + lb) /\ la + i \in 1..(la + lu)
          /\ la + i <= la + lu /\ ~(la + i <= la) /\ (la + i) - la = i
      OBVIOUS
    <3> QED BY <2>1, <2>3, <3>1
  <2>6. ASSUME NEW i \in 1..lb PROVE w[(la + lu) + i] = b[i]
    <3>1. /\ (la + lu) + i \in 1..((la + lu) + lb)
          /\ ~((la + lu) + i <= la + lu) /\ ((la + lu) + i) - (la + lu) = i
      OBVIOUS
    <3> QED BY <2>3, <3>1
  <2> QED BY <2>1, <2>3, <2>4, <2>5, <2>6
<1>3. PICK v \in Seq(Lines) :
          /\ v = a \o b /\ Len(v) = la + lb
          /\ \A i \in 1..(la + lb) : v[i] = IF i <= la THEN a[i] ELSE b[i - la]
  <2>1. /\ a \o b \in Seq(Lines) /\ Len(a \o b) = Len(a) + Len(b)
        /\ \A i \in 1..(Len(a) + Len(b)) :
             (a \o b)[i] = IF i <= Len(a) THEN a[i] ELSE b[i - Len(a)]
    BY ConcatProperties
  <2> QED BY <1>1, <2>1
<1> DEFINE p(i) == IF i <= la THEN i ELSE i + lu
<1>4. ASSUME NEW i \in 1..(la + lb) PROVE p(i) \in 1..Len(w) /\ v[i] = w[p(i)]
  <2>1. CASE i <= la
    <3>1. p(i) = i /\ i \in 1..la /\ i \in 1..Len(w)
      BY <1>2, <2>1
    <3>2. v[i] = a[i] /\ w[i] = a[i]
      BY <1>2, <1>3, <2>1, <3>1
    <3> QED BY <3>1, <3>2
  <2>2. CASE ~(i <= la)
    <3>1. i - la \in 1..lb /\ (la + lu) + (i - la) = i + lu /\ i + lu \in 1..Len(w)
      BY <1>2, <2>2
    <3>2. p(i) = i + lu
      BY <2>2
    <3>3. v[i] = b[i - la]
      BY <1>3, <2>2
    <3>4. w[(la + lu) + (i - la)] = b[i - la]
      BY <1>2, <3>1
    <3> QED BY <3>1, <3>2, <3>3, <3>4
  <2> QED BY <2>1, <2>2
<1>5. \A i, j \in 1..(la + lb) : i < j => p(i) < p(j)
  OBVIOUS
<1>6. \A i \in 1..(la + lb) : \A k \in 1..lu : p(i) < la + k \/ la + k < p(i)
  OBVIOUS
<1> HIDE DEF p
<1>7. \A i, j \in 1..Len(w) : i < j => w[i] < w[j]
  BY <1>2 DEF Ascending
<1>8. Ascending(v)
  <2> SUFFICES ASSUME NEW i \in 1..(la + lb), NEW j \in 1..(la + lb), i < j PROVE v[i] < v[j]
    BY <1>3 DEF Ascending
  <2>1. p(i) \in 1..Len(w) /\ p(j) \in 1..Len(w) /\ p(i) < p(j)
    BY <1>4, <1>5
  <2>2. w[p(i)] < w[p(j)]
    BY <1>7, <2>1
  <2> QED BY <1>4, <2>2
<1>9. ASSUME NEW x \in Range(v), x \in Range(u) PROVE FALSE
  <2>1. PICK i \in 1..(la + lb) : x = v[i]
    BY <1>3, RangeBy
  <2>2. PICK k \in 1..lu : x = u[k]
    BY <1>1, <1>9, RangeBy
  <2>3. la + k \in 1..Len(w) /\ w[la + k] = x
    BY <1>2, <2>2
  <2>4. p(i) \in 1..Len(w) /\ w[p(i)] = x
    BY <1>4, <2>1
  <2>5. p(i) < la + k \/ la + k < p(i)
    BY <1>6
  <2>6. w[p(i)] < w[la + k] \/ w[la + k] < w[p(i)]
    BY <1>7, <2>3, <2>4, <2>5
  <2>7. x \in Lines
    <3>1. w[la + k] \in Lines
      BY <2>3, ElementOfSeq
    <3> QED BY <2>3, <3>1
  <2>8. x < x
    BY <2>3, <2>4, <2>6
  <2> QED BY <2>7, <2>8 DEF Lines
<1> QED BY <1>3, <1>8, <1>9

\* Lines cut out of the middle are gone.
LEMMA AccountsCut ==
  ASSUME NEW a \in Seq(Lines), NEW u \in Seq(Lines), NEW b \in Seq(Lines), NEW n \in Nat,
         NEW gone, Accounts((a \o u) \o b, n, gone)
  PROVE  Accounts(a \o b, n, gone \union Range(u)) /\ Range(a) \intersect Range(u) = {}
<1>1. a \o u \in Seq(Lines) /\ a \o b \in Seq(Lines)
  BY ConcatProperties
<1>2. /\ Range((a \o u) \o b) = Range(a \o u) \union Range(b)
      /\ Range(a \o u) = Range(a) \union Range(u)
      /\ Range(a \o b) = Range(a) \union Range(b)
  <2>1. PICK v \in Seq(Lines) : v = a \o u
    BY <1>1
  <2>2. Range(v \o b) = Range(v) \union Range(b)
    BY RangeConcatenation
  <2>3. Range(a \o u) = Range(a) \union Range(u)
    BY RangeConcatenation
  <2>4. Range(a \o b) = Range(a) \union Range(b)
    BY RangeConcatenation
  <2> QED BY <2>1, <2>2, <2>3, <2>4
<1>3. /\ Ascending((a \o u) \o b) /\ gone \subseteq 1..n
      /\ Range((a \o u) \o b) = (1..n) \ gone
  BY DEF Accounts
<1>4. Ascending(a \o b) /\ Range(a \o b) \intersect Range(u) = {}
  BY <1>3, AscendingCut
<1>5. /\ gone \union Range(u) \subseteq 1..n
      /\ Range(a \o b) = (1..n) \ (gone \union Range(u))
  BY <1>2, <1>3, <1>4
<1> QED BY <1>1, <1>2, <1>4, <1>5 DEF Accounts

\* The lines in the logging thread's hands.
Writing == IF tpc = "write" THEN Content(buffersToWrite) ELSE <<>>

\* What the file and the buffers hold, from the oldest line to the newest.
LinesInv ==
  /\ file \in Seq(Lines)
  /\ Accounts(file \o InFlight, count, rejected \union dropped)

\* The buffers hold lines.
LEMMA InFlightParts ==
  ASSUME BufferTypes, file \in Seq(Lines)
  PROVE  /\ Writing \in Seq(Lines) /\ Content(buffers_) \in Seq(Lines)
         /\ currentBuffer_.lines \in Seq(Lines)
         /\ InFlight = (Writing \o Content(buffers_)) \o currentBuffer_.lines
         /\ InFlight \in Seq(Lines)
<1>1. currentBuffer_ \in Buffer /\ buffers_ \in Seq(Buffer) /\ buffersToWrite \in Seq(Buffer)
  BY DEF BufferTypes
<1>2. /\ Content(buffers_) \in Seq(Lines) /\ currentBuffer_.lines \in Seq(Lines)
      /\ Content(buffersToWrite) \in Seq(Lines)
  BY <1>1, ContentAppend
<1>3. Writing \in Seq(Lines)
  BY <1>2, EmptySeq DEF Writing
<1>4. InFlight = (Writing \o Content(buffers_)) \o currentBuffer_.lines
  BY DEF InFlight, Writing
<1>5. Writing \o Content(buffers_) \in Seq(Lines)
  BY <1>2, <1>3, ConcatProperties
<1>6. (Writing \o Content(buffers_)) \o currentBuffer_.lines \in Seq(Lines)
  BY <1>2, <1>5, ConcatProperties
<1> QED BY <1>2, <1>3, <1>4, <1>6

\* A line at the end of the last part is at the end of the whole.
LEMMA AppendAtEnd ==
  ASSUME NEW a \in Seq(Lines), NEW b \in Seq(Lines), NEW x \in Lines
  PROVE  a \o Append(b, x) = Append(a \o b, x)
<1>1. PICK e \in Seq(Lines) : e = <<x>>
  <2>1. <<x>> \in Seq(Lines)
    OBVIOUS
  <2> QED BY <2>1
<1>2. Append(b, x) = b \o e
  BY <1>1, AppendIsConcat
<1>3. a \o b \in Seq(Lines)
  BY ConcatProperties
<1>4. Append(a \o b, x) = (a \o b) \o e
  BY <1>1, <1>3, AppendIsConcat
<1>5. (a \o b) \o e = a \o (b \o e)
  BY ConcatAssociative
<1> QED BY <1>2, <1>4, <1>5

\* An append that finds room.
LEMMA AppendInCurrentLines ==
  ASSUME BufferTypes, LinesInv, NEW len \in Lens, AppendInCurrent(len)
  PROVE  LinesInv'
<1>1. /\ UNCHANGED <<tpc, buffers_, buffersToWrite, rejected, dropped, file>>
      /\ count' = count + 1
      /\ currentBuffer_'.lines = Append(currentBuffer_.lines, count + 1)
  BY DEF AppendInCurrent, locals, Put
<1>2. count \in Nat /\ count + 1 \in Lines
  BY DEF AppendInCurrent, BufferTypes, Lines
<1>3. PICK a \in Seq(Lines), b \in Seq(Lines) :
          /\ a = Writing \o Content(buffers_) /\ b = currentBuffer_.lines
          /\ InFlight = a \o b
  <2>1. /\ Writing \in Seq(Lines) /\ Content(buffers_) \in Seq(Lines)
        /\ currentBuffer_.lines \in Seq(Lines)
        /\ InFlight = (Writing \o Content(buffers_)) \o currentBuffer_.lines
    BY InFlightParts DEF LinesInv
  <2>2. Writing \o Content(buffers_) \in Seq(Lines)
    BY <2>1, ConcatProperties
  <2> QED BY <2>1, <2>2
<1>4. Writing' = Writing /\ Content(buffers_)' = Content(buffers_)
  BY <1>1 DEF Writing, Content
<1>5. InFlight' = a \o Append(b, count + 1)
  BY <1>1, <1>3, <1>4 DEF InFlight, Writing
<1>6. PICK x \in Lines : x = count + 1
  BY <1>2
<1>7. a \o Append(b, x) = Append(a \o b, x) /\ a \o b \in Seq(Lines)
  BY AppendAtEnd, ConcatProperties
<1>8. file \o Append(a \o b, x) = Append(file \o (a \o b), x)
  BY <1>7, AppendAtEnd DEF LinesInv
<1>9. Accounts(Append(file \o InFlight, count + 1), count + 1, rejected \union dropped)
  BY <1>2, AccountsAppend DEF LinesInv
<1> QED BY <1>1, <1>3, <1>5, <1>6, <1>7, <1>8, <1>9 DEF LinesInv

\* An append that takes a fresh buffer, with room for the line or without.
LEMMA AppendInFreshLines ==
  ASSUME BufferTypes, LinesInv, NEW len \in Lens, AppendInFresh(len)
  PROVE  LinesInv'
<1> DEFINE fresh == IF nextBuffer_ # Null THEN nextBuffer_ ELSE Empty
<1>1. /\ UNCHANGED <<tpc, buffersToWrite, dropped, file>>
      /\ count' = count + 1
      /\ buffers_' = Append(buffers_, currentBuffer_)
      /\ currentBuffer_' = Put(fresh, count + 1, len)
      /\ rejected' = IF avail(fresh) > len THEN rejected ELSE rejected \union {count + 1}
  BY DEF AppendInFresh, locals
<1>2. fresh = Empty
  BY DEF BufferTypes
<1> HIDE DEF fresh
<1>3. count \in Nat /\ count + 1 \in Lines
  BY DEF AppendInFresh, BufferTypes, Lines
<1>4. PICK w \in Seq(Lines), c \in Seq(Lines), l \in Seq(Lines) :
          /\ w = Writing /\ c = Content(buffers_) /\ l = currentBuffer_.lines
          /\ InFlight = (w \o c) \o l
  BY InFlightParts DEF LinesInv
<1>5. Content(buffers_') = c \o l
  BY <1>1, <1>4, ContentAppend DEF BufferTypes
<1>6. w \o (c \o l) = InFlight /\ InFlight \in Seq(Lines) /\ file \o InFlight \in Seq(Lines)
  <2>1. (w \o c) \o l = w \o (c \o l)
    BY ConcatAssociative
  <2>2. InFlight \in Seq(Lines) /\ file \in Seq(Lines)
    BY InFlightParts DEF LinesInv
  <2> QED BY <1>4, <2>1, <2>2, ConcatProperties
<1>7. InFlight' = (w \o (c \o l)) \o currentBuffer_'.lines
  <2>1. Writing' = Writing
    BY <1>1 DEF Writing, Content
  <2> QED BY <1>4, <1>5, <2>1 DEF InFlight, Writing
<1>8. CASE avail(fresh) > len
  <2>1. currentBuffer_'.lines = <<count + 1>> /\ rejected' = rejected
    BY <1>1, <1>2, <1>8 DEF Put, Empty
  <2>2. PICK x \in Lines : x = count + 1
    BY <1>3
  <2>3. InFlight' = Append(InFlight, x)
    <3>1. InFlight' = InFlight \o <<x>>
      BY <1>6, <1>7, <2>1, <2>2
    <3>2. Append(InFlight, x) = InFlight \o <<x>>
      BY <1>6, AppendIsConcat
    <3> QED BY <3>1, <3>2
  <2>4. file \o Append(InFlight, x) = Append(file \o InFlight, x)
    BY <1>6, AppendAtEnd DEF LinesInv
  <2>5. Accounts(Append(file \o InFlight, count + 1), count + 1, rejected \union dropped)
    BY <1>3, AccountsAppend DEF LinesInv
  <2> QED BY <1>1, <2>1, <2>2, <2>3, <2>4, <2>5 DEF LinesInv
<1>9. CASE ~(avail(fresh) > len)
  <2>1. currentBuffer_'.lines = <<>> /\ rejected' = rejected \union {count + 1}
    BY <1>1, <1>2, <1>9 DEF Put, Empty
  <2>2. InFlight' = InFlight
    <3>1. InFlight \o <<>> = InFlight
      BY <1>6, ConcatEmptySeq
    <3> QED BY <1>6, <1>7, <2>1, <3>1
  <2>3. Accounts(file \o InFlight, count + 1, (rejected \union dropped) \union {count + 1})
    BY <1>3, AccountsReject DEF LinesInv
  <2>4. (rejected \union dropped) \union {count + 1} = rejected' \union dropped'
    BY <1>1, <2>1
  <2> QED BY <1>1, <2>2, <2>3, <2>4 DEF LinesInv
<1> QED BY <1>8, <1>9

\* The swap moves the lines to the logging thread, in order.
LEMMA TakeBuffersLines ==
  ASSUME BufferTypes, SparesInv, LinesInv, tpc \in {"lock", "wait"}, TakeBuffers
  PROVE  LinesInv'
<1>1. newBuffer1 = Empty /\ buffersToWrite = <<>>
  BY DEF SparesInv
<1>2. /\ UNCHANGED <<count, rejected, dropped, file>>
      /\ tpc' = "write"
      /\ buffersToWrite' = Append(buffers_, currentBuffer_)
      /\ buffers_' = <<>>
      /\ currentBuffer_'.lines = <<>>
  BY <1>1 DEF TakeBuffers, Swapped, history, Empty
<1>3. PICK c \in Seq(Lines), l \in Seq(Lines) :
          c = Content(buffers_) /\ l = currentBuffer_.lines /\ InFlight = (<<>> \o c) \o l
  <2>1. Writing = <<>>
    BY DEF Writing
  <2> QED BY <2>1, InFlightParts DEF LinesInv
<1>4. Content(buffersToWrite') = c \o l
  BY <1>2, <1>3, ContentAppend DEF BufferTypes
<1>5. Content(buffers_') = <<>>
  BY <1>2 DEF Content, FlattenSeq
<1>6. InFlight' = ((c \o l) \o <<>>) \o <<>>
  BY <1>2, <1>4, <1>5 DEF InFlight
<1>7. InFlight' = InFlight
  <2>1. c \o l \in Seq(Lines)
    BY ConcatProperties
  <2>2. <<>> \o c = c /\ (c \o l) \o <<>> = c \o l
    BY <2>1, ConcatEmptySeq
  <2> QED BY <1>3, <1>6, <2>2
<1> QED BY <1>2, <1>7 DEF LinesInv

\* Concatenation of lines is associative.
LEMMA Associative ==
  \A a, b, c \in Seq(Lines) : (a \o b) \o c = a \o (b \o c)
<1> TAKE a \in Seq(Lines), b \in Seq(Lines), c \in Seq(Lines)
<1> QED BY ConcatAssociative

\* The part in the middle of a concatenation by itself.
Regroups(h, k, u, c, l) == h \o (((k \o u) \o c) \o l) = ((h \o k) \o u) \o (c \o l)

\* Any concatenation of lines can be regrouped in that way.
LEMMA Regrouped ==
  ASSUME NEW h \in Seq(Lines), NEW k \in Seq(Lines), NEW u \in Seq(Lines),
         NEW c \in Seq(Lines), NEW l \in Seq(Lines)
  PROVE  Regroups(h, k, u, c, l)
<1>1. PICK v \in Seq(Lines), b \in Seq(Lines) : v = k \o u /\ b = c \o l
  <2>1. k \o u \in Seq(Lines) /\ c \o l \in Seq(Lines)
    BY ConcatProperties
  <2> QED BY <2>1
<1>2. (v \o c) \o l = v \o (c \o l)
  <2>1. \A x, y \in Seq(Lines) : (v \o x) \o y = v \o (x \o y)
    BY Associative
  <2>2. \A y \in Seq(Lines) : (v \o c) \o y = v \o (c \o y)
    BY <2>1
  <2> QED BY <2>2
<1>3. \A x, y \in Seq(Lines) : (h \o x) \o y = h \o (x \o y)
  BY Associative
<1>4. \A y \in Seq(Lines) : (h \o v) \o y = h \o (v \o y)
  BY <1>3
<1>5. \A y \in Seq(Lines) : (h \o k) \o y = h \o (k \o y)
  BY <1>3
<1>6. (h \o v) \o b = h \o (v \o b)
  BY <1>4
<1>7. (h \o k) \o u = h \o (k \o u)
  BY <1>5
<1>8. h \o (((k \o u) \o c) \o l) = ((h \o k) \o u) \o (c \o l)
  BY <1>1, <1>2, <1>6, <1>7, Zenon
<1> QED BY <1>8 DEF Regroups

\* Lines written leave the buffers for the file; those of a cut backlog are dropped.
LEMMA WriteBuffersLines ==
  ASSUME BufferTypes, LinesInv, WriteBuffers
  PROVE  LinesInv'
<1> DEFINE kept == IF Len(buffersToWrite) > MaxToWrite THEN SubSeq(buffersToWrite, 1, 2)
                   ELSE buffersToWrite
<1>1. /\ UNCHANGED <<count, rejected, buffers_, currentBuffer_>>
      /\ tpc = "write" /\ tpc' = "recycle"
      /\ file' = file \o Content(kept)
      /\ dropped' = dropped \union (Range(Content(buffersToWrite)) \ Range(Content(kept)))
  BY DEF WriteBuffers, shared
<1>2. PICK k \in Seq(Lines), u \in Seq(Lines) :
          k = Content(kept) /\ Content(buffersToWrite) = k \o u
  <2>1. buffersToWrite \in Seq(Buffer) /\ Len(buffersToWrite) \in Nat
    BY DEF BufferTypes
  <2>2. CASE Len(buffersToWrite) > MaxToWrite
    <3>1. Len(buffersToWrite) >= 2 /\ kept = SubSeq(buffersToWrite, 1, 2)
      BY <2>1, <2>2
    <3>2. /\ Content(SubSeq(buffersToWrite, 1, 2)) \in Seq(Lines)
          /\ \E u \in Seq(Lines) :
               Content(buffersToWrite) = Content(SubSeq(buffersToWrite, 1, 2)) \o u
      BY <2>1, <3>1, ContentCut
    <3> QED BY <3>1, <3>2
  <2>3. CASE ~(Len(buffersToWrite) > MaxToWrite)
    <3>1. kept = buffersToWrite /\ Content(buffersToWrite) \in Seq(Lines)
      BY <2>3, InFlightParts, <1>1 DEF LinesInv, Writing
    <3>2. Content(buffersToWrite) \o <<>> = Content(buffersToWrite) /\ <<>> \in Seq(Lines)
      BY <3>1, ConcatEmptySeq, EmptySeq
    <3> QED BY <3>1, <3>2
  <2> QED BY <2>2, <2>3
<1> HIDE DEF kept
<1>3. PICK f \in Seq(Lines), c \in Seq(Lines), l \in Seq(Lines) :
          /\ f = file /\ c = Content(buffers_) /\ l = currentBuffer_.lines
          /\ InFlight = ((k \o u) \o c) \o l
  <2>1. Writing = k \o u
    BY <1>1, <1>2 DEF Writing
  <2> QED BY <2>1, InFlightParts DEF LinesInv
<1>4. PICK b \in Seq(Lines) : b = c \o l
  BY ConcatProperties
<1>5. PICK a \in Seq(Lines) : a = f \o k
  BY ConcatProperties
<1>6. f \o InFlight = (a \o u) \o b
  <2>1. f \o (((k \o u) \o c) \o l) = ((f \o k) \o u) \o (c \o l)
    <3>1. Regroups(f, k, u, c, l)
      BY Regrouped
    <3> QED BY <3>1 DEF Regroups
  <2> QED BY <1>3, <1>4, <1>5, <2>1
<1>7. file' \o InFlight' = a \o b
  <2>1. InFlight' = (<<>> \o c) \o l
    BY <1>1, <1>3 DEF InFlight, Content
  <2>2. <<>> \o c = c
    BY ConcatEmptySeq
  <2> QED BY <1>1, <1>2, <1>3, <1>4, <1>5, <2>1, <2>2
<1>8. Accounts((a \o u) \o b, count, rejected \union dropped) /\ count \in Nat
  BY <1>3, <1>6 DEF LinesInv, BufferTypes
<1>9. /\ Accounts(a \o b, count, (rejected \union dropped) \union Range(u))
      /\ Range(a) \intersect Range(u) = {}
  BY <1>8, AccountsCut
<1>10. Range(a) = Range(f) \union Range(k) /\ Range(k \o u) = Range(k) \union Range(u)
  BY <1>5, RangeConcatenation
<1>11. rejected' \union dropped' = (rejected \union dropped) \union Range(u)
  <2>1. Range(k \o u) \ Range(k) = Range(u)
    BY <1>9, <1>10
  <2> QED BY <1>1, <1>2, <2>1
<1>12. file' \in Seq(Lines)
  BY <1>1, <1>2, <1>3, <1>5
<1> QED BY <1>1, <1>7, <1>9, <1>11, <1>12 DEF LinesInv

\* What the other steps leave alone keeps the account.
LEMMA LinesUnchanged ==
  ASSUME LinesInv, UNCHANGED <<count, rejected, dropped, file, buffers_, currentBuffer_>>,
         tpc # "write", tpc' # "write"
  PROVE  LinesInv'
<1>1. InFlight' = InFlight
  BY DEF InFlight, Content
<1> QED BY <1>1 DEF LinesInv

\* What the logger keeps: the types, the spares, and the account of the lines.
LoggerInv == BufferTypes /\ SparesInv /\ LinesInv

\* It is an invariant of AsyncLogging.
LEMMA LoggerInvariant == Spec => []LoggerInv
<1>1. Init => LoggerInv
  <2> SUFFICES ASSUME Init PROVE LoggerInv
    OBVIOUS
  <2>1. BufferTypes /\ SparesInv
    BY NullIsNoBuffer DEF Init, BufferTypes, SparesInv
  <2>2. Content(buffers_) = <<>>
    BY DEF Init, Content, FlattenSeq
  <2>3. InFlight = (<<>> \o <<>>) \o <<>>
    BY <2>2 DEF Init, InFlight, Empty
  <2>4. file \o InFlight = <<>>
    BY <2>3 DEF Init
  <2>5. Range(<<>>) = {} /\ 1..0 = {}
    BY DEF Range
  <2>6. <<>> \in Seq(Lines) /\ Ascending(<<>>)
    BY DEF Ascending
  <2>7. Accounts(<<>>, 0, {} \union {})
    BY <2>5, <2>6 DEF Accounts
  <2>8. LinesInv
    BY <2>4, <2>6, <2>7 DEF Init, LinesInv
  <2> QED BY <2>1, <2>8 DEF LoggerInv
<1>2. LoggerInv /\ [Next]_vars => LoggerInv'
  <2> SUFFICES ASSUME BufferTypes, SparesInv, LinesInv, [Next]_vars PROVE LoggerInv'
    BY DEF LoggerInv
  <2>1. BufferTypes' /\ SparesInv'
    BY SparesStep
  <2>2. LinesInv'
    <3>1. ASSUME NEW len \in Lens, AppendInCurrent(len) PROVE LinesInv'
      BY <3>1, AppendInCurrentLines
    <3>2. ASSUME NEW len \in Lens, AppendInFresh(len) PROVE LinesInv'
      BY <3>2, AppendInFreshLines
    <3>3. CASE Start
      <4>1. tpc = "unborn"
        BY <3>3 DEF Start, SparesInv
      <4> QED BY <3>3, <4>1, LinesUnchanged DEF Start, shared, history
    <3>4. CASE LatchOpens \/ Stop \/ Join
      <4>1. UNCHANGED <<tpc, file, count, rejected, dropped, buffers_, currentBuffer_,
                        buffersToWrite>>
        BY <3>4 DEF LatchOpens, Stop, Join, shared, locals, history
      <4>2. InFlight' = InFlight
        BY <4>1 DEF InFlight, Content
      <4> QED BY <4>1, <4>2 DEF LinesInv
    <3>5. CASE ThreadBegins \/ WhileRunning \/ WaitForBuffers \/ Recycle
      BY <3>5, LinesUnchanged
      DEF ThreadBegins, WhileRunning, WaitForBuffers, Recycle, shared, history
    <3>6. CASE TakeAtOnce \/ TakeNotified \/ TakeTimedOut
      BY <3>6, TakeBuffersLines DEF TakeAtOnce, TakeNotified, TakeTimedOut
    <3>7. CASE WriteBuffers
      BY <3>7, WriteBuffersLines
    <3>8. CASE UNCHANGED vars
      <4>1. UNCHANGED <<tpc, file, count, rejected, dropped, buffers_, currentBuffer_,
                        buffersToWrite>>
        BY <3>8 DEF vars, shared, locals, history
      <4>2. InFlight' = InFlight
        BY <4>1 DEF InFlight, Content
      <4> QED BY <4>1, <4>2 DEF LinesInv
    <3> QED BY <3>1, <3>2, <3>3, <3>4, <3>5, <3>6, <3>7, <3>8 DEF Next, LoggingStep
  <2> QED BY <2>1, <2>2 DEF LoggerInv
<1> QED BY <1>1, <1>2, PTL DEF Spec

\* Whatever any number of threads append, while buffers fill, are swapped, cut,
\* written and recycled: each line is in the file or in a buffer once, in the order
\* in which append took mutex_, unless it did not fit an empty buffer or was in a
\* backlog that was cut (AsyncLogging.cc:27-42,60-105).
THEOREM LinesAlwaysAccountedFor == Spec => []LinesAccountedFor
<1>1. LoggerInv => LinesAccountedFor
  <2> SUFFICES ASSUME LinesInv PROVE LinesAccountedFor
    BY DEF LoggerInv
  <2>1. PICK all : all = file \o InFlight
    OBVIOUS
  <2>2. /\ all \in Seq(Lines) /\ Ascending(all)
        /\ Range(all) = (1..count) \ (rejected \union dropped)
    BY <2>1 DEF LinesInv, Accounts
  <2>3. \A i \in 1..(Len(all) - 1) : all[i] < all[i + 1]
    <3> TAKE i \in 1..(Len(all) - 1)
    <3>1. i \in 1..Len(all) /\ i + 1 \in 1..Len(all) /\ i < i + 1
      BY <2>2
    <3> QED BY <2>2, <3>1 DEF Ascending
  <2> QED BY <2>1, <2>2, <2>3 DEF LinesAccountedFor
<1> QED BY <1>1, LoggerInvariant, PTL

-----------------------------------------------------------------------------

\* Exchanging, writing and flushing log files, piece by piece, are steps the logger
\* does not see (LogFile.cc:29-81): whatever holds of AsyncLogging
\* holds of it with a LogFile as its output.
THEOREM LogFileImplementsLogging == FileSpec => Spec
<1>1. FileInit => Init
  BY DEF FileInit
<1>2. [FileNext]_allVars => [Next]_vars
  <2> SUFFICES ASSUME [FileNext]_allVars PROVE [Next]_vars
    OBVIOUS
  <2>1. CASE FileStep
    BY <2>1 DEF FileStep, OpenOutput, WritePiece, WriteShort, WriteOutput, FlushOutput, LeaveWhile,
                Next, LoggingStep
  <2>2. CASE MemoryStep \/ TimeOut \/ Joined
    BY <2>2 DEF MemoryStep, TimeOut, Joined, Next, LoggingStep
  <2>3. CASE Tick
    BY <2>3 DEF Tick
  <2>4. CASE (\E len \in Lens : AppendInCurrent(len) \/ AppendInFresh(len))
              \/ Start \/ LatchOpens \/ Stop
    BY <2>4 DEF Next
  <2>5. CASE UNCHANGED allVars
    BY <2>5 DEF allVars
  <2> QED BY <2>1, <2>2, <2>3, <2>4, <2>5 DEF FileNext
<1> QED BY <1>1, <1>2, PTL DEF FileSpec, Spec

-----------------------------------------------------------------------------
(* Order in joined sequences.                                              *)

\* Every line of the one set has a lower number than every line of the other.
Before(X, Y) == \A x \in X : \A y \in Y : x < y

\* Two ascending sequences, one before the other, make an ascending one, and only such.
LEMMA AscendingJoin ==
  ASSUME NEW a \in Seq(Lines), NEW b \in Seq(Lines)
  PROVE  Ascending(a \o b) <=> Ascending(a) /\ Ascending(b) /\ Before(Range(a), Range(b))
<1>1. PICK la \in Nat, lb \in Nat : la = Len(a) /\ lb = Len(b)
  OBVIOUS
<1>2. PICK v \in Seq(Lines) :
          /\ v = a \o b /\ Len(v) = la + lb
          /\ \A i \in 1..(la + lb) : v[i] = IF i <= la THEN a[i] ELSE b[i - la]
  <2>1. /\ a \o b \in Seq(Lines) /\ Len(a \o b) = Len(a) + Len(b)
        /\ \A i \in 1..(Len(a) + Len(b)) :
             (a \o b)[i] = IF i <= Len(a) THEN a[i] ELSE b[i - Len(a)]
    BY ConcatProperties
  <2> QED BY <1>1, <2>1
<1>3. \A i \in 1..la : i \in 1..(la + lb) /\ v[i] = a[i]
  BY <1>2
<1>4. ASSUME NEW i \in 1..lb PROVE la + i \in 1..(la + lb) /\ v[la + i] = b[i]
  <2>1. la + i \in 1..(la + lb) /\ ~(la + i <= la) /\ (la + i) - la = i
    OBVIOUS
  <2> QED BY <1>2, <2>1
<1>5. ASSUME Ascending(v) PROVE Ascending(a) /\ Ascending(b) /\ Before(Range(a), Range(b))
  <2>1. Ascending(a)
    <3> SUFFICES ASSUME NEW i \in 1..la, NEW j \in 1..la, i < j PROVE a[i] < a[j]
      BY <1>1 DEF Ascending
    <3>1. i \in 1..Len(v) /\ j \in 1..Len(v)
      BY <1>2, <1>3
    <3>2. v[i] < v[j]
      BY <1>5, <3>1 DEF Ascending
    <3> QED BY <1>3, <3>2
  <2>2. Ascending(b)
    <3> SUFFICES ASSUME NEW i \in 1..lb, NEW j \in 1..lb, i < j PROVE b[i] < b[j]
      BY <1>1 DEF Ascending
    <3>1. la + i \in 1..Len(v) /\ la + j \in 1..Len(v) /\ la + i < la + j
      BY <1>2, <1>4
    <3>2. v[la + i] < v[la + j]
      BY <1>5, <3>1 DEF Ascending
    <3> QED BY <1>4, <3>2
  <2>3. ASSUME NEW x \in Range(a), NEW y \in Range(b) PROVE x < y
    <3>1. PICK i \in 1..la : x = a[i]
      BY <1>1, RangeBy
    <3>2. PICK j \in 1..lb : y = b[j]
      BY <1>1, RangeBy
    <3>3. i \in 1..Len(v) /\ la + j \in 1..Len(v) /\ i < la + j
      BY <1>2, <1>3, <1>4
    <3>4. v[i] < v[la + j]
      BY <1>5, <3>3 DEF Ascending
    <3> QED BY <1>3, <1>4, <3>1, <3>2, <3>4
  <2> QED BY <2>1, <2>2, <2>3 DEF Before
<1>6. ASSUME Ascending(a), Ascending(b), Before(Range(a), Range(b)) PROVE Ascending(v)
  <2> SUFFICES ASSUME NEW i \in 1..(la + lb), NEW j \in 1..(la + lb), i < j PROVE v[i] < v[j]
    BY <1>2 DEF Ascending
  <2>1. CASE j <= la
    <3>1. i \in 1..la /\ j \in 1..la
      BY <2>1
    <3>2. a[i] < a[j]
      BY <1>1, <1>6, <3>1 DEF Ascending
    <3> QED BY <1>3, <3>1, <3>2
  <2>2. CASE ~(j <= la) /\ i <= la
    <3>1. i \in 1..la /\ j - la \in 1..lb /\ v[j] = b[j - la]
      BY <1>2, <2>2
    <3>2. a[i] \in Range(a) /\ b[j - la] \in Range(b)
      BY <1>1, <3>1, RangeBy
    <3>3. a[i] < b[j - la]
      BY <1>6, <3>2 DEF Before
    <3> QED BY <1>3, <3>1, <3>3
  <2>3. CASE ~(i <= la)
    <3>1. /\ i - la \in 1..lb /\ j - la \in 1..lb /\ i - la < j - la
          /\ v[i] = b[i - la] /\ v[j] = b[j - la]
      BY <1>2, <2>3
    <3>2. b[i - la] < b[j - la]
      BY <1>1, <1>6, <3>1 DEF Ascending
    <3> QED BY <3>1, <3>2
  <2> QED BY <2>1, <2>2, <2>3
<1> QED BY <1>2, <1>5, <1>6

\* The range of joined sequences, by the entries of the table.
LEMMA JoinedRange ==
  ASSUME NEW s \in Seq(Seq(Lines)), NEW f, JoinTable(f, s, Len(s))
  PROVE  \A k \in 1..Len(s) : Range(f[k]) = UNION {Range(s[j]) : j \in 1..k}
<1>1. PICK n \in Nat : n = Len(s)
  OBVIOUS
<1>2. /\ \A i \in 1..n : s[i] \in Seq(Lines) /\ f[i] \in Seq(Lines)
      /\ \A i \in 1..n : f[i] = IF i = 1 THEN s[i] ELSE f[i - 1] \o s[i]
  <2>1. \A i \in 1..n : s[i] \in Seq(Lines)
    BY <1>1
  <2>2. \A i \in 1..n : f[i] \in Seq(Lines)
    BY <1>1, JoinedLines
  <2> QED BY <1>1, <2>1, <2>2 DEF JoinTable
<1> DEFINE S == {k \in Nat : k \in 1..n => Range(f[k]) = UNION {Range(s[j]) : j \in 1..k}}
<1>3. 0 \in S
  OBVIOUS
<1>4. ASSUME NEW k \in Nat, k \in S PROVE k + 1 \in S
  <2> SUFFICES ASSUME k + 1 \in 1..n
               PROVE  Range(f[k + 1]) = UNION {Range(s[j]) : j \in 1..(k + 1)}
    OBVIOUS
  <2>1. s[k + 1] \in Seq(Lines) /\ (k + 1) - 1 = k
    BY <1>2
  <2>2. f[k + 1] = IF k + 1 = 1 THEN s[k + 1] ELSE f[(k + 1) - 1] \o s[k + 1]
    BY <1>2
  <2>3. 1..(k + 1) = (1..k) \union {k + 1}
    OBVIOUS
  <2>4. UNION {Range(s[j]) : j \in 1..(k + 1)}
        = (UNION {Range(s[j]) : j \in 1..k}) \union Range(s[k + 1])
    BY <2>3
  <2>5. CASE k = 0
    <3>1. 1..0 = {} /\ f[k + 1] = s[k + 1]
      BY <2>2, <2>5
    <3> QED BY <2>4, <2>5, <3>1
  <2>6. CASE k # 0
    <3>1. k \in 1..n /\ f[k + 1] = f[k] \o s[k + 1]
      <4>1. k + 1 # 1 /\ k \in 1..n
        BY <1>1, <2>6
      <4> QED BY <2>1, <2>2, <4>1, Zenon
    <3>2. PICK a \in Seq(Lines), b \in Seq(Lines) : a = f[k] /\ b = s[k + 1]
      BY <1>2, <2>1, <3>1
    <3>3. Range(a \o b) = Range(a) \union Range(b)
      BY RangeConcatenation
    <3>4. Range(f[k]) = UNION {Range(s[j]) : j \in 1..k}
      BY <1>4, <3>1
    <3> QED BY <2>4, <3>1, <3>2, <3>3, <3>4
  <2> QED BY <2>5, <2>6
<1> HIDE DEF S
<1>5. Nat \subseteq S
  BY <1>3, <1>4, SetInduction
<1>6. ASSUME NEW k \in 1..n PROVE Range(f[k]) = UNION {Range(s[j]) : j \in 1..k}
  <2>1. k \in S
    BY <1>5
  <2> QED BY <2>1 DEF S
<1> QED BY <1>1, <1>6

\* The sequences are ascending, and each before the next.
InOrder(s) ==
  \A k \in 1..Len(s) :
    Ascending(s[k]) /\ \A j \in 1..Len(s) : j < k => Before(Range(s[j]), Range(s[k]))

\* The range and the order of joined sequences.
LEMMA FlattenParts ==
  ASSUME NEW s \in Seq(Seq(Lines))
  PROVE  /\ Range(FlattenSeq(s)) = UNION {Range(s[j]) : j \in 1..Len(s)}
         /\ Ascending(FlattenSeq(s)) => InOrder(s)
<1>1. PICK n \in Nat : n = Len(s)
  OBVIOUS
<1>2. CASE n = 0
  <2>0. s = <<>>
    BY <1>1, <1>2, EmptySeq
  <2>1. s = <<>> /\ 1..Len(s) = {}
    BY <1>1, <1>2, <2>0
  <2>2. FlattenSeq(s) = <<>>
    BY <2>1 DEF FlattenSeq
  <2>3. Range(<<>>) = {}
    BY DEF Range
  <2> QED BY <2>1, <2>2, <2>3 DEF InOrder
<1>3. CASE n # 0
  <2>1. PICK f : JoinTable(f, s, n)
    BY JoinedExists
  <2>2. s # <<>> /\ n \in 1..n
    BY <1>1, <1>3
  <2>3. FlattenSeq(s) = f[n]
    BY <1>1, <2>1, <2>2, FlattenJoined
  <2>4. \A k \in 1..n : Range(f[k]) = UNION {Range(s[j]) : j \in 1..k}
    BY <1>1, <2>1, JoinedRange
  <2>5. (\A i \in 1..n : f[i] \in Seq(Lines)) /\ Continued(f, n)
    BY <1>1, <2>1, JoinedLines
  <2>6. \A i \in 1..n : s[i] \in Seq(Lines)
    BY <1>1
  <2>7. ASSUME Ascending(f[n]), NEW k \in 1..n
        PROVE  Ascending(s[k]) /\ \A j \in 1..n : j < k => Before(Range(s[j]), Range(s[k]))
    <3>1. PICK u \in Seq(Lines) : f[n] = f[k] \o u
      <4>1. n \in k..n
        BY <2>2
      <4> QED BY <2>5, <4>1 DEF Continued
    <3>2. PICK a \in Seq(Lines) : a = f[k]
      BY <2>5
    <3>3. Ascending(a)
      BY <2>7, <3>1, <3>2, AscendingJoin
    <3>4. f[k] = IF k = 1 THEN s[k] ELSE f[k - 1] \o s[k]
      BY <2>1 DEF JoinTable
    <3>5. CASE k = 1
      BY <3>2, <3>3, <3>4, <3>5
    <3>6. CASE k # 1
      <4>1. k - 1 \in 1..n /\ f[k] = f[k - 1] \o s[k]
        <5>1. k - 1 \in 1..n
          BY <3>6
        <5> QED BY <3>4, <3>6, <5>1, Zenon
      <4>2. PICK b \in Seq(Lines), c \in Seq(Lines) : b = f[k - 1] /\ c = s[k]
        BY <2>5, <2>6, <4>1
      <4>3. Ascending(c) /\ Before(Range(b), Range(c))
        BY <3>2, <3>3, <4>1, <4>2, AscendingJoin
      <4>4. ASSUME NEW j \in 1..n, j < k PROVE Range(s[j]) \subseteq Range(b)
        <5>1. j \in 1..(k - 1)
          BY <4>4
        <5>2. Range(b) = UNION {Range(s[i]) : i \in 1..(k - 1)}
          BY <2>4, <4>1, <4>2
        <5> QED BY <5>1, <5>2
      <4> QED BY <4>2, <4>3, <4>4 DEF Before
    <3> QED BY <3>5, <3>6
  <2>8. Range(f[n]) = UNION {Range(s[j]) : j \in 1..n}
    BY <2>2, <2>4
  <2>9. Ascending(f[n]) => InOrder(s)
    BY <1>1, <2>7 DEF InOrder
  <2> QED BY <1>1, <2>3, <2>8, <2>9
<1> QED BY <1>2, <1>3

\* What is added to the last of the joined sequences ends up at the end.
LEMMA FlattenLast ==
  ASSUME NEW s \in Seq(Seq(Lines)), s # <<>>, NEW t \in Seq(Seq(Lines)), Len(t) = Len(s),
         NEW h \in Seq(Lines), t[Len(s)] = s[Len(s)] \o h,
         \A i \in 1..(Len(s) - 1) : t[i] = s[i]
  PROVE  FlattenSeq(t) = FlattenSeq(s) \o h
<1>1. PICK T : T = Seq(Lines)
  OBVIOUS
<1>2. s \in Seq(T) /\ t \in Seq(T)
  BY <1>1
<1>3. PICK front \in Seq(T), x \in T : s = Append(front, x)
  <2>1. s \in Seq(T) /\ s # <<>>
    BY <1>2
  <2> QED BY ONLY <2>1, SequenceEmptyOrAppend
<1>4. PICK n \in Nat : n = Len(front)
  BY <1>3, LenProperties
<1>5. /\ Len(s) = n + 1 /\ s[n + 1] = x
      /\ \A i \in 1..n : s[i] = front[i]
  BY <1>3, <1>4, AppendProperties
<1>6. x \in Seq(Lines) /\ front \in Seq(Seq(Lines))
  BY <1>1, <1>3
<1>7. PICK y \in T : y = x \o h
  BY <1>1, <1>6, ConcatProperties
<1>8. /\ Append(front, y) \in Seq(T) /\ Len(Append(front, y)) = n + 1
      /\ Append(front, y)[n + 1] = y
      /\ \A i \in 1..n : Append(front, y)[i] = front[i]
  BY <1>3, <1>4, <1>7, AppendProperties
<1>9. ASSUME NEW i \in 1..(n + 1) PROVE t[i] = Append(front, y)[i]
  <2>1. CASE i = n + 1
    BY <1>5, <1>7, <1>8, <2>1
  <2>2. CASE i # n + 1
    <3>1. i \in 1..n /\ i \in 1..(Len(s) - 1)
      BY <1>5, <2>2
    <3> QED BY <1>5, <1>8, <3>1
  <2> QED BY <2>1, <2>2
<1>10. t = Append(front, y)
  <2>1. Len(t) = Len(Append(front, y)) /\ Len(t) = n + 1
    BY <1>5, <1>8
  <2> QED BY <1>2, <1>8, <1>9, <2>1, SeqEqual
<1>11. /\ FlattenSeq(s) = FlattenSeq(front) \o x /\ FlattenSeq(front) \in Seq(Lines)
       /\ FlattenSeq(t) = FlattenSeq(front) \o (x \o h)
  BY <1>1, <1>3, <1>6, <1>7, <1>10, FlattenAppend
<1>12. PICK z \in Seq(Lines) : z = FlattenSeq(front)
  BY <1>11
<1>13. (z \o x) \o h = z \o (x \o h)
  BY <1>6, Associative
<1> QED BY <1>11, <1>12, <1>13

-----------------------------------------------------------------------------
(* Periods.                                                                *)

\* A product grows with its factor.
LEMMA ProductGrows == \A k, x, y \in Nat : x <= y => k * x <= k * y
<1> TAKE k \in Nat, x \in Nat, y \in Nat
<1> HAVE x <= y
<1>1. PICK d \in Nat : y = x + d
  <2>1. y - x \in Nat /\ y = x + (y - x)
    OBVIOUS
  <2> QED BY <2>1
<1>2. k * (x + d) = k * x + k * d
  OBVIOUS
<1>3. k * d \in Nat /\ k * x \in Nat
  OBVIOUS
<1> QED BY <1>1, <1>2, <1>3

\* A later second is in the same period or in a later one.
LEMMA PeriodsPass ==
  ASSUME NEW a \in Nat, NEW b \in Nat, a <= b
  PROVE  Period(a) \in Nat /\ Period(b) \in Nat /\ Period(a) <= Period(b)
<1>1. PICK k \in Nat \ {0} : k = kRollPerSeconds_
  BY LogFileAssumption
<1>2. PICK q \in Nat : q = a \div k /\ k * q <= a
  OBVIOUS
<1>3. PICK p \in Nat : p = b \div k /\ b < k * (p + 1)
  OBVIOUS
<1>4. q <= p
  <2> SUFFICES ASSUME p + 1 <= q PROVE FALSE
    OBVIOUS
  <2>1. k * (p + 1) <= k * q
    <3>1. p + 1 \in Nat /\ k \in Nat
      OBVIOUS
    <3> QED BY <3>1, ProductGrows
  <2>2. k * (p + 1) \in Nat /\ k * q \in Nat
    OBVIOUS
  <2> QED BY <1>2, <1>3, <2>1, <2>2
<1>5. k * q <= k * p /\ k * q \in Nat /\ k * p \in Nat /\ q * k = k * q /\ p * k = k * p
  BY <1>4, ProductGrows
<1>6. Period(a) = q * k /\ Period(b) = p * k
  BY <1>1, <1>2, <1>3 DEF Period
<1> QED BY <1>5, <1>6

-----------------------------------------------------------------------------
(* Log files.                                                              *)

File == [name : Nat, disk : Seq(Lines), held : Seq(Lines), writtenBytes_ : Nat]
Output == [files : Seq(File), count_ : Nat, startOfPeriod_ : Nat, lastRoll_ : Nat,
           lastFlush_ : Nat]

\* Only the file that is open has lines that are not on disk.
OneOpen(fs) ==
  fs \in Seq(File) /\ fs # <<>> /\ \A i \in 1..(Len(fs) - 1) : fs[i].held = <<>>

\* Why the files before the open one were given up.
GivenUp(fs) ==
  \A i \in 1..(Len(fs) - 1) :
    /\ fs[i].name < fs[i + 1].name
    /\ fs[i].writtenBytes_ > rollSize_ \/ Period(fs[i].name) < Period(fs[i + 1].name)

\* The lines that files have taken, on disk or not.
Disks(fs) == [i \in DOMAIN fs |-> fs[i].disk]
Stored(fs) == FlattenSeq(Disks(fs)) \o fs[Len(fs)].held

\* A file has four members.
LEMMA FileMembers ==
  ASSUME NEW f \in File
  PROVE  f.name \in Nat /\ f.disk \in Seq(Lines) /\ f.held \in Seq(Lines) /\ f.writtenBytes_ \in Nat
BY DEF File

\* The lines on disk, file by file.
LEMMA DisksProperties ==
  ASSUME NEW fs \in Seq(File)
  PROVE  /\ Disks(fs) \in Seq(Seq(Lines)) /\ Len(Disks(fs)) = Len(fs)
         /\ \A i \in 1..Len(fs) : Disks(fs)[i] = fs[i].disk
<1>1. Len(fs) \in Nat /\ DOMAIN fs = 1..Len(fs)
  BY LenProperties
<1>2. \A i \in 1..Len(fs) : fs[i].disk \in Seq(Lines)
  BY ElementOfSeq, FileMembers
<1>3. PICK T : T = Seq(Lines)
  OBVIOUS
<1>4. Disks(fs) = [i \in 1..Len(fs) |-> fs[i].disk]
  BY <1>1 DEF Disks
<1>5. Disks(fs) \in Seq(T)
  BY <1>1, <1>2, <1>3, <1>4, IsASeq
<1>6. DOMAIN Disks(fs) = 1..Len(fs)
  BY <1>4
<1>7. Len(Disks(fs)) \in Nat /\ DOMAIN Disks(fs) = 1..Len(Disks(fs))
  BY <1>5, LenProperties
<1> QED BY <1>1, <1>3, <1>4, <1>5, <1>6, <1>7

\* The last file, and the lines of all.
LEMMA StoredLines ==
  ASSUME NEW fs, OneOpen(fs)
  PROVE  /\ Len(fs) \in Nat \ {0} /\ fs[Len(fs)] \in File
         /\ FlattenSeq(Disks(fs)) \in Seq(Lines) /\ Stored(fs) \in Seq(Lines)
<1>1. fs \in Seq(File) /\ fs # <<>>
  BY DEF OneOpen
<1>2. Len(fs) \in Nat \ {0}
  BY <1>1, EmptySeq
<1>3. fs[Len(fs)] \in File
  BY <1>1, <1>2, ElementOfSeq
<1>4. FlattenSeq(Disks(fs)) \in Seq(Lines)
  <2>1. Disks(fs) \in Seq(Seq(Lines)) /\ <<>> \in Seq(Lines)
    BY <1>1, DisksProperties
  <2> QED BY <2>1, FlattenAppend
<1>5. fs[Len(fs)].held \in Seq(Lines)
  BY <1>3, FileMembers
<1> QED BY <1>2, <1>3, <1>4, <1>5, ConcatProperties DEF Stored

\* fflush and fclose put the lines on disk, in order, and change nothing else.
LEMMA FlushedFiles ==
  ASSUME NEW fs, OneOpen(fs)
  PROVE  /\ OneOpen(Flushed(fs)) /\ Len(Flushed(fs)) = Len(fs)
         /\ \A i \in 1..Len(fs) : /\ Flushed(fs)[i].held = <<>>
                                  /\ Flushed(fs)[i].name = fs[i].name
                                  /\ Flushed(fs)[i].writtenBytes_ = fs[i].writtenBytes_
         /\ FlattenSeq(Disks(Flushed(fs))) = Stored(fs)
         /\ Stored(Flushed(fs)) = Stored(fs)
<1>1. /\ fs \in Seq(File) /\ fs # <<>> /\ Len(fs) \in Nat \ {0} /\ DOMAIN fs = 1..Len(fs)
      /\ \A i \in 1..(Len(fs) - 1) : fs[i].held = <<>>
      /\ \A i \in 1..Len(fs) : fs[i] \in File
  <2>1. fs \in Seq(File) /\ fs # <<>> /\ Len(fs) \in Nat \ {0}
    BY StoredLines DEF OneOpen
  <2> QED BY <2>1, LenProperties, ElementOfSeq DEF OneOpen
<1>2. PICK n \in Nat \ {0} : n = Len(fs)
  BY <1>1
<1>3. PICK g : g = Flushed(fs)
  OBVIOUS
<1>4. g = [i \in 1..n |-> [fs[i] EXCEPT !.disk = @ \o fs[i].held, !.held = <<>>]]
  BY <1>1, <1>2, <1>3 DEF Flushed
<1>5. ASSUME NEW i \in 1..n
      PROVE  /\ g[i] \in File /\ g[i].disk = fs[i].disk \o fs[i].held /\ g[i].held = <<>>
             /\ g[i].name = fs[i].name /\ g[i].writtenBytes_ = fs[i].writtenBytes_
  <2>1. PICK f \in File : f = fs[i]
    BY <1>1, <1>2
  <2>2. f.disk \o f.held \in Seq(Lines) /\ <<>> \in Seq(Lines)
    BY FileMembers, ConcatProperties
  <2>3. g[i] = [f EXCEPT !.disk = f.disk \o f.held, !.held = <<>>]
    BY <1>4, <2>1
  <2>4. PICK d \in Seq(Lines) : d = f.disk \o f.held
    BY <2>2
  <2>5. g[i] = [f EXCEPT !.disk = d, !.held = <<>>]
    BY <2>3, <2>4
  <2>6. /\ g[i] \in File /\ g[i].disk = d /\ g[i].held = <<>>
        /\ g[i].name = f.name /\ g[i].writtenBytes_ = f.writtenBytes_
    BY <2>2, <2>5 DEF File
  <2> QED BY <2>1, <2>4, <2>6
<1>6. g \in Seq(File) /\ Len(g) = n
  <2>1. DOMAIN g = 1..n
    BY <1>4
  <2>2. g \in [1..n -> File]
    BY <1>4, <1>5
  <2>3. g \in Seq(File)
    BY <2>2, SeqDef
  <2> QED BY <2>1, <2>3, LenProperties
<1>7. OneOpen(g)
  <2>1. g # <<>>
    BY <1>6, EmptySeq
  <2>2. \A i \in 1..(n - 1) : i \in 1..n
    OBVIOUS
  <2> QED BY <1>5, <1>6, <2>1, <2>2 DEF OneOpen
<1>8. FlattenSeq(Disks(g)) = Stored(fs)
  <2>1. PICK s \in Seq(Seq(Lines)) : /\ s = Disks(fs) /\ Len(s) = n
                                     /\ \A i \in 1..n : s[i] = fs[i].disk
    BY <1>1, <1>2, DisksProperties
  <2>2. PICK t \in Seq(Seq(Lines)) : /\ t = Disks(g) /\ Len(t) = n
                                     /\ \A i \in 1..n : t[i] = g[i].disk
    BY <1>6, DisksProperties
  <2>3. PICK h \in Seq(Lines) : h = fs[n].held
    BY <1>1, <1>2, FileMembers
  <2>4. n \in 1..n /\ t[n] = s[n] \o h
    <3>1. n \in 1..n
      OBVIOUS
    <3>2. g[n].disk = fs[n].disk \o fs[n].held
      BY <1>5, <3>1
    <3>3. t[n] = g[n].disk /\ s[n] = fs[n].disk
      BY <2>1, <2>2, <3>1
    <3> QED BY <2>3, <3>1, <3>2, <3>3, Zenon
  <2>5. ASSUME NEW i \in 1..(n - 1) PROVE t[i] = s[i]
    <3>1. i \in 1..n /\ fs[i].held = <<>> /\ fs[i].disk \in Seq(Lines)
      BY <1>1, <1>2, FileMembers
    <3>2. PICK d \in Seq(Lines) : d = fs[i].disk
      BY <3>1
    <3>3. d \o <<>> = d
      BY ConcatEmptySeq
    <3> QED BY <1>5, <2>1, <2>2, <3>1, <3>2, <3>3
  <2>6. s # <<>>
    BY <2>1, EmptySeq
  <2>7. FlattenSeq(t) = FlattenSeq(s) \o h
    <3>1. Len(t) = Len(s) /\ t[Len(s)] = s[Len(s)] \o h
      BY <2>1, <2>2, <2>4
    <3>2. \A i \in 1..(Len(s) - 1) : t[i] = s[i]
      BY <2>1, <2>5
    <3> QED BY ONLY <2>6, <3>1, <3>2, FlattenLast,
               s \in Seq(Seq(Lines)), t \in Seq(Seq(Lines)), h \in Seq(Lines)
  <2> QED BY <1>2, <2>1, <2>2, <2>3, <2>7 DEF Stored
<1>9. Stored(g) = Stored(fs)
  <2>1. g[Len(g)].held = <<>>
    <3>1. n \in 1..n
      OBVIOUS
    <3> QED BY <1>5, <1>6, <3>1, Zenon
  <2>2. Stored(fs) \in Seq(Lines)
    BY StoredLines
  <2>3. Stored(fs) \o <<>> = Stored(fs)
    BY <2>2, ConcatEmptySeq
  <2> QED BY <1>8, <2>1, <2>3 DEF Stored
<1> QED BY <1>2, <1>3, <1>5, <1>6, <1>7, <1>8, <1>9

\* The output at time t: the name of the open file is the time of the last exchange, whose
\* period LogFile remembers.
OutputInv(o, t) ==
  /\ o \in Output /\ OneOpen(o.files) /\ GivenUp(o.files)
  /\ o.lastRoll_ = o.files[Len(o.files)].name
  /\ o.startOfPeriod_ = Period(o.lastRoll_)
  /\ t \in Nat /\ o.lastRoll_ <= t

\* LogFile::flush.
LEMMA FlushedOutput ==
  ASSUME NEW o, NEW t, OutputInv(o, t)
  PROVE  /\ OutputInv(flush(o), t) /\ Stored(flush(o).files) = Stored(o.files)
         /\ FlattenSeq(Disks(flush(o).files)) = Stored(o.files)
         /\ flush(o).files[Len(flush(o).files)].held = <<>>
<1>1. /\ o \in Output /\ OneOpen(o.files) /\ GivenUp(o.files)
      /\ o.lastRoll_ = o.files[Len(o.files)].name
      /\ o.startOfPeriod_ = Period(o.lastRoll_) /\ t \in Nat /\ o.lastRoll_ <= t
  BY DEF OutputInv
<1>2. PICK fs : fs = o.files
  OBVIOUS
<1>3. PICK g : g = Flushed(fs)
  OBVIOUS
<1>4. PICK n \in Nat \ {0} : n = Len(fs)
  BY <1>1, <1>2, StoredLines
<1>5. /\ OneOpen(g) /\ Len(g) = n /\ FlattenSeq(Disks(g)) = Stored(fs) /\ Stored(g) = Stored(fs)
      /\ \A i \in 1..n : /\ g[i].held = <<>> /\ g[i].name = fs[i].name
                         /\ g[i].writtenBytes_ = fs[i].writtenBytes_
  BY <1>1, <1>2, <1>3, <1>4, FlushedFiles
<1>6. PICK p : p = flush(o)
  OBVIOUS
<1>7. /\ p \in Output /\ p.files = g /\ p.lastRoll_ = o.lastRoll_
      /\ p.startOfPeriod_ = o.startOfPeriod_
  <2>1. g \in Seq(File)
    BY <1>5 DEF OneOpen
  <2>2. p = [o EXCEPT !.files = g]
    BY <1>2, <1>3, <1>6 DEF flush
  <2> QED BY <1>1, <2>1, <2>2 DEF Output
<1>8. n \in 1..n /\ \A i \in 1..(n - 1) : i \in 1..n /\ i + 1 \in 1..n
  OBVIOUS
<1>9. GivenUp(g)
  BY <1>1, <1>2, <1>4, <1>5, <1>8 DEF GivenUp
<1>10. g[n].name = fs[n].name /\ g[n].held = <<>>
  BY <1>5, <1>8
<1>11. OutputInv(p, t)
  BY <1>1, <1>2, <1>4, <1>5, <1>7, <1>9, <1>10 DEF OutputInv
<1> QED BY <1>2, <1>5, <1>6, <1>7, <1>10, <1>11

\* A new file at the end holds no line.
LEMMA FileAdded ==
  ASSUME NEW g, OneOpen(g), NEW x \in File, x.disk = <<>>, x.held = <<>>,
         g[Len(g)].held = <<>>
  PROVE  /\ OneOpen(Append(g, x)) /\ Len(Append(g, x)) = Len(g) + 1
         /\ Append(g, x)[Len(g) + 1] = x
         /\ \A i \in 1..Len(g) : Append(g, x)[i] = g[i]
         /\ Stored(Append(g, x)) = Stored(g)
<1>0. PICK k : k = Append(g, x)
  OBVIOUS
<1>1. PICK n \in Nat \ {0} : n = Len(g)
  BY StoredLines
<1>2. g \in Seq(File) /\ \A i \in 1..(n - 1) : g[i].held = <<>>
  BY <1>1 DEF OneOpen
<1>3. /\ k \in Seq(File) /\ k # <<>> /\ Len(k) = n + 1 /\ k[n + 1] = x
      /\ \A i \in 1..n : k[i] = g[i]
  BY <1>0, <1>1, <1>2, AppendProperties
<1>4. \A i \in 1..n : g[i].held = <<>>
  <2>1. \A i \in 1..n : i \in 1..(n - 1) \/ i = n
    OBVIOUS
  <2> QED BY <1>1, <1>2, <2>1
<1>5. OneOpen(k)
  <2>1. (n + 1) - 1 = n
    OBVIOUS
  <2> QED BY <1>3, <1>4, <2>1 DEF OneOpen
<1>6. PICK T : T = Seq(Lines)
  OBVIOUS
<1>7. PICK s \in Seq(T) : s = Disks(g) /\ Len(s) = n /\ \A i \in 1..n : s[i] = g[i].disk
  BY <1>1, <1>2, <1>6, DisksProperties
<1>8. PICK e \in T : e = <<>>
  BY <1>6, EmptySeq
<1>9. PICK u \in Seq(T) : u = Disks(k) /\ Len(u) = n + 1 /\ \A i \in 1..(n + 1) : u[i] = k[i].disk
  BY <1>3, <1>6, DisksProperties
<1>10. /\ Append(s, e) \in Seq(T) /\ Len(Append(s, e)) = n + 1 /\ Append(s, e)[n + 1] = e
       /\ \A i \in 1..n : Append(s, e)[i] = s[i]
  BY <1>7, AppendProperties
<1>11. u = Append(s, e)
  <2>1. ASSUME NEW i \in 1..(n + 1) PROVE u[i] = Append(s, e)[i]
    <3>1. CASE i = n + 1
      <4>1. u[n + 1] = x.disk
        BY <1>3, <1>9
      <4> QED BY <1>8, <1>10, <3>1, <4>1
    <3>2. CASE i # n + 1
      <4>1. i \in 1..n
        BY <3>2
      <4> QED BY <1>3, <1>7, <1>9, <1>10, <4>1
    <3> QED BY <3>1, <3>2
  <2>2. Len(u) = Len(Append(s, e)) /\ Len(u) = n + 1
    BY <1>9, <1>10
  <2> QED BY <1>9, <1>10, <2>1, <2>2, SeqEqual
<1>12. /\ FlattenSeq(s) \in Seq(Lines) /\ FlattenSeq(u) = FlattenSeq(s) \o <<>>
       /\ FlattenSeq(s) \o <<>> = FlattenSeq(s)
  <2>1. s \in Seq(Seq(Lines)) /\ e \in Seq(Lines)
    BY <1>6
  <2>2. FlattenSeq(s) \in Seq(Lines) /\ FlattenSeq(Append(s, e)) = FlattenSeq(s) \o e
    BY <2>1, FlattenAppend
  <2> QED BY <1>8, <1>11, <2>2, ConcatEmptySeq
<1>13. Stored(k) = FlattenSeq(u) \o <<>> /\ Stored(g) = FlattenSeq(s) \o <<>>
  BY <1>1, <1>3, <1>7, <1>9 DEF Stored
<1> QED BY <1>0, <1>1, <1>3, <1>5, <1>12, <1>13

\* LogFile::rollFile, called when the file is over rollSize_ or its period is over.
LEMMA RolledOutput ==
  ASSUME NEW o, NEW t, OutputInv(o, t),
         o.files[Len(o.files)].writtenBytes_ > rollSize_ \/ Period(t) # o.startOfPeriod_
  PROVE  OutputInv(rollFile(o, t), t) /\ Stored(rollFile(o, t).files) = Stored(o.files)
<1>1. /\ o \in Output /\ OneOpen(o.files) /\ GivenUp(o.files)
      /\ o.lastRoll_ = o.files[Len(o.files)].name
      /\ o.startOfPeriod_ = Period(o.lastRoll_) /\ t \in Nat /\ o.lastRoll_ <= t
      /\ o.lastRoll_ \in Nat
  BY DEF OutputInv, Output
<1>2. CASE ~MayRoll(o, t)
  BY <1>2 DEF rollFile
<1>3. CASE MayRoll(o, t)
  <2>1. PICK fs : fs = o.files
    OBVIOUS
  <2>2. PICK g : g = Flushed(fs)
    OBVIOUS
  <2>3. PICK n \in Nat \ {0} : n = Len(fs)
    BY <1>1, <2>1, StoredLines
  <2>4. /\ OneOpen(g) /\ Len(g) = n /\ Stored(g) = Stored(fs)
        /\ \A i \in 1..n : /\ g[i].held = <<>> /\ g[i].name = fs[i].name
                           /\ g[i].writtenBytes_ = fs[i].writtenBytes_
    BY <1>1, <2>1, <2>2, <2>3, FlushedFiles
  <2>5. PICK x : x = NewAppendFile(t)
    OBVIOUS
  <2>6. x \in File /\ x.disk = <<>> /\ x.held = <<>> /\ x.name = t
    <3>1. <<>> \in Seq(Lines)
      BY EmptySeq
    <3> QED BY <1>1, <2>5, <3>1 DEF NewAppendFile, File
  <2>7. n \in 1..n /\ \A i \in 1..n : i \in 1..(n - 1) \/ i = n
    OBVIOUS
  <2>8. PICK k : k = Append(g, x)
    OBVIOUS
  <2>9. /\ OneOpen(k) /\ Len(k) = n + 1 /\ k[n + 1] = x
        /\ \A i \in 1..n : k[i] = g[i]
        /\ Stored(k) = Stored(fs)
    <3>1. g[Len(g)].held = <<>>
      BY <2>4, <2>7
    <3>2. OneOpen(g) /\ x \in File /\ x.disk = <<>> /\ x.held = <<>>
      BY <2>4, <2>6
    <3>3. /\ OneOpen(Append(g, x)) /\ Len(Append(g, x)) = Len(g) + 1
          /\ Append(g, x)[Len(g) + 1] = x
          /\ \A i \in 1..Len(g) : Append(g, x)[i] = g[i]
          /\ Stored(Append(g, x)) = Stored(g)
      BY ONLY <3>1, <3>2, FileAdded
    <3> QED BY <2>4, <2>8, <3>3
  <2>10. o.lastRoll_ < t /\ fs[n].name = o.lastRoll_
    BY <1>1, <1>3, <2>1, <2>3 DEF MayRoll
  <2>11. Period(t) # o.startOfPeriod_ => Period(fs[n].name) < Period(t)
    <3>1. /\ Period(o.lastRoll_) \in Nat /\ Period(t) \in Nat
          /\ Period(o.lastRoll_) <= Period(t)
      BY <1>1, PeriodsPass
    <3> QED BY <1>1, <2>10, <3>1
  <2>12. GivenUp(k)
    <3> SUFFICES ASSUME NEW i \in 1..n
                 PROVE  /\ k[i].name < k[i + 1].name
                        /\ \/ k[i].writtenBytes_ > rollSize_
                           \/ Period(k[i].name) < Period(k[i + 1].name)
      <4>1. Len(k) - 1 = n
        BY <2>9
      <4> QED BY <4>1 DEF GivenUp
    <3>1. k[i].name = fs[i].name /\ k[i].writtenBytes_ = fs[i].writtenBytes_
      BY <2>4, <2>9
    <3>2. CASE i = n
      <4>1. k[i + 1].name = t
        BY <2>6, <2>9, <3>2
      <4>2. fs[n].writtenBytes_ > rollSize_ \/ Period(fs[n].name) < Period(t)
        BY <2>1, <2>3, <2>11
      <4> QED BY <2>10, <3>1, <3>2, <4>1, <4>2
    <3>3. CASE i \in 1..(n - 1)
      <4>1. i + 1 \in 1..n
        BY <3>3
      <4>2. k[i + 1].name = fs[i + 1].name
        BY <2>4, <2>9, <4>1
      <4>3. /\ fs[i].name < fs[i + 1].name
            /\ fs[i].writtenBytes_ > rollSize_ \/ Period(fs[i].name) < Period(fs[i + 1].name)
        BY <1>1, <2>1, <2>3, <3>3 DEF GivenUp
      <4> QED BY <3>1, <4>2, <4>3
    <3> QED BY <2>7, <3>2, <3>3
  <2>13. PICK p : p = rollFile(o, t)
    OBVIOUS
  <2>14. /\ p \in Output /\ p.files = k /\ p.lastRoll_ = t /\ p.startOfPeriod_ = Period(t)
    <3>1. k \in Seq(File) /\ Period(t) \in Nat
      BY <1>1, <2>9, PeriodsPass DEF OneOpen
    <3>2. p = [o EXCEPT !.lastRoll_ = t, !.lastFlush_ = t, !.startOfPeriod_ = Period(t),
                        !.files = k]
      BY <1>3, <2>1, <2>2, <2>5, <2>8, <2>13 DEF rollFile
    <3> QED BY <1>1, <3>1, <3>2 DEF Output
  <2>15. OutputInv(p, t)
    <3>1. k[Len(k)].name = t
      BY <2>6, <2>9
    <3> QED BY <1>1, <2>9, <2>12, <2>14, <3>1 DEF OutputInv
  <2> QED BY <2>1, <2>9, <2>13, <2>14, <2>15
<1> QED BY <1>2, <1>3

\* AppendFile::append, which stdio took these lines of.
LEMMA WrittenOutput ==
  ASSUME NEW o, NEW t, OutputInv(o, t), NEW lines \in Seq(Lines), NEW len \in Nat
  PROVE  /\ OutputInv(Written(o, lines, len), t)
         /\ Stored(Written(o, lines, len).files) = Stored(o.files) \o lines
<1>1. /\ o \in Output /\ OneOpen(o.files) /\ GivenUp(o.files)
      /\ o.lastRoll_ = o.files[Len(o.files)].name
      /\ o.startOfPeriod_ = Period(o.lastRoll_) /\ t \in Nat /\ o.lastRoll_ <= t
  BY DEF OutputInv
<1>2. PICK fs : fs = o.files
  OBVIOUS
<1>3. PICK n \in Nat \ {0} : n = Len(fs)
  BY <1>1, <1>2, StoredLines
<1>4. /\ fs \in Seq(File) /\ fs[n] \in File /\ FlattenSeq(Disks(fs)) \in Seq(Lines)
      /\ \A i \in 1..(n - 1) : fs[i].held = <<>>
  BY <1>1, <1>2, <1>3, StoredLines DEF OneOpen
<1>5. PICK w : w = Written(o, lines, len)
  OBVIOUS
<1>6. PICK y : y = [fs[n] EXCEPT !.held = @ \o lines, !.writtenBytes_ = @ + len]
  OBVIOUS
<1>7. /\ y \in File /\ y.name = fs[n].name /\ y.disk = fs[n].disk
      /\ y.held = fs[n].held \o lines
  <2>1. PICK f \in File : f = fs[n]
    BY <1>4
  <2>2. PICK h \in Seq(Lines), b \in Nat : h = f.held \o lines /\ b = f.writtenBytes_ + len
    <3>1. f.held \o lines \in Seq(Lines) /\ f.writtenBytes_ + len \in Nat
      BY FileMembers, ConcatProperties
    <3> QED BY <3>1
  <2>3. y = [f EXCEPT !.held = h, !.writtenBytes_ = b]
    BY <1>6, <2>1, <2>2
  <2>4. y \in File /\ y.name = f.name /\ y.disk = f.disk /\ y.held = h
    BY <2>3 DEF File
  <2> QED BY <2>1, <2>2, <2>4
<1>8. PICK k : k = [fs EXCEPT ![n] = y]
  OBVIOUS
<1>9. /\ k \in Seq(File) /\ Len(k) = n /\ k[n] = y
      /\ \A i \in 1..(n - 1) : k[i] = fs[i]
  <2>1. n \in 1..Len(fs)
    BY <1>3
  <2>2. /\ k \in Seq(File) /\ Len(k) = Len(fs)
        /\ \A j \in 1..Len(fs) : k[j] = IF j = n THEN y ELSE fs[j]
    BY <1>4, <1>7, <1>8, <2>1, ExceptSeq
  <2>3. \A i \in 1..(n - 1) : i \in 1..n /\ i # n
    OBVIOUS
  <2> QED BY <1>3, <2>1, <2>2, <2>3
<1>10. w \in Output /\ w.files = k /\ w.lastRoll_ = o.lastRoll_ /\ w.startOfPeriod_ = o.startOfPeriod_
  <2>1. w = [o EXCEPT !.files = k]
    <3>1. w = [o EXCEPT !.files[n] = y]
      BY <1>2, <1>3, <1>5, <1>6 DEF Written
    <3> QED BY <1>2, <1>8, <3>1
  <2> QED BY <1>1, <1>9, <2>1 DEF Output
<1>11. OneOpen(k)
  <2>1. k # <<>>
    BY <1>9, EmptySeq
  <2> QED BY <1>4, <1>9, <2>1 DEF OneOpen
<1>12. GivenUp(k)
  <2> SUFFICES ASSUME NEW i \in 1..(n - 1)
               PROVE  /\ k[i].name < k[i + 1].name
                      /\ \/ k[i].writtenBytes_ > rollSize_
                         \/ Period(k[i].name) < Period(k[i + 1].name)
    BY <1>9 DEF GivenUp
  <2>1. k[i] = fs[i] /\ k[i + 1].name = fs[i + 1].name
    <3>1. i + 1 = n \/ i + 1 \in 1..(n - 1)
      OBVIOUS
    <3> QED BY <1>7, <1>9, <3>1
  <2>2. /\ fs[i].name < fs[i + 1].name
        /\ fs[i].writtenBytes_ > rollSize_ \/ Period(fs[i].name) < Period(fs[i + 1].name)
    BY <1>1, <1>2, <1>3 DEF GivenUp
  <2> QED BY <2>1, <2>2
<1>13. OutputInv(w, t)
  <2>1. k[Len(k)].name = fs[n].name
    BY <1>7, <1>9
  <2> QED BY <1>1, <1>2, <1>3, <1>10, <1>11, <1>12, <2>1 DEF OutputInv
<1>14. Disks(k) = Disks(fs)
  <2>1. PICK T : T = Seq(Lines)
    OBVIOUS
  <2>2. /\ Disks(k) \in Seq(T) /\ Len(Disks(k)) = n
        /\ \A i \in 1..n : Disks(k)[i] = k[i].disk
    BY <1>9, <2>1, DisksProperties
  <2>3. /\ Disks(fs) \in Seq(T) /\ Len(Disks(fs)) = n
        /\ \A i \in 1..n : Disks(fs)[i] = fs[i].disk
    BY <1>3, <1>4, <2>1, DisksProperties
  <2>4. \A i \in 1..n : k[i].disk = fs[i].disk
    <3>1. \A i \in 1..n : i = n \/ i \in 1..(n - 1)
      OBVIOUS
    <3> QED BY <1>7, <1>9, <3>1
  <2>5. \A i \in 1..n : Disks(k)[i] = Disks(fs)[i]
    BY <2>2, <2>3, <2>4
  <2> QED BY <2>2, <2>3, <2>5, SeqEqual
<1>15. Stored(k) = Stored(fs) \o lines
  <2>1. PICK d \in Seq(Lines), h \in Seq(Lines) : d = FlattenSeq(Disks(fs)) /\ h = fs[n].held
    BY <1>4, FileMembers
  <2>2. Stored(fs) = d \o h
    BY <1>3, <2>1 DEF Stored
  <2>3. Stored(k) = d \o (h \o lines)
    BY <1>7, <1>9, <1>14, <2>1 DEF Stored
  <2>4. (d \o h) \o lines = d \o (h \o lines)
    BY Associative
  <2> QED BY <2>2, <2>3, <2>4
<1> QED BY <1>2, <1>5, <1>10, <1>13, <1>15

\* A change to the counters of LogFile leaves its files alone.
LEMMA CountersOnly ==
  ASSUME NEW o, NEW t, OutputInv(o, t), NEW p \in Output, p.files = o.files,
         p.lastRoll_ = o.lastRoll_, p.startOfPeriod_ = o.startOfPeriod_
  PROVE  OutputInv(p, t) /\ Stored(p.files) = Stored(o.files)
  BY DEF OutputInv

\* LogFile::append_unlocked: whichever files are exchanged or flushed, what they hold
\* together is what they held and the lines stdio took.
LEMMA AppendedOutput ==
  ASSUME NEW o, NEW t, OutputInv(o, t), NEW lines \in Seq(Lines), NEW len \in Nat
  PROVE  /\ OutputInv(append_unlocked(o, lines, len, t), t)
         /\ Stored(append_unlocked(o, lines, len, t).files) = Stored(o.files) \o lines
<1>1. PICK w : w = Written(o, lines, len)
  OBVIOUS
<1>2. OutputInv(w, t) /\ Stored(w.files) = Stored(o.files) \o lines
  BY <1>1, WrittenOutput
<1>3. /\ w \in Output /\ w.count_ \in Nat /\ t \in Nat /\ OneOpen(w.files)
  BY <1>2 DEF OutputInv, Output
<1>4. PICK c \in Output : c = [w EXCEPT !.count_ = @ + 1]
  <2>1. PICK m \in Nat : m = w.count_ + 1
    BY <1>3
  <2>2. [w EXCEPT !.count_ = m] \in Output
    BY <1>3 DEF Output
  <2> QED BY <2>1, <2>2
<1>5. OutputInv(c, t) /\ Stored(c.files) = Stored(w.files)
  <2>1. c.files = w.files /\ c.lastRoll_ = w.lastRoll_ /\ c.startOfPeriod_ = w.startOfPeriod_
    BY <1>3, <1>4 DEF Output
  <2> QED BY <1>2, <2>1, CountersOnly
<1>6. PICK d \in Output : d = [w EXCEPT !.count_ = 0]
  BY <1>3 DEF Output
<1>7. /\ OutputInv(d, t) /\ Stored(d.files) = Stored(w.files)
      /\ d.files = w.files /\ d.startOfPeriod_ = w.startOfPeriod_
  <2>1. d.files = w.files /\ d.lastRoll_ = w.lastRoll_ /\ d.startOfPeriod_ = w.startOfPeriod_
    BY <1>3, <1>6 DEF Output
  <2> QED BY <1>2, <2>1, CountersOnly
<1>8. PICK e \in Output : e = [d EXCEPT !.lastFlush_ = t]
  BY <1>3 DEF Output
<1>9. OutputInv(e, t) /\ Stored(e.files) = Stored(w.files)
  <2>1. e.files = d.files /\ e.lastRoll_ = d.lastRoll_ /\ e.startOfPeriod_ = d.startOfPeriod_
    BY <1>8 DEF Output
  <2> QED BY <1>7, <2>1, CountersOnly
<1>10. PICK r : r = append_unlocked(o, lines, len, t)
  OBVIOUS
<1>11. r = IF Last(w.files).writtenBytes_ > rollSize_ THEN rollFile(w, t)
           ELSE IF c.count_ < checkEveryN_ THEN c
           ELSE IF Period(t) # w.startOfPeriod_ THEN rollFile(d, t)
           ELSE IF t - w.lastFlush_ > fileFlushInterval_ THEN flush(e)
           ELSE d
  BY <1>1, <1>4, <1>6, <1>8, <1>10, Zenon DEF append_unlocked
<1>12. Last(w.files) = w.files[Len(w.files)]
  BY DEF Last
<1>13. CASE r = rollFile(w, t) /\ w.files[Len(w.files)].writtenBytes_ > rollSize_
  BY <1>2, <1>10, <1>13, RolledOutput
<1>14. CASE r = rollFile(d, t) /\ Period(t) # d.startOfPeriod_
  <2>1. OutputInv(r, t) /\ Stored(r.files) = Stored(d.files)
    BY <1>7, <1>14, RolledOutput
  <2> QED BY <1>2, <1>7, <1>10, <2>1
<1>15. CASE r = c
  BY <1>2, <1>5, <1>10, <1>15
<1>16. CASE r = d
  BY <1>2, <1>7, <1>10, <1>16
<1>17. CASE r = flush(e)
  <2>1. OutputInv(r, t) /\ Stored(r.files) = Stored(e.files)
    BY <1>9, <1>17, FlushedOutput
  <2> QED BY <1>2, <1>9, <1>10, <2>1
<1> QED BY <1>7, <1>11, <1>12, <1>13, <1>14, <1>15, <1>16, <1>17

\* The first LogFile: the constructor's rollFile opens a file without a line.
LEMMA OpenedOutput ==
  ASSUME NEW t \in Nat \ {0}
  PROVE  /\ OutputInv(rollFile(Unopened, t), t) /\ Stored(rollFile(Unopened, t).files) = <<>>
         /\ rollFile(Unopened, t).files[Len(rollFile(Unopened, t).files)].held = <<>>
<1>1. PICK x : x = NewAppendFile(t)
  OBVIOUS
<1>2. x \in File /\ x.disk = <<>> /\ x.held = <<>> /\ x.name = t
  <2>1. <<>> \in Seq(Lines)
    BY EmptySeq
  <2> QED BY <1>1, <2>1 DEF NewAppendFile, File
<1>3. PICK k : k = <<x>>
  OBVIOUS
<1>4. k \in Seq(File) /\ Len(k) = 1 /\ k[1] = x /\ k # <<>>
  BY <1>2, <1>3
<1>5. Append(Flushed(<<>>), x) = k
  <2>1. Flushed(<<>>) = <<>>
    BY DEF Flushed
  <2>2. Append(<<>>, x) = <<x>>
    OBVIOUS
  <2> QED BY <1>3, <2>1, <2>2, Zenon
<1>6. PICK p : p = rollFile(Unopened, t)
  OBVIOUS
<1>7. p = [files |-> k, count_ |-> 0, startOfPeriod_ |-> Period(t), lastRoll_ |-> t, lastFlush_ |-> t]
  <2>1. MayRoll(Unopened, t)
    BY DEF MayRoll, Unopened
  <2>2. p = [Unopened EXCEPT !.lastRoll_ = t, !.lastFlush_ = t, !.startOfPeriod_ = Period(t),
                             !.files = Append(Flushed(Unopened.files), x)]
    BY <1>1, <1>6, <2>1 DEF rollFile
  <2>3. Unopened.files = <<>>
    BY DEF Unopened
  <2>4. p = [Unopened EXCEPT !.lastRoll_ = t, !.lastFlush_ = t, !.startOfPeriod_ = Period(t),
                             !.files = k]
    BY <1>5, <2>2, <2>3
  <2> QED BY <2>4 DEF Unopened
<1>8. Period(t) \in Nat
  BY PeriodsPass
<1>9. OutputInv(p, t)
  <2>1. p \in Output
    BY <1>4, <1>7, <1>8 DEF Output
  <2>2. OneOpen(k) /\ GivenUp(k)
    BY <1>4 DEF OneOpen, GivenUp
  <2>3. p.files = k /\ p.lastRoll_ = t /\ p.startOfPeriod_ = Period(t) /\ k[Len(k)].name = t
    BY <1>2, <1>4, <1>7
  <2> QED BY <2>1, <2>2, <2>3 DEF OutputInv
<1>10. Stored(k) = <<>>
  <2>1. PICK T : T = Seq(Lines)
    OBVIOUS
  <2>2. PICK s \in Seq(T) : s = Disks(k) /\ Len(s) = 1 /\ s[1] = <<>>
    BY <1>2, <1>4, <2>1, DisksProperties
  <2>3. PICK z \in Seq(T) : z = <<>>
    BY EmptySeq
  <2>4. PICK e \in T : e = <<>>
    BY <2>1, EmptySeq
  <2>5. s = Append(z, e)
    BY <2>2, <2>3, <2>4
  <2>6. z \in Seq(Seq(Lines)) /\ e \in Seq(Lines)
    BY <2>1
  <2>7. FlattenSeq(s) = FlattenSeq(z) \o e
    BY <2>5, <2>6, FlattenAppend
  <2>8. FlattenSeq(z) = <<>>
    BY <2>3 DEF FlattenSeq
  <2> QED BY <1>2, <1>4, <2>2, <2>4, <2>7, <2>8 DEF Stored
<1>11. p.files = k /\ k[Len(k)].held = <<>>
  BY <1>2, <1>4, <1>7
<1> QED BY <1>6, <1>9, <1>10, <1>11

-----------------------------------------------------------------------------
(* The lines of a round.                                                   *)

\* The buffers to be written are in order, after the file.
LEMMA ToWriteInOrder ==
  ASSUME LoggerInv, tpc = "write", NEW bs, bs = buffersToWrite
  PROVE  /\ bs \in Seq(Buffer) /\ Len(bs) \in Nat
         /\ \A i \in 1..Len(bs) :
              /\ bs[i].lines \in Seq(Lines) /\ bs[i].length \in Nat
              /\ Ascending(bs[i].lines) /\ Before(Range(file), Range(bs[i].lines))
              /\ \A j \in 1..Len(bs) : j < i => Before(Range(bs[j].lines), Range(bs[i].lines))
<1>1. BufferTypes /\ file \in Seq(Lines) /\ Ascending(file \o InFlight) /\ bs \in Seq(Buffer)
  BY DEF LoggerInv, LinesInv, Accounts, BufferTypes
<1>2. PICK n \in Nat : n = Len(bs)
  BY <1>1
<1>3. PICK f \in Seq(Lines), w \in Seq(Lines), c \in Seq(Lines), l \in Seq(Lines), a \in Seq(Lines) :
          /\ f = file /\ w = Content(bs) /\ a = InFlight /\ a = (w \o c) \o l
  <2>1. Writing = Content(bs)
    BY DEF Writing
  <2> QED BY <1>1, <2>1, InFlightParts
<1>4. PICK v \in Seq(Lines) : v = w \o c
  BY ConcatProperties
<1>5. Ascending(a) /\ Before(Range(f), Range(a))
  BY <1>1, <1>3, AscendingJoin
<1>6. Ascending(v)
  <2>1. Ascending(v \o l)
    BY <1>3, <1>4, <1>5
  <2> QED BY <2>1, AscendingJoin
<1>7. Ascending(w)
  BY <1>4, <1>6, AscendingJoin
<1>8. Range(w) \subseteq Range(a)
  <2>1. Range(w \o c) = Range(w) \union Range(c)
    BY RangeConcatenation
  <2>2. Range(v \o l) = Range(v) \union Range(l)
    BY RangeConcatenation
  <2> QED BY <1>3, <1>4, <2>1, <2>2
<1>9. PICK T : T = Seq(Lines)
  OBVIOUS
<1>10. PICK s \in Seq(T) : s = LinesOf(bs) /\ Len(s) = n /\ \A i \in 1..n : s[i] = bs[i].lines
  BY <1>1, <1>2, <1>9, LinesOfProperties
<1>11. w = FlattenSeq(s)
  BY <1>3, <1>10 DEF Content, LinesOf
<1>12. Range(w) = UNION {Range(s[j]) : j \in 1..n} /\ InOrder(s)
  <2>1. s \in Seq(Seq(Lines))
    BY <1>9
  <2>2. /\ Range(FlattenSeq(s)) = UNION {Range(s[j]) : j \in 1..Len(s)}
        /\ Ascending(FlattenSeq(s)) => InOrder(s)
    BY <2>1, FlattenParts
  <2> QED BY <1>7, <1>10, <1>11, <2>2
<1>13. ASSUME NEW i \in 1..n
       PROVE  /\ bs[i].lines \in Seq(Lines) /\ bs[i].length \in Nat
              /\ Ascending(bs[i].lines) /\ Before(Range(file), Range(bs[i].lines))
              /\ \A j \in 1..n : j < i => Before(Range(bs[j].lines), Range(bs[i].lines))
  <2>1. bs[i] \in Buffer
    BY <1>1, <1>2, ElementOfSeq
  <2>2. bs[i].lines \in Seq(Lines) /\ bs[i].length \in Nat
    BY <2>1 DEF Buffer
  <2>3. /\ Ascending(s[i])
        /\ \A j \in 1..n : j < i => Before(Range(s[j]), Range(s[i]))
    BY <1>10, <1>12 DEF InOrder
  <2>4. Range(s[i]) \subseteq Range(a)
    BY <1>8, <1>12
  <2>5. Before(Range(f), Range(s[i]))
    BY <1>5, <2>4 DEF Before
  <2> QED BY <1>3, <1>10, <2>2, <2>3, <2>5
<1> QED BY <1>1, <1>2, <1>13

\* The pieces of a round: the buffers or, after a cut, the notice and the first two.
LEMMA PiecesOf ==
  ASSUME NEW bs \in Seq(Buffer), bs = buffersToWrite, NEW ps, ps = Pieces
  PROVE  \/ ~Cut /\ ps = bs
         \/ /\ Cut /\ Len(bs) >= 2 /\ Len(ps) = 3
            /\ ps[1] = [lines |-> <<>>, length |-> NoticeLength] /\ ps[2] = bs[1] /\ ps[3] = bs[2]
<1>1. CASE ~Cut
  BY <1>1 DEF Pieces
<1>2. CASE Cut
  <2>1. PICK n \in Nat : n = Len(bs) /\ n >= 2
    BY <1>2 DEF Cut
  <2>2. PICK x : x = [lines |-> <<>>, length |-> NoticeLength]
    OBVIOUS
  <2>3. PICK T : T = Buffer \union {x}
    OBVIOUS
  <2>4. PICK cs \in Seq(T) : cs = SubSeq(bs, 1, 2) /\ Len(cs) = 2 /\ cs[1] = bs[1] /\ cs[2] = bs[2]
    <3>1. \A i \in 1..2 : bs[i] \in T
      <4>1. \A i \in 1..2 : bs[i] \in Buffer
        BY <2>1, ElementOfSeq
      <4> QED BY <2>3, <4>1
    <3>2. /\ SubSeq(bs, 1, 2) \in Seq(T)
          /\ \A i \in 1..2 : SubSeq(bs, 1, 2)[i] = bs[i]
      BY <2>1, <3>1
    <3>3. Len(SubSeq(bs, 1, 2)) = 2
      BY <2>1, <3>1
    <3>4. SubSeq(bs, 1, 2)[1] = bs[1] /\ SubSeq(bs, 1, 2)[2] = bs[2]
      BY <3>2
    <3> QED BY <3>2, <3>3, <3>4
  <2>5. PICK d \in Seq(T) : d = <<x>> /\ Len(d) = 1 /\ d[1] = x
    <3>1. x \in T
      BY <2>3
    <3>2. <<x>> \in Seq(T) /\ Len(<<x>>) = 1 /\ <<x>>[1] = x
      BY <3>1
    <3> QED BY <3>2
  <2>6. /\ ps = d \o cs
        /\ Len(ps) = 3 /\ ps[1] = x /\ ps[2] = cs[1] /\ ps[3] = cs[2]
    <3>1. ps = d \o cs
      BY <1>2, <2>2, <2>4, <2>5, Zenon DEF Pieces
    <3>2. /\ Len(d \o cs) = Len(d) + Len(cs)
          /\ \A i \in 1..(Len(d) + Len(cs)) :
               (d \o cs)[i] = IF i <= Len(d) THEN d[i] ELSE cs[i - Len(d)]
      BY ConcatProperties
    <3> QED BY <2>4, <2>5, <3>1, <3>2
  <2> QED BY <1>2, <2>1, <2>2, <2>4, <2>6
<1> QED BY <1>1, <1>2

\* The pieces are in order, after the file.
LEMMA PiecesInOrder ==
  ASSUME LoggerInv, tpc = "write", NEW ps, ps = Pieces
  PROVE  /\ Len(ps) \in Nat
         /\ \A i \in 1..Len(ps) :
              /\ ps[i].lines \in Seq(Lines) /\ ps[i].length \in Nat
              /\ Ascending(ps[i].lines) /\ Before(Range(file), Range(ps[i].lines))
              /\ \A j \in 1..Len(ps) : j < i => Before(Range(ps[j].lines), Range(ps[i].lines))
<1>1. PICK bs : bs = buffersToWrite
  OBVIOUS
<1>2. /\ bs \in Seq(Buffer) /\ Len(bs) \in Nat
      /\ \A i \in 1..Len(bs) :
           /\ bs[i].lines \in Seq(Lines) /\ bs[i].length \in Nat
           /\ Ascending(bs[i].lines) /\ Before(Range(file), Range(bs[i].lines))
           /\ \A j \in 1..Len(bs) : j < i => Before(Range(bs[j].lines), Range(bs[i].lines))
  BY <1>1, ToWriteInOrder
<1>3. CASE ps = bs
  BY <1>2, <1>3
<1>4. CASE /\ Len(bs) >= 2 /\ Len(ps) = 3
           /\ ps[1] = [lines |-> <<>>, length |-> NoticeLength] /\ ps[2] = bs[1] /\ ps[3] = bs[2]
  <2>1. 1 \in 1..Len(bs) /\ 2 \in 1..Len(bs)
    BY <1>2, <1>4
  <2>2. /\ ps[1].lines = <<>> /\ ps[1].length \in Nat
        /\ ps[1].lines \in Seq(Lines) /\ Ascending(ps[1].lines) /\ Range(ps[1].lines) = {}
    BY <1>4, LogFileAssumption, EmptySeq DEF Ascending, Range, LogFileAssumption
  <2>3. \A X : Before(X, {}) /\ Before({}, X)
    BY DEF Before
  <2>4. /\ ps[2].lines \in Seq(Lines) /\ ps[2].length \in Nat
        /\ Ascending(ps[2].lines) /\ Before(Range(file), Range(ps[2].lines))
    BY <1>2, <1>4, <2>1
  <2>5. /\ ps[3].lines \in Seq(Lines) /\ ps[3].length \in Nat
        /\ Ascending(ps[3].lines) /\ Before(Range(file), Range(ps[3].lines))
        /\ Before(Range(ps[2].lines), Range(ps[3].lines))
    BY <1>2, <1>4, <2>1
  <2>6. \A i \in 1..3 : i = 1 \/ i = 2 \/ i = 3
    OBVIOUS
  <2>7. ASSUME NEW i \in 1..3
        PROVE  /\ ps[i].lines \in Seq(Lines) /\ ps[i].length \in Nat
               /\ Ascending(ps[i].lines) /\ Before(Range(file), Range(ps[i].lines))
               /\ \A j \in 1..3 : j < i => Before(Range(ps[j].lines), Range(ps[i].lines))
    <3>1. CASE i = 1
      <4>1. \A j \in 1..3 : ~(j < 1)
        OBVIOUS
      <4> QED BY <2>2, <2>3, <3>1, <4>1
    <3>2. CASE i = 2
      <4>1. \A j \in 1..3 : j < 2 => j = 1
        OBVIOUS
      <4> QED BY <2>2, <2>3, <2>4, <3>2, <4>1
    <3>3. CASE i = 3
      <4>1. \A j \in 1..3 : j < 3 => j = 1 \/ j = 2
        OBVIOUS
      <4> QED BY <2>2, <2>3, <2>5, <3>3, <4>1
    <3> QED BY <2>6, <3>1, <3>2, <3>3
  <2>8. Len(ps) = 3 /\ 3 \in Nat
    BY <1>4
  <2> QED BY <2>7, <2>8
<1> QED BY <1>1, <1>2, <1>3, <1>4, PiecesOf

\* Together they hold what WriteBuffers adds to the file.
LEMMA PiecesContent ==
  ASSUME LoggerInv, tpc = "write", WriteBuffers, NEW ps, ps = Pieces
  PROVE  Range(file') = Range(file) \union UNION {Range(ps[j].lines) : j \in 1..Len(ps)}
<1>1. PICK bs : bs = buffersToWrite
  OBVIOUS
<1>2. bs \in Seq(Buffer) /\ Len(bs) \in Nat /\ file \in Seq(Lines)
  BY <1>1, ToWriteInOrder DEF LoggerInv, LinesInv
<1>3. PICK kept \in Seq(Buffer) :
          /\ file' = file \o Content(kept)
          /\ kept = IF Cut THEN SubSeq(bs, 1, 2) ELSE bs
  <2>1. file' = file \o Content(IF Cut THEN SubSeq(bs, 1, 2) ELSE bs)
    BY <1>1, Zenon DEF WriteBuffers, Cut
  <2>2. (IF Cut THEN SubSeq(bs, 1, 2) ELSE bs) \in Seq(Buffer)
    <3>1. Cut => SubSeq(bs, 1, 2) \in Seq(Buffer)
      <4> SUFFICES ASSUME Cut PROVE SubSeq(bs, 1, 2) \in Seq(Buffer)
        OBVIOUS
      <4>1. Len(bs) >= 2
        BY <1>1, <1>2 DEF Cut
      <4>2. \A i \in 1..2 : bs[i] \in Buffer
        BY <1>2, <4>1, ElementOfSeq
      <4> QED BY <1>2, <4>1, <4>2, SubSeqProperties
    <3> QED BY <1>2, <3>1
  <2> QED BY <2>1, <2>2
<1>4. PICK T : T = Seq(Lines)
  OBVIOUS
<1>5. PICK s \in Seq(T) : s = LinesOf(kept) /\ Len(s) = Len(kept)
                          /\ \A i \in 1..Len(kept) : s[i] = kept[i].lines
  BY <1>4, LinesOfProperties
<1>6. /\ Content(kept) \in Seq(Lines)
      /\ Range(Content(kept)) = UNION {Range(s[j]) : j \in 1..Len(s)}
  <2>1. s \in Seq(Seq(Lines)) /\ <<>> \in Seq(Lines)
    BY <1>4, EmptySeq
  <2>2. /\ Range(FlattenSeq(s)) = UNION {Range(s[j]) : j \in 1..Len(s)}
        /\ FlattenSeq(s) \in Seq(Lines)
    BY <2>1, FlattenParts, FlattenAppend
  <2>3. Content(kept) = FlattenSeq(s)
    BY <1>5 DEF Content, LinesOf
  <2> QED BY <2>2, <2>3
<1>7. UNION {Range(s[j]) : j \in 1..Len(s)} = UNION {Range(ps[j].lines) : j \in 1..Len(ps)}
  <2>1. CASE ~Cut /\ ps = bs
    BY <1>3, <1>5, <2>1
  <2>2. CASE /\ Cut /\ Len(bs) >= 2 /\ Len(ps) = 3
             /\ ps[1] = [lines |-> <<>>, length |-> NoticeLength] /\ ps[2] = bs[1] /\ ps[3] = bs[2]
    <3>1. Len(kept) = 2 /\ kept[1] = bs[1] /\ kept[2] = bs[2]
      BY <1>2, <1>3, <2>2
    <3>2. Len(s) = 2 /\ s[1] = bs[1].lines /\ s[2] = bs[2].lines
      BY <1>5, <3>1
    <3>3. Range(ps[1].lines) = {} /\ ps[2].lines = s[1] /\ ps[3].lines = s[2]
      BY <2>2, <3>2 DEF Range
    <3>4. 1..2 = {1, 2} /\ 1..3 = {1, 2, 3}
      OBVIOUS
    <3>5. UNION {Range(s[j]) : j \in 1..Len(s)} = Range(s[1]) \union Range(s[2])
      BY <3>2, <3>4
    <3>6. UNION {Range(ps[j].lines) : j \in 1..Len(ps)}
            = Range(ps[1].lines) \union Range(ps[2].lines) \union Range(ps[3].lines)
      BY <2>2, <3>4
    <3> QED BY <3>3, <3>5, <3>6
  <2> QED BY <1>1, <1>2, <2>1, <2>2, PiecesOf
<1>8. Range(file \o Content(kept)) = Range(file) \union Range(Content(kept))
  BY <1>2, <1>6, RangeConcatenation
<1> QED BY <1>3, <1>6, <1>7, <1>8

-----------------------------------------------------------------------------
(* Lines on disk.                                                          *)

\* The lines of the pieces of this round that were appended to the file.
RoundDone ==
  IF tpc = "write" THEN UNION {Range(Pieces[j].lines) : j \in 1..written} ELSE {}

\* The lines whose write was tried.
Tried == Range(file) \union RoundDone

\* The files hold, in order, the lines whose write was tried, but for those of which a
\* short write took nothing; after the flush that ends a round they are on disk.
FilesInv ==
  /\ now \in Nat \ {0} /\ written \in Nat /\ (tpc # "write" => written = 0)
  /\ tpc \in {"unborn", "begin"} => output = Unopened /\ lost = {} /\ torn = {} /\ file = <<>>
  /\ tpc \notin {"unborn", "begin"} =>
       /\ OutputInv(output, now) /\ Ascending(Stored(output.files))
       /\ Range(Stored(output.files)) = (Tried \ lost) \union torn
       /\ torn \subseteq lost /\ lost \subseteq Tried
  /\ tpc \notin {"unborn", "begin", "write", "recycle"} =>
       output.files[Len(output.files)].held = <<>>

\* What FilesInv says once the logging thread has a file.
LEMMA FilesParts ==
  ASSUME FilesInv, tpc \notin {"unborn", "begin"}
  PROVE  /\ now \in Nat \ {0} /\ written \in Nat
         /\ OutputInv(output, now) /\ OneOpen(output.files)
         /\ Stored(output.files) \in Seq(Lines) /\ Ascending(Stored(output.files))
         /\ Range(Stored(output.files)) = (Tried \ lost) \union torn
       /\ torn \subseteq lost /\ lost \subseteq Tried
<1>1. OutputInv(output, now) /\ OneOpen(output.files)
  BY DEF FilesInv, OutputInv
<1>2. Stored(output.files) \in Seq(Lines)
  BY <1>1, StoredLines
<1> QED BY <1>1, <1>2 DEF FilesInv

\* The pieces of this round, while nobody changes the buffers to be written.
LEMMA RoundKept ==
  ASSUME UNCHANGED <<tpc, file, buffersToWrite, written>>
  PROVE  Pieces' = Pieces /\ RoundDone' = RoundDone /\ Tried' = Tried
<1>1. Pieces' = Pieces
  BY DEF Pieces, Cut
<1> QED BY <1>1, Zenon DEF RoundDone, Tried

\* Steps that neither touch the file nor begin or end a round.
LEMMA FilesUnchanged ==
  ASSUME FilesInv, UNCHANGED <<tpc, file, buffersToWrite, logVars>>
  PROVE  FilesInv'
<1>1. UNCHANGED <<tpc, file, buffersToWrite, written, now, output, lost, torn>>
  BY DEF logVars
<1>2. Tried' = Tried
  BY <1>1, RoundKept
<1> QED BY <1>1, <1>2 DEF FilesInv

\* Steps of the logging thread between its rounds.
LEMMA FilesBetween ==
  ASSUME FilesInv, UNCHANGED <<file, logVars>>,
         tpc \in {"while", "lock", "wait"}, tpc' \in {"lock", "wait", "write", "done"}
  PROVE  FilesInv'
<1>1. UNCHANGED <<file, written, now, output, lost, torn>> /\ written = 0
  BY DEF logVars, FilesInv
<1>2. RoundDone = {} /\ RoundDone' = {}
  <2>1. RoundDone = {}
    BY DEF RoundDone
  <2>2. UNION {Range(Pieces'[j].lines) : j \in 1..written'} = {}
    <3>1. 1..written' = {}
      BY <1>1
    <3> QED BY <3>1
  <2>3. RoundDone' = {}
    BY <2>2, Zenon DEF RoundDone
  <2> QED BY <2>1, <2>3
<1>3. Tried' = Tried
  BY <1>1, <1>2 DEF Tried
<1> QED BY <1>1, <1>3 DEF FilesInv

\* The constructor of LogFile.
LEMMA OpenOutputFiles ==
  ASSUME FilesInv, OpenOutput
  PROVE  FilesInv'
<1>1. /\ tpc = "begin" /\ tpc' = "while" /\ UNCHANGED <<file, now, written, lost, torn>>
      /\ output' = rollFile(Unopened, now)
  BY DEF OpenOutput, ThreadBegins, history
<1>2. now \in Nat \ {0} /\ written \in Nat /\ written = 0 /\ lost = {} /\ torn = {} /\ file = <<>>
  BY <1>1 DEF FilesInv
<1>3. /\ OutputInv(output', now) /\ Stored(output'.files) = <<>>
      /\ output'.files[Len(output'.files)].held = <<>>
  BY <1>1, <1>2, OpenedOutput
<1>4. Tried' = {}
  <2>1. Range(<<>>) = {}
    BY DEF Range
  <2>2. RoundDone' = {}
    BY <1>1 DEF RoundDone
  <2> QED BY <1>1, <1>2, <2>1, <2>2 DEF Tried
<1>5. Range(<<>>) = {} /\ Ascending(<<>>)
  BY DEF Range, Ascending
<1> QED BY <1>1, <1>2, <1>3, <1>4, <1>5 DEF FilesInv

\* The next piece of a round: its lines follow whatever was tried before.
LEMMA NextPiece ==
  ASSUME LoggerInv, FilesInv, tpc = "write", written < Len(Pieces), written' = written + 1,
         UNCHANGED <<tpc, file, buffersToWrite>>
  PROVE  \E l \in Seq(Lines), len \in Nat :
           /\ l = Pieces[written + 1].lines /\ len = Pieces[written + 1].length
           /\ Ascending(l) /\ Before(Tried, Range(l)) /\ Tried \intersect Range(l) = {}
           /\ Tried' = Tried \union Range(l)
<1>2. PICK ps : ps = Pieces
  OBVIOUS
<1>3. Pieces' = ps
  BY <1>2 DEF Pieces, Cut
<1>4. written \in Nat
  BY DEF FilesInv
<1>5. PICK m \in Nat \ {0} : m = written + 1
  BY <1>4
<1>6. /\ Len(ps) \in Nat
      /\ \A i \in 1..Len(ps) :
           /\ ps[i].lines \in Seq(Lines) /\ ps[i].length \in Nat
           /\ Ascending(ps[i].lines) /\ Before(Range(file), Range(ps[i].lines))
           /\ \A j \in 1..Len(ps) : j < i => Before(Range(ps[j].lines), Range(ps[i].lines))
  BY <1>2, PiecesInOrder
<1>7. m \in 1..Len(ps) /\ \A j \in 1..written : j \in 1..Len(ps) /\ j < m
  BY <1>2, <1>4, <1>5, <1>6
<1>8. PICK l \in Seq(Lines), len \in Nat :
          /\ l = ps[m].lines /\ len = ps[m].length
          /\ Ascending(l) /\ Before(Range(file), Range(l))
          /\ \A j \in 1..written : Before(Range(ps[j].lines), Range(l))
  BY <1>6, <1>7
<1>10. PICK D : D = UNION {Range(ps[j].lines) : j \in 1..written}
  OBVIOUS
<1>11. Tried = Range(file) \union D /\ Tried' = (Range(file) \union D) \union Range(l)
  <2>1. RoundDone = D
    BY <1>2, <1>10 DEF RoundDone
  <2>2. RoundDone' = UNION {Range(ps[j].lines) : j \in 1..m}
    BY <1>3, <1>5, Zenon DEF RoundDone
  <2>3. \A j : j \in 1..m <=> j \in 1..written \/ j = m
    BY <1>4, <1>5
  <2>4. UNION {Range(ps[j].lines) : j \in 1..m} = D \union Range(l)
    BY <1>8, <1>10, <2>3
  <2> QED BY <2>1, <2>2, <2>4 DEF Tried
<1>12. Before(Tried, Range(l))
  <2>1. Before(D, Range(l))
    BY <1>8, <1>10 DEF Before
  <2> QED BY <1>8, <1>11, <2>1 DEF Before
<1>13. Tried \intersect Range(l) = {}
  <2>1. \A x \in Range(l) : x \in Nat
    BY RangeBy DEF Lines
  <2>2. \A x \in Nat : ~(x < x)
    OBVIOUS
  <2> QED BY <1>12, <2>1, <2>2 DEF Before
<1> QED BY <1>2, <1>5, <1>8, <1>11, <1>12, <1>13

\* What the files hold after an append that stdio took these lines of.
LEMMA TakenFiles ==
  ASSUME FilesInv, tpc = "write", NEW l, Before(Tried, Range(l)),
         NEW taken \in Seq(Lines), Ascending(taken), Range(taken) \subseteq Range(l),
         NEW len \in Nat, output' = append_unlocked(output, taken, len, now)
  PROVE  /\ OutputInv(output', now) /\ Ascending(Stored(output'.files))
         /\ Range(Stored(output'.files))
              = ((Tried \ lost) \union torn) \union Range(taken)
         /\ torn \subseteq lost /\ lost \subseteq Tried
<1>1. /\ now \in Nat \ {0} /\ OutputInv(output, now)
      /\ Stored(output.files) \in Seq(Lines) /\ Ascending(Stored(output.files))
      /\ Range(Stored(output.files)) = (Tried \ lost) \union torn
      /\ torn \subseteq lost /\ lost \subseteq Tried
  BY FilesParts
<1>2. PICK st \in Seq(Lines) : st = Stored(output.files)
  BY <1>1
<1>3. OutputInv(output', now) /\ Stored(output'.files) = st \o taken
  BY <1>1, <1>2, AppendedOutput
<1>4. Range(st \o taken) = Range(st) \union Range(taken)
  BY RangeConcatenation
<1>5. Before(Range(st), Range(taken))
  BY <1>1, <1>2 DEF Before
<1>6. Ascending(st \o taken)
  BY <1>1, <1>2, <1>5, AscendingJoin
<1> QED BY <1>1, <1>2, <1>3, <1>4, <1>6

\* One append of a round.
LEMMA WritePieceFiles ==
  ASSUME LoggerInv, FilesInv, WritePiece
  PROVE  FilesInv'
<1>1. /\ tpc = "write" /\ written < Len(Pieces) /\ written' = written + 1
      /\ UNCHANGED <<tpc, file, buffersToWrite, now, lost, torn>>
  BY DEF WritePiece, vars, locals, history
<1>2. PICK l \in Seq(Lines), len \in Nat :
           /\ l = Pieces[written + 1].lines /\ len = Pieces[written + 1].length
           /\ Ascending(l) /\ Before(Tried, Range(l)) /\ Tried \intersect Range(l) = {}
           /\ Tried' = Tried \union Range(l)
  BY <1>1, NextPiece
<1>3. output' = append_unlocked(output, l, len, now)
  BY <1>2 DEF WritePiece
<1>4. /\ OutputInv(output', now) /\ Ascending(Stored(output'.files))
      /\ Range(Stored(output'.files)) = ((Tried \ lost) \union torn) \union Range(l)
      /\ torn \subseteq lost /\ lost \subseteq Tried
  BY <1>1, <1>2, <1>3, TakenFiles
<1>5. now \in Nat \ {0} /\ written \in Nat
  BY DEF FilesInv
<1>6. Range(Stored(output'.files)) = (Tried' \ lost) \union torn /\ lost \subseteq Tried'
  BY <1>2, <1>4
<1> QED BY <1>1, <1>4, <1>5, <1>6 DEF FilesInv

\* Where an ascending sequence is cut: the two parts have its lines, no line is in both.
LEMMA CutSequence ==
  ASSUME NEW l \in Seq(Lines), Ascending(l), NEW k \in 0..Len(l)
  PROVE  /\ SubSeq(l, 1, k) \in Seq(Lines) /\ Ascending(SubSeq(l, 1, k))
         /\ Range(SubSeq(l, 1, k)) = {l[i] : i \in 1..k}
         /\ Range(SubSeq(l, k + 1, Len(l))) = {l[i] : i \in (k + 1)..Len(l)}
         /\ Range(l) = {l[i] : i \in 1..Len(l)}
         /\ \A i, j \in 1..Len(l) : l[i] = l[j] => i = j
<1>1. PICK n \in Nat : n = Len(l) /\ k \in Nat /\ k <= n /\ \A i \in 1..n : l[i] \in Lines
  OBVIOUS
<1>2. PICK a : a = SubSeq(l, 1, k)
  OBVIOUS
<1>3. a \in Seq(Lines) /\ Len(a) = k /\ \A i \in 1..k : a[i] = l[i]
  BY <1>1, <1>2
<1>4. PICK b : b = SubSeq(l, k + 1, n)
  OBVIOUS
<1>5. b \in Seq(Lines) /\ Len(b) = n - k /\ \A i \in 1..(n - k) : b[i] = l[k + i]
  <2>1. k + 1 \in 1..(n + 1)
    BY <1>1
  <2> QED BY <1>1, <1>4, <2>1
<1>6. Ascending(a)
  BY <1>1, <1>3 DEF Ascending
<1>7. Range(a) = {l[i] : i \in 1..k} /\ Range(l) = {l[i] : i \in 1..n}
  BY <1>1, <1>3 DEF Range
<1>8. Range(b) = {l[i] : i \in (k + 1)..n}
  <2>1. ASSUME NEW x \in Range(b) PROVE x \in {l[i] : i \in (k + 1)..n}
    <3>1. PICK i \in 1..(n - k) : x = b[i]
      BY <1>1, <1>5 DEF Range
    <3>2. k + i \in (k + 1)..n
      BY <1>1
    <3> QED BY <1>5, <3>1, <3>2
  <2>2. ASSUME NEW i \in (k + 1)..n PROVE l[i] \in Range(b)
    <3>1. PICK j \in 1..(n - k) : i = k + j
      <4>1. i - k \in 1..(n - k) /\ i = k + (i - k)
        BY <1>1
      <4> QED BY <4>1
    <3>2. b[j] = l[i]
      BY <1>5, <3>1
    <3> QED BY <1>1, <1>5, <3>2 DEF Range
  <2> QED BY <2>1, <2>2
<1>9. \A i, j \in 1..n : l[i] = l[j] => i = j
  <2> TAKE i, j \in 1..n
  <2>1. l[i] \in Nat /\ l[j] \in Nat
    BY <1>1 DEF Lines
  <2>2. i < j => l[i] < l[j]
    BY <1>1 DEF Ascending
  <2>3. j < i => l[j] < l[i]
    BY <1>1 DEF Ascending
  <2> QED BY <2>1, <2>2, <2>3
<1> QED BY <1>1, <1>2, <1>3, <1>4, <1>6, <1>7, <1>8, <1>9

\* One append of a round whose write falls short.
LEMMA WriteShortFiles ==
  ASSUME LoggerInv, FilesInv, NEW whole \in Nat, NEW part \in BOOLEAN, WriteShort(whole, part)
  PROVE  FilesInv'
<1>1. /\ tpc = "write" /\ written < Len(Pieces) /\ written' = written + 1
      /\ UNCHANGED <<tpc, file, buffersToWrite, now>>
  BY DEF WriteShort, vars, locals, history
<1>2. PICK l \in Seq(Lines), len \in Nat :
           /\ l = Pieces[written + 1].lines /\ len = Pieces[written + 1].length
           /\ Ascending(l) /\ Before(Tried, Range(l)) /\ Tried \intersect Range(l) = {}
           /\ Tried' = Tried \union Range(l)
  BY <1>1, NextPiece
<1>3. PICK n \in Nat : n = Len(l)
  OBVIOUS
<1>4. PICK k \in Nat : k = IF part THEN whole + 1 ELSE whole
  OBVIOUS
<1>5. /\ whole < n \/ (whole = n /\ n = 0 /\ ~part)
      /\ output' = append_unlocked(output, SubSeq(l, 1, k), 0, now)
      /\ lost' = lost \union Range(SubSeq(l, whole + 1, n))
      /\ torn' = IF part THEN torn \union {l[whole + 1]} ELSE torn
  BY <1>2, <1>3, <1>4 DEF WriteShort
<1>6. k \in 0..Len(l) /\ whole \in 0..Len(l)
  BY <1>3, <1>4, <1>5
<1>7. PICK taken \in Seq(Lines) :
        /\ taken = SubSeq(l, 1, k) /\ Ascending(taken)
        /\ Range(taken) = {l[i] : i \in 1..k} /\ Range(l) = {l[i] : i \in 1..n}
        /\ \A i, j \in 1..n : l[i] = l[j] => i = j
  BY <1>2, <1>3, <1>6, CutSequence
<1>8. PICK rest : rest = {l[i] : i \in (whole + 1)..n}
  OBVIOUS
<1>9. Range(SubSeq(l, whole + 1, n)) = rest
  BY <1>2, <1>3, <1>6, <1>8, CutSequence
<1>10. Range(taken) \subseteq Range(l) /\ rest \subseteq Range(l)
  BY <1>3, <1>6, <1>7, <1>8
<1>11. /\ OutputInv(output', now) /\ Ascending(Stored(output'.files))
       /\ Range(Stored(output'.files)) = ((Tried \ lost) \union torn) \union Range(taken)
       /\ torn \subseteq lost /\ lost \subseteq Tried
  BY <1>1, <1>2, <1>5, <1>7, <1>10, TakenFiles
<1>12. PICK broken : broken = IF part THEN {l[whole + 1]} ELSE {}
  OBVIOUS
<1>13. broken \subseteq rest /\ Range(taken) = (Range(l) \ rest) \union broken
  <2>1. PICK begun : begun = {l[i] : i \in 1..whole}
    OBVIOUS
  <2>2. Range(taken) = begun \union broken
    <3>1. CASE part = TRUE
      <4>1. \A i : i \in 1..k <=> i \in 1..whole \/ i = whole + 1
        BY <1>4, <3>1
      <4> QED BY <1>7, <1>12, <2>1, <3>1, <4>1
    <3>2. CASE part = FALSE
      BY <1>4, <1>7, <1>12, <2>1, <3>2
    <3> QED BY <3>1, <3>2
  <2>3. begun = Range(l) \ rest
    <3>1. \A i \in 1..n : i \in 1..whole \/ i \in (whole + 1)..n
      BY <1>3
    <3>2. \A i \in 1..whole : i \in 1..n /\ \A j \in (whole + 1)..n : j \in 1..n /\ i # j
      BY <1>3, <1>6
    <3> QED BY <1>7, <1>8, <2>1, <3>1, <3>2
  <2>4. broken \subseteq rest
    <3>1. CASE part = TRUE
      <4>1. whole + 1 \in (whole + 1)..n
        BY <1>3, <1>5, <3>1
      <4> QED BY <1>8, <1>12, <3>1, <4>1
    <3>2. CASE part = FALSE
      BY <1>12, <3>2
    <3> QED BY <3>1, <3>2
  <2> QED BY <2>2, <2>3, <2>4
<1>14. lost' = lost \union rest /\ torn' = torn \union broken
  BY <1>5, <1>9, <1>12
<1>15. /\ Range(Stored(output'.files)) = (Tried' \ lost') \union torn'
       /\ torn' \subseteq lost' /\ lost' \subseteq Tried'
  BY <1>2, <1>10, <1>11, <1>13, <1>14
<1>16. now \in Nat \ {0} /\ written \in Nat
  BY DEF FilesInv
<1> QED BY <1>1, <1>11, <1>15, <1>16 DEF FilesInv

\* The end of a round's appends.
LEMMA WriteOutputFiles ==
  ASSUME LoggerInv, FilesInv, WriteOutput
  PROVE  FilesInv'
<1>1. /\ tpc = "write" /\ tpc' = "recycle" /\ written = Len(Pieces) /\ written' = 0
      /\ WriteBuffers /\ UNCHANGED <<now, output, lost, torn>>
  BY DEF WriteOutput, WriteBuffers
<1>2. Range(file') = Range(file) \union UNION {Range(Pieces[j].lines) : j \in 1..Len(Pieces)}
  BY <1>1, PiecesContent
<1>3. Tried' = Tried
  <2>1. RoundDone = UNION {Range(Pieces[j].lines) : j \in 1..Len(Pieces)} /\ RoundDone' = {}
    BY <1>1 DEF RoundDone
  <2> QED BY <1>2, <2>1 DEF Tried
<1> QED BY <1>1, <1>3 DEF FilesInv

\* The flushes.
LEMMA FlushFiles ==
  ASSUME FilesInv, tpc \in {"recycle", "while"}, tpc' \in {"while", "done"},
         UNCHANGED <<file, now, written, lost, torn>>, output' = flush(output)
  PROVE  FilesInv'
<1>1. /\ OutputInv(output, now) /\ Ascending(Stored(output.files))
      /\ Range(Stored(output.files)) = (Tried \ lost) \union torn
       /\ torn \subseteq lost /\ lost \subseteq Tried
      /\ now \in Nat \ {0} /\ written = 0
  BY DEF FilesInv
<1>2. /\ OutputInv(output', now) /\ Stored(output'.files) = Stored(output.files)
      /\ output'.files[Len(output'.files)].held = <<>>
  BY <1>1, FlushedOutput
<1>3. Tried' = Tried
  BY DEF Tried, RoundDone
<1> QED BY <1>1, <1>2, <1>3 DEF FilesInv

\* Time goes by.
LEMMA TickFiles ==
  ASSUME FilesInv, Tick
  PROVE  FilesInv'
<1>1. /\ tpc = "write" /\ now' = now + 1 /\ UNCHANGED <<tpc, file, buffersToWrite>>
      /\ UNCHANGED <<output, written, lost, torn>>
  BY DEF Tick, vars, locals, history
<1>2. Tried' = Tried
  BY <1>1, RoundKept
<1>3. now \in Nat \ {0} /\ OutputInv(output, now)
  BY <1>1, FilesParts
<1>4. OutputInv(output', now')
  <2>1. output.lastRoll_ \in Nat /\ output.lastRoll_ <= now
    BY <1>3 DEF OutputInv, Output
  <2> QED BY <1>1, <1>3, <2>1 DEF OutputInv
<1>5. now' \in Nat \ {0}
  BY <1>1, <1>3
<1> QED BY <1>1, <1>2, <1>4, <1>5 DEF FilesInv

\* Whatever the log threads append, however rounds, exchanges of files, flushes and the
\* clock interleave, and whichever writes fall short, in which files and however often:
\* between two rounds the files hold on disk, in order and once, every line whose write
\* was tried, except those a short write took nothing or only a part of; their names
\* differ, and none is given up before it is over rollSize_ or its day is over
\* (LogFile.cc:47-81, FileUtil.cc:101-119, AsyncLogging.cc:44-108).
THEOREM LogsAlwaysOnDisk == FileSpec => []LogsOnDisk
<1>1. FileInit => FilesInv
  <2> SUFFICES ASSUME FileInit PROVE FilesInv
    OBVIOUS
  <2>1. /\ tpc = "unborn" /\ file = <<>> /\ now \in 1..kRollPerSeconds_
        /\ output = Unopened /\ written = 0 /\ lost = {} /\ torn = {}
    BY DEF FileInit, Init
  <2>2. now \in Nat \ {0}
    BY <2>1, LogFileAssumption DEF LogFileAssumption
  <2> QED BY <2>1, <2>2 DEF FilesInv
<1>2. LoggerInv /\ FilesInv /\ [FileNext]_allVars => FilesInv'
  <2> SUFFICES ASSUME LoggerInv, FilesInv, [FileNext]_allVars PROVE FilesInv'
    OBVIOUS
  <2>1. CASE OpenOutput
    BY <2>1, OpenOutputFiles
  <2>2. CASE WritePiece
    BY <2>2, WritePieceFiles
  <2>12. ASSUME NEW whole \in 0..MaxLines, NEW part \in BOOLEAN, WriteShort(whole, part)
         PROVE  FilesInv'
    <3>1. whole \in Nat
      OBVIOUS
    <3> QED BY <2>12, <3>1, WriteShortFiles
  <2>3. CASE WriteOutput
    BY <2>3, WriteOutputFiles
  <2>4. CASE FlushOutput
    BY <2>4, FlushFiles DEF FlushOutput, Recycle, history
  <2>5. CASE LeaveWhile
    <3>1. /\ tpc = "while" /\ tpc' = (IF running_ THEN "lock" ELSE "done")
          /\ output' = (IF running_ THEN output ELSE flush(output))
          /\ UNCHANGED <<file, now, written, lost, torn>>
      BY <2>5 DEF LeaveWhile, WhileRunning, history
    <3>2. CASE running_
      BY <3>1, <3>2, FilesBetween DEF logVars
    <3>3. CASE ~running_
      BY <3>1, <3>3, FlushFiles
    <3> QED BY <3>2, <3>3
  <2>6. CASE MemoryStep \/ TimeOut
    <3>1. CASE WaitForBuffers /\ UNCHANGED logVars
      BY <3>1, FilesBetween DEF WaitForBuffers, history
    <3>2. CASE (TakeAtOnce \/ TakeNotified \/ TakeTimedOut) /\ UNCHANGED logVars
      BY <3>2, FilesBetween DEF TakeAtOnce, TakeNotified, TakeTimedOut, TakeBuffers, history
    <3> QED BY <2>6, <3>1, <3>2 DEF MemoryStep, TimeOut
  <2>7. CASE Tick
    BY <2>7, TickFiles
  <2>8. CASE Start /\ UNCHANGED logVars
    <3>1. tpc = "unborn" /\ tpc' = "begin" /\ UNCHANGED <<file, now, output, written, lost, torn>>
      BY <2>8 DEF Start, LoggerInv, SparesInv, history, logVars
    <3> QED BY <3>1 DEF FilesInv
  <2>9. CASE (LatchOpens \/ Stop \/ Join) /\ UNCHANGED logVars
    BY <2>9, FilesUnchanged DEF LatchOpens, Stop, Join, shared, locals, history
  <2>10. CASE (\E len \in Lens : AppendInCurrent(len) \/ AppendInFresh(len)) /\ UNCHANGED logVars
    BY <2>10, FilesUnchanged DEF AppendInCurrent, AppendInFresh, locals
  <2>11. CASE UNCHANGED allVars
    BY <2>11, FilesUnchanged DEF allVars, vars, locals, history
  <2> QED
    BY <2>1, <2>2, <2>3, <2>4, <2>5, <2>6, <2>7, <2>8, <2>9, <2>10, <2>11, <2>12
    DEF FileNext, FileStep, Joined
<1>3. FilesInv => LogsOnDisk
  <2> SUFFICES ASSUME FilesInv PROVE LogsOnDisk
    OBVIOUS
  <2>1. ASSUME tpc \in {"while", "lock", "wait", "done"}
        PROVE  /\ Range(OnDisk) = (Range(file) \ lost) \union torn
               /\ torn \subseteq lost /\ lost \subseteq Range(file)
               /\ \A i, j \in 1..Len(OnDisk) : i < j => OnDisk[i] < OnDisk[j]
    <3>1. /\ OneOpen(output.files) /\ Stored(output.files) \in Seq(Lines)
          /\ Ascending(Stored(output.files))
          /\ Range(Stored(output.files)) = (Tried \ lost) \union torn
          /\ torn \subseteq lost /\ lost \subseteq Tried
      BY <2>1, FilesParts
    <3>2. output.files[Len(output.files)].held = <<>>
      BY <2>1 DEF FilesInv
    <3>3. PICK d \in Seq(Lines) : d = FlattenSeq(Disks(output.files))
      BY <3>1, StoredLines
    <3>4. OnDisk = d
      BY <3>3, Zenon DEF OnDisk, Disks
    <3>5. Stored(output.files) = d
      <4>1. Stored(output.files) = d \o <<>>
        BY <3>2, <3>3, Zenon DEF Stored
      <4> QED BY <4>1, ConcatEmptySeq
    <3>6. Tried = Range(file)
      BY <2>1 DEF Tried, RoundDone
    <3>7. /\ Ascending(d) /\ Range(d) = (Range(file) \ lost) \union torn
          /\ torn \subseteq lost /\ lost \subseteq Range(file)
      BY <3>1, <3>5, <3>6
    <3> QED BY <3>4, <3>7 DEF Ascending
  <2>2. GivenUp(output.files)
    <3>1. CASE tpc \in {"unborn", "begin"}
      <4>1. output.files = <<>>
        BY <3>1 DEF FilesInv, Unopened
      <4>2. Len(output.files) = 0 /\ 1..(0 - 1) = {}
        BY <4>1
      <4> QED BY <4>2 DEF GivenUp
    <3>2. CASE tpc \notin {"unborn", "begin"}
      BY <3>2, FilesParts DEF OutputInv
    <3> QED BY <3>1, <3>2
  <2> QED BY <2>1, <2>2 DEF LogsOnDisk, GivenUp
<1> QED BY <1>1, <1>2, <1>3, LogFileImplementsLogging, LoggerInvariant, PTL DEF FileSpec
=============================================================================
