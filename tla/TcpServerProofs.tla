--------------------------- MODULE TcpServerProofs ---------------------------
(***************************************************************************)
(* Safety of TcpServer and its connections, for any number of connections, *)
(* loops, other threads and calls, and for every high-water mark: when an  *)
(* assert of TcpConnection, Channel or TcpServer can fail, when a functor  *)
(* that captured "this" can outlive its connection, that callbacks come in *)
(* order, and that POLLOUT is asked for exactly while bytes wait.          *)
(***************************************************************************)
EXTENDS TcpServer, FiniteSetTheorems, SequenceTheorems, TLAPS

-----------------------------------------------------------------------------
(* Counting work.                                                          *)

Ops == Owning \union Raw

\* How often op of connection c is in s.
Num(s, op, c) == Cardinality({i \in DOMAIN s : s[i].op = op /\ s[i].conn = c})

\* How often it waits on loop l.
Wait(l, op, c) == Num(todo[l], op, c) + Num(queue[l], op, c)

Notifications == {"writeCompleteCallback", "highWaterMarkCallback"}

\* What goes through the queue of a loop; everything else is called on the spot.
Functors == {"connectEstablished", "connectDestroyed", "removeConnectionInLoop",
             "forceCloseInLoop", "sendInLoop"} \union Notifications

\* Calls a callback makes on the spot.
Spot == {"sendInLoop", "shutdownInLoop", "startReadInLoop", "stopReadInLoop"}

-----------------------------------------------------------------------------
(* The stack of a loop thread.                                             *)

\* What can be below something else.
Frames == {"user", "closeCallback", "channelRemove", "handleWrite", "eventEnd"}

\* Below a frame are only frames of a higher rank.
Rank(op) == IF op \in Spot THEN 0
            ELSE IF op \in Notifications \union {"user"} THEN 1
            ELSE IF op = "handleWrite" THEN 3
            ELSE IF op = "eventEnd" THEN 4
            ELSE IF op = "connectDestroyed" THEN 5
            ELSE 2

\* w may be above v: both belong to one handler, or v is another connection that
\* the destructor of the server has yet to destroy.
Above(w, v) ==
  \/ v.op = "connectDestroyed" /\ w.conn # v.conn
  \/ v.op \in Frames /\ w.conn = v.conn /\ Rank(w.op) < Rank(v.op)

Stack(s) ==
  /\ \A i, j \in DOMAIN s : i < j => Above(s[i], s[j])
  /\ \A i \in DOMAIN s : s[i].op = "handleWrite" => i + 1 \in DOMAIN s /\ s[i + 1].op = "eventEnd"

\* Connections below the top of the stack are still connected.
DeletedUp(s) ==
  \A i \in DOMAIN s : i > 1 /\ s[i].op = "connectDestroyed" => state_[s[i].conn] = "kConnected"

\* Handlers find the connection up; a call made on the spot returns to a frame of the
\* same connection, or is a send that some thread queued.
Top(s) ==
  s # <<>> =>
    /\ s[1].op \in {"handleClose", "handleRead", "startReadInLoop", "shutdownInLoop"}
         => Closable(s[1].conn)
    /\ s[1].op \in Spot =>
         \/ Len(s) > 1 /\ s[2].op \in {"user", "eventEnd"} /\ s[2].conn = s[1].conn
         \/ s[1].op = "sendInLoop"

\* No notification is queued behind connectDestroyed.
Order(q) ==
  \A i, j \in DOMAIN q :
    q[i].op = "connectDestroyed" /\ q[j].op \in Notifications /\ q[i].conn = q[j].conn => j < i

LoopInv(l) ==
  /\ Stack(todo[l])
  /\ DeletedUp(todo[l])
  /\ Top(todo[l])
  /\ Order(queue[l])

-----------------------------------------------------------------------------
(* A connection.                                                           *)

Home(op, c) == IF op = "removeConnectionInLoop" THEN base ELSE loop_[c]

\* Work waits where it belongs, for a connection that is established and, sends of
\* other threads apart, is still there.
AtHome(c) ==
  \A l \in Loops, op \in Ops :
    /\ Wait(l, op, c) > 0 =>
         /\ l = Home(op, c) /\ (object[c] = "live" \/ op = "sendInLoop")
         /\ op # "connectEstablished" => state_[c] # "kConnecting"
    /\ op \notin Functors => Num(queue[l], op, c) = 0

\* What the channel asks for, what is buffered and what was reported.
Traffic(c) ==
  /\ ~Closable(c) => events[c] = {}
  /\ Closable(c) => ("write" \in events[c] <=> outputBuffer_[c] > 0)
  /\ state_[c] = "kConnecting" => outputBuffer_[c] = 0
  /\ finSent[c] => outputBuffer_[c] = 0
  /\ ups[c] = IF state_[c] = "kConnecting" THEN 0 ELSE 1
  /\ downs[c] = IF state_[c] = "kDisconnected" THEN 1 ELSE 0

\* The close is on its way to the server.
Closing(c) == Wait(loop_[c], "closeCallback", c) + Wait(base, "removeConnectionInLoop", c)
\* The connection is on its way off its loop.
Leaving(c) == Wait(loop_[c], "connectDestroyed", c) + Wait(loop_[c], "channelRemove", c)

\* The server owns the connection until its close has come there.
Owned(c) ==
  c \in connections_ =>
    /\ object[c] = "live" /\ serverUp
    /\ Leaving(c) = 0
    /\ Closing(c) = IF state_[c] = "kDisconnected" THEN 1 ELSE 0

\* Then connectDestroyed takes it off the loop, once, behind its notifications;
\* after that nothing but leftovers waits.
Released(c) ==
  object[c] = "live" /\ c \notin connections_ =>
    /\ state_[c] # "kConnecting" /\ Closing(c) = 0 /\ Leaving(c) \in {0, 1}
    /\ Closable(c) => state_[c] = "kConnected" /\ Num(todo[loop_[c]], "connectDestroyed", c) = 1
    /\ Num(queue[loop_[c]], "connectDestroyed", c) = 0
         => \A op \in Notifications : Wait(loop_[c], op, c) = 0
    /\ Leaving(c) = 0 =>
         ~added[c] /\ \A op \in (Raw \ {"sendInLoop"}) \union {"user"} : Wait(loop_[c], op, c) = 0

Stage(c) ==
  /\ object[c] = "no" => state_[c] = "kConnecting"
  /\ object[c] = "freed" => state_[c] = "kDisconnected"
  /\ object[c] = "live" =>
       Wait(loop_[c], "connectEstablished", c) = IF state_[c] = "kConnecting" THEN 1 ELSE 0
  /\ object[c] = "live" /\ numThreads_ = 0 => loop_[c] = base

\* Threads hold what they were given.
Holding(c) ==
  (\E t \in Threads : c \in held[t]) => object[c] = "live" /\ state_[c] # "kConnecting"

ConnInv(c) ==
  /\ AtHome(c)
  /\ Traffic(c)
  /\ Owned(c)
  /\ Released(c)
  /\ Stage(c)
  /\ Holding(c)

ThreadInv(t) ==
  tpc[t].at # "idle" =>
    tpc[t].at = "tested" /\ tpc[t].op = "send" /\ tpc[t].conn \in held[t]

Calm == aborted = "no"

TcpInv ==
  /\ ServerTypeOK
  /\ Calm
  /\ IsFiniteSet(connections_)
  /\ \A l \in Loops : LoopInv(l)
  /\ \A c \in Conns : ConnInv(c)
  /\ \A t \in Threads : ThreadInv(t)


-----------------------------------------------------------------------------
(* Lemmas about sequences of work.                                         *)

\* Counts are numbers, and none is counted where there is none.
LEMMA NumFacts ==
  ASSUME NEW s \in Seq(Work), NEW op, NEW c
  PROVE  /\ Num(s, op, c) \in Nat
         /\ Num(<<>>, op, c) = 0
         /\ Num(s, op, c) = 0 <=> \A i \in DOMAIN s : ~(s[i].op = op /\ s[i].conn = c)
<1> DEFINE S == {i \in DOMAIN s : s[i].op = op /\ s[i].conn = c}
<1>1. DOMAIN s = 1..Len(s) /\ Len(s) \in Nat
  OBVIOUS
<1>2. IsFiniteSet(S)
  <2>1. IsFiniteSet(1..Len(s)) /\ S \subseteq 1..Len(s)
    BY <1>1, FS_Interval
  <2> HIDE DEF S
  <2> QED BY <2>1, FS_Subset
<1>3. Cardinality(S) \in Nat /\ (Cardinality(S) = 0 <=> S = {})
  BY <1>2, FS_CardinalityType, FS_EmptySet
<1>4. {i \in DOMAIN <<>> : <<>>[i].op = op /\ <<>>[i].conn = c} = {}
  OBVIOUS
<1> QED BY <1>3, <1>4, FS_EmptySet DEF Num

\* Counts of a concatenation add up.
LEMMA NumConcat ==
  ASSUME NEW s \in Seq(Work), NEW t \in Seq(Work), NEW op, NEW c
  PROVE  Num(s \o t, op, c) = Num(s, op, c) + Num(t, op, c)
<1> DEFINE r == s \o t
           S == {i \in DOMAIN s : s[i].op = op /\ s[i].conn = c}
           T == {i \in DOMAIN t : t[i].op = op /\ t[i].conn = c}
           R == {i \in DOMAIN r : r[i].op = op /\ r[i].conn = c}
           M == R \ S
           g == [i \in T |-> i + Len(s)]
<1>1. /\ DOMAIN s = 1..Len(s) /\ Len(s) \in Nat /\ DOMAIN t = 1..Len(t) /\ Len(t) \in Nat
      /\ r \in Seq(Work) /\ Len(r) = Len(s) + Len(t) /\ DOMAIN r = 1..(Len(s) + Len(t))
      /\ \A i \in 1..Len(s) : r[i] = s[i]
      /\ \A i \in 1..Len(t) : r[i + Len(s)] = t[i]
  BY ConcatProperties
<1>2. S \subseteq R /\ S \subseteq 1..Len(s) /\ T \subseteq 1..Len(t) /\ R \subseteq 1..Len(r)
  BY <1>1
<1>3. IsFiniteSet(S) /\ IsFiniteSet(T) /\ IsFiniteSet(R) /\ IsFiniteSet(M)
  <2>1. IsFiniteSet(1..Len(s)) /\ IsFiniteSet(1..Len(t)) /\ IsFiniteSet(1..Len(r))
    BY <1>1, FS_Interval
  <2>2. M \subseteq 1..Len(r)
    BY <1>2
  <2> HIDE DEF S, T, R, M
  <2> QED BY <1>2, <2>1, <2>2, FS_Subset
<1>4. g \in Bijection(T, M)
  <2>1. ASSUME NEW i \in T PROVE i + Len(s) \in M
    BY <1>1
  <2>2. ASSUME NEW i \in M PROVE i - Len(s) \in T /\ i = (i - Len(s)) + Len(s)
    <3>1. i \in 1..(Len(s) + Len(t)) /\ i \notin 1..Len(s)
      BY <1>1
    <3>2. i - Len(s) \in 1..Len(t) /\ r[(i - Len(s)) + Len(s)] = t[i - Len(s)]
      BY <1>1, <3>1
    <3>3. i = (i - Len(s)) + Len(s)
      BY <1>1, <3>1
    <3> QED BY <1>1, <3>2, <3>3
  <2>3. g \in [T -> M]
    BY <2>1
  <2>4. \A a, b \in T : g[a] = g[b] => a = b
    BY <1>1
  <2>5. \A m \in M : \E a \in T : g[a] = m
    BY <2>2
  <2> QED BY <2>3, <2>4, <2>5 DEF Bijection, Injection, Surjection, IsInjective
<1>5. Cardinality(T) = Cardinality(M)
  <2>1. ExistsBijection(T, M)
    BY <1>4 DEF ExistsBijection
  <2> HIDE DEF T, M
  <2> QED BY <1>3, <2>1, FS_Bijection
<1>6. R = S \union M /\ S \cap M = {}
  BY <1>2
<1>7. Cardinality(S \union M) = Cardinality(S) + Cardinality(M) - Cardinality(S \cap M)
  <2> HIDE DEF S, M
  <2> QED BY <1>3, FS_Union
<1>8. Cardinality({}) = 0 /\ Cardinality(S) \in Nat /\ Cardinality(M) \in Nat
  BY <1>3, FS_EmptySet, FS_CardinalityType
<1>9. Num(r, op, c) = Cardinality(R) /\ Num(s, op, c) = Cardinality(S) /\ Num(t, op, c) = Cardinality(T)
  BY DEF Num
<1> HIDE DEF S, T, R, M
<1>10. Cardinality(R) = Cardinality(S) + Cardinality(T)
  <2>1. Cardinality(R) = Cardinality(S \union M) /\ Cardinality(S \cap M) = 0
    BY <1>6, <1>8, Zenon
  <2> QED BY <1>5, <1>7, <1>8, <2>1
<1> QED BY <1>9, <1>10

\* One piece of work counts once.
One(w, op, c) == IF w.op = op /\ w.conn = c THEN 1 ELSE 0

\* A sequence of one piece of work.
LEMMA NumOne ==
  ASSUME NEW w \in Work, NEW op, NEW c
  PROVE  Num(<<w>>, op, c) = One(w, op, c)
<1> DEFINE S == {i \in {1} : w.op = op /\ w.conn = c}
<1>1. {i \in DOMAIN <<w>> : <<w>>[i].op = op /\ <<w>>[i].conn = c} = S
  OBVIOUS
<1>2. S = IF w.op = op /\ w.conn = c THEN {1} ELSE {}
  OBVIOUS
<1>3. Cardinality({}) = 0 /\ Cardinality({1}) = 1
  BY FS_EmptySet, FS_Singleton
<1> QED BY <1>1, <1>2, <1>3 DEF Num, One

\* What putting one in front and taking the first do to the counts.
LEMMA NumCons ==
  ASSUME NEW w \in Work, NEW s \in Seq(Work), NEW op, NEW c
  PROVE  /\ <<w>> \o s \in Seq(Work)
         /\ Num(<<w>> \o s, op, c) = One(w, op, c) + Num(s, op, c)
<1> DEFINE q == <<w>>
<1>1. q \in Seq(Work)
  OBVIOUS
<1>2. Num(q, op, c) = One(w, op, c)
  BY NumOne
<1> HIDE DEF q
<1>3. q \o s \in Seq(Work) /\ Num(q \o s, op, c) = Num(q, op, c) + Num(s, op, c)
  BY <1>1, NumConcat
<1> QED BY <1>2, <1>3 DEF q

\* Taking the first piece of work takes it off its count.
LEMMA NumTail ==
  ASSUME NEW s \in Seq(Work), s # <<>>, NEW op, NEW c
  PROVE  /\ Head(s) \in Work /\ Head(s) = s[1] /\ Tail(s) \in Seq(Work)
         /\ Num(s, op, c) = One(Head(s), op, c) + Num(Tail(s), op, c)
<1>1. /\ s = <<Head(s)>> \o Tail(s) /\ Head(s) \in Work /\ Tail(s) \in Seq(Work)
      /\ Head(s) = s[1]
  OBVIOUS
<1> DEFINE h == Head(s)
           t == Tail(s)
<1>2. h \in Work /\ t \in Seq(Work) /\ s = <<h>> \o t
  BY <1>1
<1> HIDE DEF h, t
<1>3. Num(<<h>> \o t, op, c) = One(h, op, c) + Num(t, op, c)
  BY <1>2, NumCons
<1>4. Num(s, op, c) = One(h, op, c) + Num(t, op, c)
  BY <1>2, <1>3
<1> QED BY <1>1, <1>4 DEF h, t


\* The places of a sequence after one was put in front, and after the first was taken.
LEMMA ConsPlaces ==
  ASSUME NEW w \in Work, NEW s \in Seq(Work)
  PROVE  /\ DOMAIN (<<w>> \o s) = 1..(Len(s) + 1) /\ Len(<<w>> \o s) = Len(s) + 1
         /\ (<<w>> \o s)[1] = w
         /\ \A i \in 2..(Len(s) + 1) : i - 1 \in DOMAIN s /\ (<<w>> \o s)[i] = s[i - 1]
<1> DEFINE q == <<w>>
<1>1. q \in Seq(Work) /\ Len(q) = 1 /\ q[1] = w
  OBVIOUS
<1>2. DOMAIN s = 1..Len(s) /\ Len(s) \in Nat
  OBVIOUS
<1> HIDE DEF q
<1>3. /\ Len(q \o s) = Len(q) + Len(s) /\ q \o s \in Seq(Work)
      /\ \A i \in 1..(Len(q) + Len(s)) :
           (q \o s)[i] = IF i <= Len(q) THEN q[i] ELSE s[i - Len(q)]
  BY <1>1, ConcatProperties
<1>4. DOMAIN (q \o s) = 1..(Len(s) + 1)
  BY <1>1, <1>2, <1>3
<1> QED BY <1>1, <1>2, <1>3, <1>4 DEF q

\* The places after the first was taken.
LEMMA TailPlaces ==
  ASSUME NEW s \in Seq(Work), s # <<>>
  PROVE  /\ DOMAIN s = 1..Len(s) /\ Len(s) \in Nat \ {0}
         /\ DOMAIN Tail(s) = 1..(Len(s) - 1) /\ Len(Tail(s)) = Len(s) - 1
         /\ \A i \in 1..(Len(s) - 1) : i + 1 \in DOMAIN s /\ Tail(s)[i] = s[i + 1]
BY HeadTailProperties, LenProperties

\* The stack after the top was taken off.
LEMMA StackTail ==
  ASSUME NEW s \in Seq(Work), s # <<>>, Stack(s)
  PROVE  /\ Stack(Tail(s))
         /\ \A i \in DOMAIN Tail(s) : Above(s[1], Tail(s)[i])
<1>1. \A i, j \in DOMAIN Tail(s) : i < j => Above(Tail(s)[i], Tail(s)[j])
  BY TailPlaces DEF Stack
<1>2. \A i \in DOMAIN Tail(s) : Tail(s)[i].op = "handleWrite"
        => i + 1 \in DOMAIN Tail(s) /\ Tail(s)[i + 1].op = "eventEnd"
  <2> SUFFICES ASSUME NEW i \in DOMAIN Tail(s), Tail(s)[i].op = "handleWrite"
               PROVE  i + 1 \in DOMAIN Tail(s) /\ Tail(s)[i + 1].op = "eventEnd"
    OBVIOUS
  <2> DEFINE k == i + 1
  <2>1. k \in DOMAIN s /\ s[k].op = "handleWrite"
    BY TailPlaces
  <2>2. k + 1 \in DOMAIN s /\ s[k + 1].op = "eventEnd"
    <3> HIDE DEF k
    <3> QED BY <2>1 DEF Stack
  <2>3. k \in 1..(Len(s) - 1)
    BY <2>1, <2>2, TailPlaces
  <2> QED BY <2>2, <2>3, TailPlaces
<1>3. \A i \in DOMAIN Tail(s) : Above(s[1], Tail(s)[i])
  BY TailPlaces DEF Stack
<1> QED BY <1>1, <1>2, <1>3 DEF Stack

\* w is put on top of the stack s.
LEMMA StackPush ==
  ASSUME NEW w \in Work, NEW s \in Seq(Work), Stack(s),
         \A i \in DOMAIN s : Above(w, s[i]),
         w.op = "handleWrite" => s # <<>> /\ s[1].op = "eventEnd"
  PROVE  Stack(<<w>> \o s)
<1> DEFINE r == <<w>> \o s
<1>1. /\ DOMAIN r = 1..(Len(s) + 1) /\ r[1] = w
      /\ \A i \in 2..(Len(s) + 1) : i - 1 \in DOMAIN s /\ r[i] = s[i - 1]
  BY ConsPlaces
<1>2. Len(s) \in Nat /\ DOMAIN s = 1..Len(s) /\ (s # <<>> => Len(s) >= 1)
  OBVIOUS
<1> HIDE DEF r
<1>3. ASSUME NEW i \in DOMAIN r, NEW j \in DOMAIN r, i < j PROVE Above(r[i], r[j])
  <2>1. j \in 2..(Len(s) + 1) /\ j - 1 \in DOMAIN s /\ r[j] = s[j - 1]
    BY <1>1, <1>2, <1>3
  <2>2. CASE i = 1
    BY <1>1, <2>1, <2>2
  <2>3. CASE i # 1
    <3>1. i - 1 \in DOMAIN s /\ r[i] = s[i - 1] /\ i - 1 < j - 1
      BY <1>1, <1>2, <1>3, <2>3
    <3> QED BY <2>1, <3>1 DEF Stack
  <2> QED BY <2>2, <2>3
<1>4. ASSUME NEW i \in DOMAIN r, r[i].op = "handleWrite"
      PROVE  i + 1 \in DOMAIN r /\ r[i + 1].op = "eventEnd"
  <2>1. CASE i = 1
    BY <1>1, <1>2, <1>4, <2>1
  <2>2. CASE i # 1
    <3>1. i - 1 \in DOMAIN s /\ s[i - 1].op = "handleWrite"
      BY <1>1, <1>2, <1>4, <2>2
    <3> DEFINE k == i - 1
    <3>2. i \in DOMAIN s /\ s[i].op = "eventEnd"
      <4>1. k \in DOMAIN s /\ s[k].op = "handleWrite"
        BY <3>1
      <4>2. k + 1 \in DOMAIN s /\ s[k + 1].op = "eventEnd"
        <5> HIDE DEF k
        <5> QED BY <4>1 DEF Stack
      <4>3. k + 1 = i
        BY <1>1, <1>2
      <4> QED BY <4>2, <4>3
    <3>3. i + 1 \in 2..(Len(s) + 1) /\ (i + 1) - 1 = i
      BY <1>1, <1>2, <3>2
    <3> QED BY <1>1, <1>2, <3>2, <3>3
  <2> QED BY <2>1, <2>2
<1> QED BY <1>3, <1>4 DEF Stack, r

\* w takes the place of the top.
LEMMA StackReplace ==
  ASSUME NEW w \in Work, NEW s \in Seq(Work), s # <<>>, Stack(s),
         w.conn = s[1].conn, Rank(w.op) <= Rank(s[1].op), w.op # "handleWrite"
  PROVE  Stack(<<w>> \o Tail(s))
<1>1. Stack(Tail(s)) /\ Tail(s) \in Seq(Work) /\ \A i \in DOMAIN Tail(s) : Above(s[1], Tail(s)[i])
  BY StackTail
<1>2. \A op : Rank(op) \in 0..5
  BY DEF Rank
<1>3. \A i \in DOMAIN Tail(s) : Above(w, Tail(s)[i])
  BY <1>1, <1>2 DEF Above
<1> QED BY <1>1, <1>3, StackPush

\* w is called by the frame at the top.
LEMMA StackOn ==
  ASSUME NEW w \in Work, NEW s \in Seq(Work), s # <<>>, Stack(s),
         w.conn = s[1].conn, Rank(w.op) < Rank(s[1].op), s[1].op \in Frames,
         w.op = "handleWrite" => s[1].op = "eventEnd"
  PROVE  Stack(<<w>> \o s)
<1>1. DOMAIN s = 1..Len(s) /\ Len(s) \in Nat \ {0}
  BY TailPlaces
<1>2. \A op : Rank(op) \in 0..5
  BY DEF Rank
<1>3. ASSUME NEW i \in DOMAIN s PROVE Above(w, s[i])
  <2>1. CASE i = 1
    BY <2>1 DEF Above
  <2>2. CASE i # 1
    <3>1. Above(s[1], s[i])
      BY <1>1, <2>2 DEF Stack
    <3> QED BY <1>2, <3>1 DEF Above
  <2> QED BY <2>1, <2>2
<1> QED BY <1>3, StackPush

\* Below the top are frames, and connections being destroyed.
LEMMA StackBelow ==
  ASSUME NEW s \in Seq(Work), s # <<>>, Stack(s)
  PROVE  /\ \A i \in DOMAIN Tail(s) : Tail(s)[i].op \in Frames \union {"connectDestroyed"}
         /\ Tail(s) # <<>> => Tail(s)[1].op \in Frames \union {"connectDestroyed"}
<1>1. \A i \in DOMAIN Tail(s) : Tail(s)[i].op \in Frames \union {"connectDestroyed"}
  BY StackTail DEF Above
<1>2. Tail(s) # <<>> => 1 \in DOMAIN Tail(s)
  BY TailPlaces, HeadTailProperties
<1> QED BY <1>1, <1>2


\* The order in a queue is kept when work is appended and taken.
LEMMA OrderAppend ==
  ASSUME NEW q \in Seq(Work), NEW w \in Work, Order(q),
         w.op \in Notifications => Num(q, "connectDestroyed", w.conn) = 0
  PROVE  Order(q \o <<w>>)
<1> DEFINE r == q \o <<w>>
<1>1. /\ DOMAIN q = 1..Len(q) /\ Len(q) \in Nat
      /\ DOMAIN r = 1..(Len(q) + 1) /\ r[Len(q) + 1] = w /\ \A i \in 1..Len(q) : r[i] = q[i]
  OBVIOUS
<1>2. w.op \in Notifications =>
        \A i \in DOMAIN q : ~(q[i].op = "connectDestroyed" /\ q[i].conn = w.conn)
  BY NumFacts
<1> HIDE DEF r
<1>3. \A i, j \in DOMAIN r :
        r[i].op = "connectDestroyed" /\ r[j].op \in Notifications /\ r[i].conn = r[j].conn => j < i
  BY <1>1, <1>2 DEF Order, Notifications
<1> QED BY <1>3 DEF Order, r

\* The order survives taking the first functor, and a connectDestroyed at the front
\* has no notification of its connection behind it.
LEMMA OrderTail ==
  ASSUME NEW q \in Seq(Work), q # <<>>, Order(q)
  PROVE  /\ Order(Tail(q))
         /\ q[1].op = "connectDestroyed" =>
              \A op \in Notifications : Num(Tail(q), op, q[1].conn) = 0
<1>1. Order(Tail(q))
  BY TailPlaces DEF Order
<1>2. ASSUME q[1].op = "connectDestroyed", NEW op \in Notifications
      PROVE  Num(Tail(q), op, q[1].conn) = 0
  <2>1. \A i \in DOMAIN Tail(q) : ~(Tail(q)[i].op = op /\ Tail(q)[i].conn = q[1].conn)
    BY <1>2, TailPlaces DEF Order
  <2>2. Tail(q) \in Seq(Work)
    OBVIOUS
  <2> HIDE DEF Notifications
  <2> QED BY <2>1, <2>2, NumFacts
<1> QED BY <1>1, <1>2

-----------------------------------------------------------------------------
(* What the invariant says of work that waits.                             *)

\* The types of the queues, the stacks and their counts.
LEMMA Typed ==
  ASSUME TcpInv
  PROVE  /\ base \in Loops
         /\ todo \in [Loops -> Seq(Work)] /\ queue \in [Loops -> Seq(Work)]
         /\ loop_ \in [Conns -> Loops] /\ state_ \in [Conns -> {"kConnecting", "kConnected", "kDisconnecting", "kDisconnected"}]
         /\ \A l \in Loops : \A op, c : Num(todo[l], op, c) \in Nat /\ Num(queue[l], op, c) \in Nat
<1>1. base \in Loops
  BY ServerAssumption DEF base
<1>2. todo \in [Loops -> Seq(Work)] /\ queue \in [Loops -> Seq(Work)]
  BY DEF TcpInv, ServerTypeOK, TypeOK
<1>3. ASSUME NEW l \in Loops, NEW op, NEW c
      PROVE  Num(todo[l], op, c) \in Nat /\ Num(queue[l], op, c) \in Nat
  BY <1>2, NumFacts
<1> QED BY <1>1, <1>2, <1>3 DEF TcpInv, ServerTypeOK, TypeOK

\* Work in a stack is counted, and is where it belongs.
LEMMA Found ==
  ASSUME TcpInv, NEW l \in Loops, NEW i \in DOMAIN todo[l]
  PROVE  LET w == todo[l][i]
         IN  /\ w \in Work /\ w.op \in Ops /\ w.conn \in Conns
             /\ Num(todo[l], w.op, w.conn) > 0 /\ Wait(l, w.op, w.conn) > 0
             /\ l = Home(w.op, w.conn) /\ (object[w.conn] = "live" \/ w.op = "sendInLoop")
             /\ w.op # "connectEstablished" => state_[w.conn] # "kConnecting"
<1> DEFINE w == todo[l][i]
<1>1. todo[l] \in Seq(Work) /\ queue[l] \in Seq(Work)
  BY Typed
<1>2. w \in Work /\ w.op \in Ops /\ w.conn \in Conns
  <2>1. w \in Work
    BY <1>1
  <2> HIDE DEF w
  <2> QED BY <2>1 DEF Work, Ops
<1>3. Num(todo[l], w.op, w.conn) # 0
  BY <1>1, NumFacts
<1>4. Num(todo[l], w.op, w.conn) > 0 /\ Wait(l, w.op, w.conn) > 0
  BY <1>3, Typed DEF Wait
<1>5. AtHome(w.conn)
  BY <1>2 DEF TcpInv, ConnInv
<1> QED BY <1>2, <1>4, <1>5 DEF AtHome

\* The same, for a queue.
LEMMA FoundQueued ==
  ASSUME TcpInv, NEW l \in Loops, NEW i \in DOMAIN queue[l]
  PROVE  LET w == queue[l][i]
         IN  /\ w \in Work /\ w.op \in Functors /\ w.conn \in Conns
             /\ Num(queue[l], w.op, w.conn) > 0 /\ Wait(l, w.op, w.conn) > 0
             /\ l = Home(w.op, w.conn) /\ (object[w.conn] = "live" \/ w.op = "sendInLoop")
             /\ w.op # "connectEstablished" => state_[w.conn] # "kConnecting"
<1> DEFINE w == queue[l][i]
<1>1. todo[l] \in Seq(Work) /\ queue[l] \in Seq(Work)
  BY Typed
<1>2. w \in Work /\ w.op \in Ops /\ w.conn \in Conns
  <2>1. w \in Work
    BY <1>1
  <2> HIDE DEF w
  <2> QED BY <2>1 DEF Work, Ops
<1>3. Num(queue[l], w.op, w.conn) # 0
  BY <1>1, NumFacts
<1>4. Num(queue[l], w.op, w.conn) > 0 /\ Wait(l, w.op, w.conn) > 0
  BY <1>3, Typed DEF Wait
<1>5. AtHome(w.conn)
  BY <1>2 DEF TcpInv, ConnInv
<1> QED BY <1>2, <1>3, <1>4, <1>5 DEF AtHome

\* A loop thread that works for a connection which is up finds it owned by the server:
\* the others are waiting for the destructor to reach them.
LEMMA UpIsOwned ==
  ASSUME TcpInv, NEW l \in Loops, todo[l] # <<>>,
         todo[l][1].op \notin {"connectDestroyed", "removeConnectionInLoop"},
         Closable(todo[l][1].conn)
  PROVE  todo[l][1].conn \in connections_
<1> DEFINE c == todo[l][1].conn
<1>1. todo[l] \in Seq(Work) /\ 1 \in DOMAIN todo[l] /\ DOMAIN todo[l] = 1..Len(todo[l])
  BY Typed, TailPlaces
<1>2. c \in Conns /\ l = loop_[c]
  BY <1>1, Found DEF Home
<1>7. object[c] = "live"
  BY <1>2 DEF TcpInv, ConnInv, Stage, Closable, ServerTypeOK, TypeOK
<1> SUFFICES ASSUME c \notin connections_ PROVE FALSE
  OBVIOUS
<1>3. Num(todo[l], "connectDestroyed", c) = 1
  BY <1>2, <1>7 DEF TcpInv, ConnInv, Released
<1>4. PICK i \in DOMAIN todo[l] : todo[l][i].op = "connectDestroyed" /\ todo[l][i].conn = c
  BY <1>1, <1>3, NumFacts
<1>5. 1 < i
  BY <1>1, <1>4
<1>6. Above(todo[l][1], todo[l][i])
  BY <1>1, <1>5 DEF TcpInv, LoopInv, Stack
<1> QED BY <1>4, <1>6 DEF Above, Frames


-----------------------------------------------------------------------------
(* What a step leaves alone.                                               *)

\* A step that does not concern connection d.
SameCounts(d) ==
  \A l \in Loops, op \in Ops :
    /\ Num(todo'[l], op, d) = Num(todo[l], op, d)
    /\ Num(queue'[l], op, d) = Num(queue[l], op, d)

SameState(d) ==
  /\ object'[d] = object[d] /\ state_'[d] = state_[d] /\ loop_'[d] = loop_[d]
  /\ events'[d] = events[d] /\ added'[d] = added[d]
  /\ outputBuffer_'[d] = outputBuffer_[d] /\ finSent'[d] = finSent[d]
  /\ ups'[d] = ups[d] /\ downs'[d] = downs[d]

SameOwners(d) ==
  /\ d \in connections_' <=> d \in connections_
  /\ numThreads_' = numThreads_ /\ (d \in connections_ => serverUp' = serverUp)
  /\ \A t \in Threads : d \in held'[t] <=> d \in held[t]

\* A connection whose work, state and owners stay keeps its invariant.
LEMMA Unconcerned ==
  ASSUME TcpInv, NEW d \in Conns, SameCounts(d), SameState(d), SameOwners(d)
  PROVE  ConnInv(d)'
<1>1. loop_[d] \in Loops /\ base \in Loops
  BY Typed
<1>2. ConnInv(d)
  BY DEF TcpInv
<1>3. \A l \in Loops, op \in Ops : Wait(l, op, d)' = Wait(l, op, d)
  BY DEF SameCounts, Wait
<1>4. Wait(loop_[d], "closeCallback", d)' = Wait(loop_[d], "closeCallback", d)
      /\ Wait(base, "removeConnectionInLoop", d)' = Wait(base, "removeConnectionInLoop", d)
      /\ Wait(loop_[d], "connectDestroyed", d)' = Wait(loop_[d], "connectDestroyed", d)
      /\ Wait(loop_[d], "channelRemove", d)' = Wait(loop_[d], "channelRemove", d)
      /\ Wait(loop_[d], "connectEstablished", d)' = Wait(loop_[d], "connectEstablished", d)
      /\ \A op \in Raw \union {"user"} : Wait(loop_[d], op, d)' = Wait(loop_[d], op, d)
  BY <1>1 DEF SameCounts, SameState, Wait, Ops, Owning, Raw, base
<1>5. /\ Num(todo[loop_[d]], "connectDestroyed", d)' = Num(todo[loop_[d]], "connectDestroyed", d)
      /\ Num(queue[loop_[d]], "connectDestroyed", d)' = Num(queue[loop_[d]], "connectDestroyed", d)
  BY <1>1 DEF SameCounts, SameState, Ops, Owning, Raw
<1>6. Closing(d)' = Closing(d) /\ Leaving(d)' = Leaving(d)
  BY <1>4 DEF Closing, Leaving
<1>7. AtHome(d)'
  BY <1>2, <1>3 DEF ConnInv, AtHome, Home, SameState, SameCounts, base
<1>8. Traffic(d)'
  BY <1>2 DEF ConnInv, Traffic, SameState, Closable
<1>9. Owned(d)'
  BY <1>2, <1>6 DEF ConnInv, Owned, SameState, SameOwners
<1>10. Released(d)'
  BY <1>2, <1>4, <1>5, <1>6 DEF ConnInv, Released, SameState, SameOwners, Closable, Notifications, Raw
<1>11. Stage(d)' /\ Holding(d)'
  BY <1>2, <1>4 DEF ConnInv, Stage, Holding, SameState, SameOwners, base
<1> QED BY <1>7, <1>8, <1>9, <1>10, <1>11 DEF ConnInv

\* A loop thread that stays where it is, while the connections of the loop do not change.
LEMMA StaysPut ==
  ASSUME TcpInv, NEW k \in Loops, todo'[k] = todo[k], Order(queue'[k]),
         \A d \in Conns : loop_[d] = k => state_'[d] = state_[d]
  PROVE  LoopInv(k)'
<1>1. todo[k] \in Seq(Work) /\ (todo[k] # <<>> => 1 \in DOMAIN todo[k])
  BY Typed, TailPlaces
<1>2. LoopInv(k)
  BY DEF TcpInv
<1>3. \A i \in DOMAIN todo[k] : todo[k][i].op # "removeConnectionInLoop"
        => state_'[todo[k][i].conn] = state_[todo[k][i].conn]
  BY Found DEF Home
<1>4. DeletedUp(todo[k])'
  BY <1>2, <1>3 DEF LoopInv, DeletedUp
<1>6. Top(todo[k])'
  BY <1>1, <1>2, <1>3 DEF LoopInv, Top, Closable
<1> QED BY <1>2, <1>4, <1>6 DEF LoopInv

\* The stack of the connection that changes: the connections waiting below.
LEMMA Below ==
  ASSUME TcpInv, NEW l \in Loops, todo[l] # <<>>,
         \A d \in Conns : d # todo[l][1].conn => state_'[d] = state_[d],
         NEW work \in Seq(Work), \A i \in DOMAIN work : work[i].op # "connectDestroyed",
         \/ todo'[l] = work \o Tail(todo[l])
         \/ todo[l][1].op # "connectDestroyed" /\ todo'[l] = work \o todo[l]
  PROVE  DeletedUp(todo[l])'
<1> DEFINE s == todo[l]
<1>1. s \in Seq(Work) /\ s # <<>> /\ Tail(s) \in Seq(Work)
  BY Typed
<1>2. /\ DOMAIN s = 1..Len(s) /\ Len(s) \in Nat \ {0}
      /\ DOMAIN Tail(s) = 1..(Len(s) - 1) /\ Len(Tail(s)) = Len(s) - 1
      /\ \A i \in 1..(Len(s) - 1) : i + 1 \in DOMAIN s /\ Tail(s)[i] = s[i + 1]
  BY <1>1, TailPlaces
<1>3. Stack(s) /\ DeletedUp(s)
  BY DEF TcpInv, LoopInv
<1>4. \A i \in DOMAIN s : s[i].conn \in Conns
  BY Found
<1>5. ASSUME NEW i \in DOMAIN s, i > 1, s[i].op = "connectDestroyed"
      PROVE  state_'[s[i].conn] = "kConnected"
  <2>1. Above(s[1], s[i])
    BY <1>2, <1>3, <1>5 DEF Stack
  <2>2. s[1].conn # s[i].conn
    BY <1>5, <2>1 DEF Above, Frames
  <2> QED BY <1>3, <1>4, <1>5, <2>2 DEF DeletedUp
<1>6. PICK rest \in Seq(Work) :
        /\ todo'[l] = work \o rest
        /\ \A i \in DOMAIN rest : rest[i].op = "connectDestroyed" => state_'[rest[i].conn] = "kConnected"
  <2>1. CASE todo'[l] = work \o Tail(s)
    <3>1. \A i \in DOMAIN Tail(s) : Tail(s)[i].op = "connectDestroyed"
            => state_'[Tail(s)[i].conn] = "kConnected"
      <4> SUFFICES ASSUME NEW i \in DOMAIN Tail(s), Tail(s)[i].op = "connectDestroyed"
                   PROVE  state_'[Tail(s)[i].conn] = "kConnected"
        OBVIOUS
      <4> DEFINE k == i + 1
      <4>1. k \in DOMAIN s /\ k > 1 /\ Tail(s)[i] = s[k]
        BY <1>2
      <4> HIDE DEF k
      <4> QED BY <1>5, <4>1
    <3> QED BY <1>1, <2>1, <3>1, Zenon
  <2>2. CASE s[1].op # "connectDestroyed" /\ todo'[l] = work \o s
    <3>1. \A i \in DOMAIN s : s[i].op = "connectDestroyed" => state_'[s[i].conn] = "kConnected"
      BY <1>2, <1>5, <2>2
    <3> QED BY <1>1, <2>2, <3>1, Zenon
  <2> QED BY <2>1, <2>2
<1>7. ASSUME NEW i \in DOMAIN todo'[l], todo'[l][i].op = "connectDestroyed"
      PROVE  state_'[todo'[l][i].conn] = "kConnected"
  <2>1. /\ DOMAIN work = 1..Len(work) /\ DOMAIN rest = 1..Len(rest)
        /\ Len(work) \in Nat /\ Len(rest) \in Nat
        /\ DOMAIN (work \o rest) = 1..(Len(work) + Len(rest))
        /\ \A j \in 1..(Len(work) + Len(rest)) :
             (work \o rest)[j] = IF j <= Len(work) THEN work[j] ELSE rest[j - Len(work)]
    BY ConcatProperties
  <2>2. i > Len(work) /\ i - Len(work) \in DOMAIN rest /\ todo'[l][i] = rest[i - Len(work)]
    BY <1>6, <1>7, <2>1
  <2> QED BY <1>6, <1>7, <2>2
<1> QED BY <1>7 DEF DeletedUp


-----------------------------------------------------------------------------
(* How a step of a loop thread moves work.                                 *)

\* The top makes way for work.
LEMMA ThenCounts ==
  ASSUME TcpInv, NEW l \in Loops, todo[l] # <<>>, NEW work \in Seq(Work), Then(l, work)
  PROVE  /\ todo' \in [Loops -> Seq(Work)] /\ todo'[l] = work \o Tail(todo[l])
         /\ \A k \in Loops : k # l => todo'[k] = todo[k]
         /\ \A op, d : /\ Num(todo'[l], op, d) \in Nat
                       /\ Num(todo'[l], op, d) + One(todo[l][1], op, d)
                            = Num(todo[l], op, d) + Num(work, op, d)
<1>1. todo[l] \in Seq(Work) /\ Tail(todo[l]) \in Seq(Work) /\ todo \in [Loops -> Seq(Work)]
  BY Typed
<1>2. /\ todo'[l] = work \o Tail(todo[l]) /\ work \o Tail(todo[l]) \in Seq(Work)
      /\ \A k \in Loops : k # l => todo'[k] = todo[k]
      /\ todo' \in [Loops -> Seq(Work)]
  BY <1>1 DEF Then
<1>3. ASSUME NEW op, NEW d
      PROVE  /\ Num(todo'[l], op, d) \in Nat
             /\ Num(todo'[l], op, d) + One(todo[l][1], op, d)
                  = Num(todo[l], op, d) + Num(work, op, d)
  <2>1. Num(todo'[l], op, d) = Num(work, op, d) + Num(Tail(todo[l]), op, d)
    <3> DEFINE t == Tail(todo[l])
    <3>1. t \in Seq(Work) /\ todo'[l] = work \o t
      BY <1>1, <1>2
    <3> HIDE DEF t
    <3>2. Num(work \o t, op, d) = Num(work, op, d) + Num(t, op, d)
      BY <3>1, NumConcat
    <3> QED BY <3>1, <3>2 DEF t
  <2>2. Num(todo[l], op, d) = One(todo[l][1], op, d) + Num(Tail(todo[l]), op, d)
    BY <1>1, NumTail
  <2>3. /\ Num(work, op, d) \in Nat /\ Num(Tail(todo[l]), op, d) \in Nat
        /\ One(todo[l][1], op, d) \in {0, 1}
    BY <1>1, NumFacts DEF One
  <2> QED BY <2>1, <2>2, <2>3
<1> QED BY <1>2, <1>3

\* The top calls work.
LEMMA NowCounts ==
  ASSUME TcpInv, NEW l \in Loops, NEW work \in Seq(Work), Now(l, work)
  PROVE  /\ todo' \in [Loops -> Seq(Work)] /\ todo'[l] = work \o todo[l]
         /\ \A k \in Loops : k # l => todo'[k] = todo[k]
         /\ \A op, d : /\ Num(todo'[l], op, d) \in Nat
                       /\ Num(todo'[l], op, d) = Num(todo[l], op, d) + Num(work, op, d)
<1>1. todo[l] \in Seq(Work) /\ todo \in [Loops -> Seq(Work)]
  BY Typed
<1>2. /\ todo'[l] = work \o todo[l] /\ work \o todo[l] \in Seq(Work)
      /\ \A k \in Loops : k # l => todo'[k] = todo[k]
      /\ todo' \in [Loops -> Seq(Work)]
  BY <1>1 DEF Now
<1>3. ASSUME NEW op, NEW d
      PROVE  /\ Num(todo'[l], op, d) \in Nat
             /\ Num(todo'[l], op, d) = Num(todo[l], op, d) + Num(work, op, d)
  BY <1>1, <1>2, NumConcat, NumFacts
<1> QED BY <1>2, <1>3

\* What queueing functors does to the counts.
LEMMA QueueCounts ==
  ASSUME TcpInv, NEW l \in Loops, NEW more \in Seq(Work), queue' = Queued(l, more)
  PROVE  /\ queue' \in [Loops -> Seq(Work)] /\ queue'[l] = queue[l] \o more
         /\ \A k \in Loops : k # l => queue'[k] = queue[k]
         /\ \A op, d : /\ Num(queue'[l], op, d) \in Nat
                       /\ Num(queue'[l], op, d) = Num(queue[l], op, d) + Num(more, op, d)
<1>1. queue[l] \in Seq(Work) /\ queue \in [Loops -> Seq(Work)]
  BY Typed
<1>2. /\ queue'[l] = queue[l] \o more /\ queue[l] \o more \in Seq(Work)
      /\ \A k \in Loops : k # l => queue'[k] = queue[k]
      /\ queue' \in [Loops -> Seq(Work)]
  BY <1>1 DEF Queued
<1>3. ASSUME NEW op, NEW d
      PROVE  /\ Num(queue'[l], op, d) \in Nat
             /\ Num(queue'[l], op, d) = Num(queue[l], op, d) + Num(more, op, d)
  BY <1>1, <1>2, NumConcat, NumFacts
<1> QED BY <1>2, <1>3

\* Work that takes a connection from one stage to the next.
Tokens == {"connectEstablished", "closeCallback", "removeConnectionInLoop",
           "connectDestroyed", "channelRemove"}

\* What a step within a stage does to the counts of connection c on loop l.
Within(l, c, work, more) ==
  /\ work \in Seq(Work)
  /\ \A i \in DOMAIN work : work[i].conn = c /\ work[i].op \in {"user", "handleClose"} \union Spot
  /\ more \in Seq(Work)
  /\ \A i \in DOMAIN more : more[i].conn = c /\ more[i].op \in Notifications \union {"forceCloseInLoop"}
  /\ Then(l, work) \/ Now(l, work) \/ (work = <<>> /\ todo' = todo)
  /\ queue' = Queued(l, more) \/ (more = <<>> /\ queue' = queue)

\* A step within a stage leaves other connections and the work that moves a
\* connection between stages alone.
LEMMA WithinCounts ==
  ASSUME TcpInv, NEW l \in Loops, NEW c \in Conns, todo[l] # <<>>,
         todo[l][1].conn = c, todo[l][1].op \notin Tokens,
         NEW work, NEW more, Within(l, c, work, more)
  PROVE  /\ todo' \in [Loops -> Seq(Work)] /\ queue' \in [Loops -> Seq(Work)]
         /\ \A k \in Loops : k # l => todo'[k] = todo[k] /\ queue'[k] = queue[k]
         /\ \A d \in Conns : d # c => SameCounts(d)
         /\ \A op \in Ops :
              /\ Num(todo'[l], op, c) \in Nat /\ Num(queue'[l], op, c) \in Nat
              /\ op \in Tokens => /\ Num(todo'[l], op, c) = Num(todo[l], op, c)
                                  /\ Num(queue'[l], op, c) = Num(queue[l], op, c)
              /\ work = <<>> \/ op \notin {"user", "handleClose"} \union Spot
                   => Num(todo'[l], op, c) <= Num(todo[l], op, c)
              /\ more = <<>> \/ op \notin Notifications \union {"forceCloseInLoop"}
                   => Num(queue'[l], op, c) = Num(queue[l], op, c)
<1>1. /\ work \in Seq(Work) /\ more \in Seq(Work)
      /\ todo \in [Loops -> Seq(Work)] /\ queue \in [Loops -> Seq(Work)]
  BY Typed DEF Within
<1>a. /\ \A i \in DOMAIN work : work[i].conn = c /\ work[i].op \in {"user", "handleClose"} \union Spot
      /\ \A i \in DOMAIN more : more[i].conn = c /\ more[i].op \in Notifications \union {"forceCloseInLoop"}
  BY Zenon DEF Within
<1>2. \A op, d : /\ Num(work, op, d) \in Nat /\ Num(more, op, d) \in Nat
                 /\ One(todo[l][1], op, d) \in {0, 1}
  BY <1>1, NumFacts DEF One
<1>3. \A op, d : d # c => Num(work, op, d) = 0 /\ Num(more, op, d) = 0 /\ One(todo[l][1], op, d) = 0
  <2> SUFFICES ASSUME NEW op, NEW d, d # c
               PROVE  Num(work, op, d) = 0 /\ Num(more, op, d) = 0 /\ One(todo[l][1], op, d) = 0
    OBVIOUS
  <2>1. Num(work, op, d) = 0
    <3>1. \A i \in DOMAIN work : ~(work[i].op = op /\ work[i].conn = d)
      BY <1>a
    <3> QED BY <1>1, <3>1, NumFacts
  <2>2. Num(more, op, d) = 0
    <3>1. \A i \in DOMAIN more : ~(more[i].op = op /\ more[i].conn = d)
      BY <1>a
    <3> QED BY <1>1, <3>1, NumFacts
  <2>3. One(todo[l][1], op, d) = 0
    BY DEF One
  <2> QED BY <2>1, <2>2, <2>3
<1>4. \A op : work = <<>> \/ op \notin {"user", "handleClose"} \union Spot => Num(work, op, c) = 0
  <2> SUFFICES ASSUME NEW op, work = <<>> \/ op \notin {"user", "handleClose"} \union Spot
               PROVE  Num(work, op, c) = 0
    OBVIOUS
  <2>1. \A i \in DOMAIN work : ~(work[i].op = op /\ work[i].conn = c)
    BY <1>a
  <2> QED BY <1>1, <2>1, NumFacts
<1>5. \A op : more = <<>> \/ op \notin Notifications \union {"forceCloseInLoop"} => Num(more, op, c) = 0
  <2> SUFFICES ASSUME NEW op, more = <<>> \/ op \notin Notifications \union {"forceCloseInLoop"}
               PROVE  Num(more, op, c) = 0
    OBVIOUS
  <2>1. \A i \in DOMAIN more : ~(more[i].op = op /\ more[i].conn = c)
    BY <1>a
  <2> QED BY <1>1, <2>1, NumFacts
<1>6. \A op \in Tokens : /\ One(todo[l][1], op, c) = 0
                         /\ op \notin {"user", "handleClose"} \union Spot
                         /\ op \notin Notifications \union {"forceCloseInLoop"}
  BY DEF One, Tokens, Spot, Notifications
<1>7. /\ todo' \in [Loops -> Seq(Work)] /\ \A k \in Loops : k # l => todo'[k] = todo[k]
      /\ \A op, d : /\ Num(todo'[l], op, d) \in Nat
                    /\ \/ Num(todo'[l], op, d) = Num(todo[l], op, d) + Num(work, op, d)
                       \/ Num(todo'[l], op, d) + One(todo[l][1], op, d)
                            = Num(todo[l], op, d) + Num(work, op, d)
  <2>1. CASE Then(l, work)
    BY <1>1, <2>1, ThenCounts
  <2>2. CASE Now(l, work)
    <3>1. /\ todo' \in [Loops -> Seq(Work)] /\ \A k \in Loops : k # l => todo'[k] = todo[k]
          /\ \A op, d : /\ Num(todo'[l], op, d) \in Nat
                        /\ Num(todo'[l], op, d) = Num(todo[l], op, d) + Num(work, op, d)
      BY <1>1, <2>2, NowCounts
    <3> QED BY <3>1, Zenon
  <2>3. CASE work = <<>> /\ todo' = todo
    BY <1>1, <2>3, NumFacts
  <2> QED BY <2>1, <2>2, <2>3 DEF Within
<1>8. /\ queue' \in [Loops -> Seq(Work)] /\ \A k \in Loops : k # l => queue'[k] = queue[k]
      /\ \A op, d : /\ Num(queue'[l], op, d) \in Nat
                    /\ Num(queue'[l], op, d) = Num(queue[l], op, d) + Num(more, op, d)
  <2>1. CASE queue' = Queued(l, more)
    BY <1>1, <2>1, QueueCounts
  <2>2. CASE more = <<>> /\ queue' = queue
    BY <1>1, <2>2, NumFacts
  <2> QED BY <2>1, <2>2 DEF Within
<1>9. \A op, d : Num(todo[l], op, d) \in Nat /\ Num(queue[l], op, d) \in Nat
  BY Typed
<1>10. ASSUME NEW d \in Conns, d # c PROVE SameCounts(d)
  <2>1. ASSUME NEW k \in Loops, NEW op \in Ops
        PROVE  /\ Num(todo'[k], op, d) = Num(todo[k], op, d)
               /\ Num(queue'[k], op, d) = Num(queue[k], op, d)
    <3>1. CASE k # l
      BY <1>7, <1>8, <3>1
    <3>2. CASE k = l
      <4>1. Num(work, op, d) = 0 /\ Num(more, op, d) = 0 /\ One(todo[l][1], op, d) = 0
        BY <1>3, <1>10
      <4> QED BY <1>7, <1>8, <1>9, <3>2, <4>1
    <3> QED BY <3>1, <3>2
  <2> QED BY <2>1 DEF SameCounts
<1>11. ASSUME NEW op \in Tokens
       PROVE  /\ Num(todo'[l], op, c) = Num(todo[l], op, c)
              /\ Num(queue'[l], op, c) = Num(queue[l], op, c)
  <2>1. Num(work, op, c) = 0 /\ Num(more, op, c) = 0 /\ One(todo[l][1], op, c) = 0
    BY <1>4, <1>5, <1>6
  <2> HIDE DEF Tokens
  <2> QED BY <1>7, <1>8, <1>9, <2>1
<1>12. ASSUME NEW op \in Ops, work = <<>> \/ op \notin {"user", "handleClose"} \union Spot
       PROVE  Num(todo'[l], op, c) <= Num(todo[l], op, c)
  <2>1. Num(work, op, c) = 0 /\ One(todo[l][1], op, c) \in {0, 1}
    BY <1>2, <1>4, <1>12
  <2> QED BY <1>7, <1>9, <2>1
<1>13. ASSUME NEW op \in Ops, more = <<>> \/ op \notin Notifications \union {"forceCloseInLoop"}
       PROVE  Num(queue'[l], op, c) = Num(queue[l], op, c)
  <2>1. Num(more, op, c) = 0
    BY <1>5, <1>13
  <2> QED BY <1>8, <1>9, <2>1
<1> QED BY <1>7, <1>8, <1>10, <1>11, <1>12, <1>13


\* Such a step keeps what is said of connections, if it keeps what the channel asks
\* for in line with the buffer and leaves a connection that left its loop alone.
LEMMA WithinStage ==
  ASSUME TcpInv, NEW l \in Loops, NEW c \in Conns, todo[l] # <<>>,
         todo[l][1].conn = c, todo[l][1].op \notin Tokens,
         object[c] = "live", NEW work, NEW more, Within(l, c, work, more),
         UNCHANGED <<object, loop_, held, serverVars>>,
         \A d \in Conns : d # c => SameState(d),
         Traffic(c)',
         state_'[c] = state_[c] \/ (c \in connections_ /\ Closable(c) /\ Closable(c)'),
         c \notin connections_ => more = <<>>,
         c \notin connections_ /\ Leaving(c) = 0 => work = <<>> /\ added'[c] = added[c]
  PROVE  \A d \in Conns : ConnInv(d)'
<1>1. /\ \A k \in Loops : k # l => todo'[k] = todo[k] /\ queue'[k] = queue[k]
      /\ \A d \in Conns : d # c => SameCounts(d)
      /\ \A op \in Ops :
           /\ Num(todo'[l], op, c) \in Nat /\ Num(queue'[l], op, c) \in Nat
           /\ op \in Tokens => /\ Num(todo'[l], op, c) = Num(todo[l], op, c)
                               /\ Num(queue'[l], op, c) = Num(queue[l], op, c)
           /\ work = <<>> \/ op \notin {"user", "handleClose"} \union Spot
                => Num(todo'[l], op, c) <= Num(todo[l], op, c)
           /\ more = <<>> \/ op \notin Notifications \union {"forceCloseInLoop"}
                => Num(queue'[l], op, c) = Num(queue[l], op, c)
  BY WithinCounts
<1>2. ASSUME NEW d \in Conns, d # c PROVE ConnInv(d)'
  <2>1. SameCounts(d) /\ SameState(d) /\ SameOwners(d)
    BY <1>1, <1>2 DEF SameOwners, serverVars
  <2> QED BY <2>1, Unconcerned
<1>3. 1 \in DOMAIN todo[l]
  BY Typed, TailPlaces
<1>4. l = loop_[c] /\ object[c] = "live" /\ state_[c] # "kConnecting"
  BY <1>3, Found DEF Home, Tokens
<1>5. ConnInv(c)
  BY DEF TcpInv
<1>6. \A k \in Loops, op \in Ops : Num(todo[k], op, c) \in Nat /\ Num(queue[k], op, c) \in Nat
  BY Typed
<1>7. \A k \in Loops, op \in Tokens : /\ Num(todo'[k], op, c) = Num(todo[k], op, c)
                                      /\ Num(queue'[k], op, c) = Num(queue[k], op, c)
  BY <1>1 DEF Tokens, Ops, Owning
<1>8. \A k \in Loops, op \in Tokens : Wait(k, op, c)' = Wait(k, op, c)
  BY <1>7 DEF Wait
<1>9. base \in Loops /\ loop_'[c] = l /\ loop_' = loop_ /\ base' = base
  BY <1>4, Typed DEF base
<1>10. Closing(c)' = Closing(c) /\ Leaving(c)' = Leaving(c)
  <2>1. /\ Wait(l, "closeCallback", c)' = Wait(l, "closeCallback", c)
        /\ Wait(base, "removeConnectionInLoop", c)' = Wait(base, "removeConnectionInLoop", c)
        /\ Wait(l, "connectDestroyed", c)' = Wait(l, "connectDestroyed", c)
        /\ Wait(l, "channelRemove", c)' = Wait(l, "channelRemove", c)
    BY <1>8, <1>9 DEF Tokens
  <2> QED BY <1>4, <1>9, <2>1 DEF Closing, Leaving
<1>11. state_'[c] # "kConnecting" /\ (state_'[c] = "kDisconnected" <=> state_[c] = "kDisconnected")
  BY <1>4 DEF Closable
<1>12. AtHome(c)'
  <2> SUFFICES ASSUME NEW k \in Loops, NEW op \in Ops
               PROVE  /\ Wait(k, op, c)' > 0 =>
                           /\ k = Home(op, c) /\ object[c] = "live"
                           /\ op # "connectEstablished" => state_'[c] # "kConnecting"
                      /\ op \notin Functors => Num(queue'[k], op, c) = 0
    <3>1. object'[c] = object[c] /\ \A o : Home(o, c)' = Home(o, c)
      BY <1>9 DEF Home
    <3> QED BY <3>1 DEF AtHome
  <2>1. op \notin Functors => Num(queue[k], op, c) = 0
    BY <1>5 DEF ConnInv, AtHome
  <2>2. op \notin Functors => Num(queue'[k], op, c) = 0
    <3>1. CASE k # l
      BY <1>1, <2>1, <3>1
    <3>2. CASE k = l
      BY <1>1, <2>1, <3>2 DEF Functors
    <3> QED BY <3>1, <3>2
  <2>3. CASE Wait(k, op, c) > 0
    BY <1>4, <1>5, <1>11, <2>2, <2>3 DEF ConnInv, AtHome
  <2>4. CASE ~(Wait(k, op, c) > 0) /\ k # l
    <3>1. Wait(k, op, c)' = Wait(k, op, c)
      BY <1>1, <2>4 DEF Wait
    <3> QED BY <2>2, <2>4, <3>1
  <2>5. CASE ~(Wait(k, op, c) > 0) /\ k = l
    <3>1. Num(todo[l], op, c) = 0 /\ Num(queue[l], op, c) = 0
      BY <1>6, <2>5 DEF Wait
    <3>2. CASE op = "removeConnectionInLoop"
      <4>1. Wait(l, op, c)' = 0
        BY <1>8, <2>5, <3>1, <3>2 DEF Wait, Tokens
      <4> QED BY <2>2, <2>5, <4>1
    <3>3. CASE op # "removeConnectionInLoop"
      BY <1>4, <1>11, <2>2, <2>5, <3>3 DEF Home
    <3> QED BY <3>2, <3>3
  <2> QED BY <2>3, <2>4, <2>5
<1>13. Owned(c)'
  BY <1>4, <1>5, <1>10, <1>11 DEF ConnInv, Owned, serverVars
<1>14. Released(c)'
  <2> SUFFICES ASSUME c \notin connections_ PROVE Released(c)'
    BY DEF Released, serverVars
  <2>1. /\ more = <<>> /\ state_'[c] = state_[c]
        /\ \A op \in Notifications : Num(todo'[l], op, c) <= Num(todo[l], op, c)
        /\ \A op \in Ops : Num(queue'[l], op, c) = Num(queue[l], op, c)
    BY <1>1 DEF Notifications, Spot, Ops, Raw
  <2>2. /\ Closing(c) = 0 /\ Leaving(c) \in {0, 1}
        /\ Closable(c) => state_[c] = "kConnected" /\ Num(todo[l], "connectDestroyed", c) = 1
        /\ Num(queue[l], "connectDestroyed", c) = 0
             => \A op \in Notifications : Wait(l, op, c) = 0
        /\ Leaving(c) = 0 =>
             ~added[c] /\ \A op \in (Raw \ {"sendInLoop"}) \union {"user"} : Wait(l, op, c) = 0
    BY <1>4, <1>5 DEF ConnInv, Released
  <2>3. Num(todo'[l], "connectDestroyed", c) = Num(todo[l], "connectDestroyed", c)
        /\ Num(queue'[l], "connectDestroyed", c) = Num(queue[l], "connectDestroyed", c)
    BY <1>7 DEF Tokens
  <2>4. \A op \in Notifications : Wait(l, op, c) = 0 => Wait(l, op, c)' = 0
    <3>1. Notifications \subseteq Ops
      BY DEF Notifications, Ops, Raw
    <3> HIDE DEF Notifications, Ops
    <3> QED BY <1>1, <1>6, <2>1, <3>1 DEF Wait
  <2>5. ASSUME Leaving(c) = 0, NEW op \in (Raw \ {"sendInLoop"}) \union {"user"}
        PROVE  Wait(l, op, c)' = 0
    <3>1. op \in Ops /\ Wait(l, op, c) = 0 /\ work = <<>>
      BY <2>2, <2>5 DEF Ops, Owning, Raw
    <3>2. Num(todo'[l], op, c) <= Num(todo[l], op, c) /\ Num(todo'[l], op, c) \in Nat
          /\ Num(queue'[l], op, c) = Num(queue[l], op, c)
      BY <1>1, <2>1, <3>1
    <3> QED BY <1>6, <3>1, <3>2 DEF Wait
  <2> QED BY <1>4, <1>9, <1>10, <1>11, <2>1, <2>2, <2>3, <2>4, <2>5 DEF Released, Closable
<1>15. Stage(c)'
  <2>1. Wait(l, "connectEstablished", c)' = Wait(l, "connectEstablished", c)
    BY <1>8 DEF Tokens
  <2> QED BY <1>4, <1>5, <1>9, <1>11, <2>1 DEF ConnInv, Stage, serverVars
<1>16. Holding(c)'
  BY <1>4, <1>5, <1>11 DEF ConnInv, Holding
<1>17. ConnInv(c)'
  BY <1>12, <1>13, <1>14, <1>15, <1>16 DEF ConnInv
<1> QED BY <1>2, <1>17


\* A step of loop l that works for connection c at the top of its stack.
WorksFor(l, c) ==
  /\ todo[l] # <<>> /\ todo[l][1].conn = c
  /\ loop_[c] = l \/ state_' = state_
  /\ held' = held
  /\ \A d \in Conns : d # c => state_'[d] = state_[d]
  /\ \A k \in Loops : Order(queue'[k])

\* The other loops, and the connections waiting in the stack of this one.
LEMMA WorksForRest ==
  ASSUME TcpInv, NEW l \in Loops, NEW c \in Conns, WorksFor(l, c),
         NEW work \in Seq(Work), \A i \in DOMAIN work : work[i].op # "connectDestroyed",
         \/ Then(l, work)
         \/ todo[l][1].op # "connectDestroyed" /\ Now(l, work),
         Stack(todo'[l]), Top(todo[l])'
  PROVE  \A k \in Loops : LoopInv(k)'
<1>1. /\ \/ todo'[l] = work \o Tail(todo[l])
         \/ todo[l][1].op # "connectDestroyed" /\ todo'[l] = work \o todo[l]
      /\ \A k \in Loops : k # l => todo'[k] = todo[k]
  BY ThenCounts, NowCounts DEF WorksFor
<1>2. DeletedUp(todo[l])'
  BY <1>1, Below DEF WorksFor
<1>3. LoopInv(l)'
  BY <1>2 DEF LoopInv, WorksFor
<1>4. ASSUME NEW k \in Loops, k # l PROVE LoopInv(k)'
  <2>1. \A d \in Conns : loop_[d] = k => state_'[d] = state_[d]
    BY <1>4 DEF WorksFor
  <2> QED BY <1>1, <1>4, <2>1, StaysPut DEF WorksFor
<1> QED BY <1>3, <1>4

\* The top returns.
LEMMA PopLoops ==
  ASSUME TcpInv, NEW l \in Loops, NEW c \in Conns, WorksFor(l, c), Then(l, <<>>)
  PROVE  \A k \in Loops : LoopInv(k)'
<1>1. todo[l] \in Seq(Work) /\ Tail(todo[l]) \in Seq(Work) /\ Stack(todo[l]) /\ todo[l] # <<>>
  BY Typed DEF TcpInv, LoopInv, WorksFor
<1>2. <<>> \in Seq(Work) /\ DOMAIN <<>> = {}
  OBVIOUS
<1>3. todo'[l] = <<>> \o Tail(todo[l])
  BY <1>1, <1>2, ThenCounts
<1>4. todo'[l] = Tail(todo[l])
  BY <1>1, <1>3
<1>5. Stack(todo'[l])
  BY <1>1, <1>4, StackTail
<1>6. todo'[l] # <<>> => todo'[l][1].op \in Frames \union {"connectDestroyed"}
  BY <1>1, <1>4, StackBelow
<1>7. Top(todo[l])'
  BY <1>6 DEF Top, Frames, Spot
<1> QED BY <1>2, <1>5, <1>7, WorksForRest

\* The top makes way for w.
LEMMA PutLoops ==
  ASSUME TcpInv, NEW l \in Loops, NEW c \in Conns, WorksFor(l, c),
         NEW w \in Work, w.conn = c, Then(l, <<w>>), Rank(w.op) <= Rank(todo[l][1].op),
         w.op \notin Spot \union {"handleWrite", "handleRead", "connectDestroyed"},
         w.op = "handleClose" => Closable(c)'
  PROVE  \A k \in Loops : LoopInv(k)'
<1>1. todo[l] \in Seq(Work) /\ Tail(todo[l]) \in Seq(Work) /\ Stack(todo[l]) /\ todo[l] # <<>>
  BY Typed DEF TcpInv, LoopInv, WorksFor
<1>2. <<w>> \in Seq(Work) /\ \A i \in DOMAIN <<w>> : <<w>>[i] = w
  OBVIOUS
<1>3. todo'[l] = <<w>> \o Tail(todo[l])
  BY <1>1, <1>2, ThenCounts
<1>4. Stack(todo'[l])
  BY <1>1, <1>3, StackReplace DEF WorksFor
<1>5. todo'[l][1] = w
  BY <1>1, <1>3
<1>6. Top(todo[l])'
  BY <1>5 DEF Top, Spot, Closable
<1> QED BY <1>2, <1>4, <1>6, WorksForRest

\* The callback at the top calls w.
LEMMA CallLoops ==
  ASSUME TcpInv, NEW l \in Loops, NEW c \in Conns, WorksFor(l, c), todo[l][1].op = "user",
         NEW w \in Work, w.conn = c, w.op \in Spot, Now(l, <<w>>),
         w.op \in {"startReadInLoop", "shutdownInLoop"} => Closable(c)'
  PROVE  \A k \in Loops : LoopInv(k)'
<1>1. todo[l] \in Seq(Work) /\ Stack(todo[l]) /\ todo[l] # <<>>
  BY Typed DEF TcpInv, LoopInv, WorksFor
<1>2. <<w>> \in Seq(Work) /\ \A i \in DOMAIN <<w>> : <<w>>[i] = w
  OBVIOUS
<1>3. todo'[l] = <<w>> \o todo[l]
  BY <1>2, NowCounts
<1>4. Stack(todo'[l])
  <2>1. Rank(w.op) < Rank("user") /\ "user" \in Frames /\ w.op # "handleWrite"
    BY DEF Rank, Frames, Spot
  <2> QED BY <1>1, <1>3, <2>1, StackOn DEF WorksFor
<1>5. todo'[l][1] = w /\ Len(todo'[l]) > 1 /\ todo'[l][2] = todo[l][1]
  BY <1>1, <1>3
<1>6. Top(todo[l])'
  BY <1>5 DEF Top, Spot, Closable, WorksFor
<1> QED BY <1>2, <1>4, <1>6, WorksForRest DEF Spot


-----------------------------------------------------------------------------
(* Steps within a stage that change nothing but the stack.                 *)

\* What the invariant says of the work at the top of a stack.
LEMMA AtTop ==
  ASSUME TcpInv, NEW l \in Loops, NEW c \in Conns, NEW op, At(l, op, c)
  PROVE  /\ todo[l] # <<>> /\ todo[l][1].op = op /\ todo[l][1].conn = c
         /\ todo[l] \in Seq(Work) /\ todo[l][1] = Head(todo[l])
         /\ op \in Ops /\ l = Home(op, c) /\ object[c] = "live"
         /\ op # "connectEstablished" => state_[c] # "kConnecting"
         /\ Num(todo[l], op, c) > 0 /\ Wait(l, op, c) > 0
<1>1. /\ todo[l] # <<>> /\ todo[l][1].op = op /\ todo[l][1].conn = c
      /\ todo[l] \in Seq(Work) /\ todo[l][1] = Head(todo[l]) /\ 1 \in DOMAIN todo[l]
  BY Typed DEF At
<1> QED BY <1>1, Found DEF At

\* The work that is done for a connection is typed.
LEMMA DoWork ==
  ASSUME NEW c \in Conns, NEW op \in Ops
  PROVE  Do(op, c) \in Work /\ Do(op, c).op = op /\ Do(op, c).conn = c
BY DEF Do, Work, Ops

Quiet == UNCHANGED <<object, connVars, loop_, timers, queue, threadVars, calls, aborted, serverVars>>

\* What a step that changes only the stacks keeps.
LEMMA QuietKeeps ==
  ASSUME TcpInv, Quiet, todo' \in [Loops -> Seq(Work)]
  PROVE  /\ ServerTypeOK' /\ Calm' /\ IsFiniteSet(connections_)'
         /\ \A t \in Threads : ThreadInv(t)'
         /\ \A d \in Conns : SameState(d) /\ (Traffic(d) => Traffic(d)')
         /\ \A k \in Loops : Order(queue'[k])
<1> USE DEF Quiet, connVars, threadVars, serverVars
<1>1. ServerTypeOK' /\ Calm' /\ IsFiniteSet(connections_)'
  BY DEF TcpInv, ServerTypeOK, TypeOK, Calm
<1>2. \A t \in Threads : ThreadInv(t)'
  BY DEF TcpInv, ThreadInv
<1>3. \A d \in Conns : SameState(d)
  BY DEF SameState
<1>4. \A d \in Conns : Traffic(d) => Traffic(d)'
  BY DEF Traffic, Closable
<1>5. \A k \in Loops : Order(queue'[k])
  BY DEF TcpInv, LoopInv
<1> QED BY <1>1, <1>2, <1>3, <1>4, <1>5

\* A step that only ends the work at the top keeps the invariant.
LEMMA QuietPop ==
  ASSUME TcpInv, NEW l \in Loops, NEW c \in Conns, NEW op \in Ops \ Tokens, At(l, op, c),
         Then(l, <<>>), Quiet
  PROVE  TcpInv'
<1>1. object[c] = "live" /\ todo[l] # <<>> /\ todo[l][1].conn = c /\ todo[l][1].op \notin Tokens
  BY AtTop
<1>2. Within(l, c, <<>>, <<>>)
  BY DEF Within, Quiet
<1>3. todo' \in [Loops -> Seq(Work)]
  <2>1. <<>> \in Seq(Work)
    OBVIOUS
  <2> QED BY <1>1, <2>1, ThenCounts
<1>4. /\ ServerTypeOK' /\ Calm' /\ IsFiniteSet(connections_)'
      /\ \A t \in Threads : ThreadInv(t)'
      /\ \A d \in Conns : SameState(d) /\ (Traffic(d) => Traffic(d)')
      /\ \A k \in Loops : Order(queue'[k])
  BY <1>3, QuietKeeps
<1>5. /\ UNCHANGED <<object, loop_, held, late, serverVars>> /\ state_' = state_
      /\ added' = added
  BY DEF Quiet, connVars, threadVars
<1>6. Traffic(c)'
  BY <1>4 DEF TcpInv, ConnInv
<1>7. \A d \in Conns : ConnInv(d)'
  BY <1>1, <1>2, <1>4, <1>5, <1>6, WithinStage
<1>8. WorksFor(l, c)
  BY <1>1, <1>4, <1>5 DEF WorksFor
<1>9. \A k \in Loops : LoopInv(k)'
  BY <1>8, PopLoops
<1> QED BY <1>4, <1>7, <1>9 DEF TcpInv

\* So does one that calls user code or handleClose in its place.
LEMMA QuietPut ==
  ASSUME TcpInv, NEW l \in Loops, NEW c \in Conns, NEW op \in Ops \ Tokens, At(l, op, c),
         NEW new \in {"user", "handleClose"}, Then(l, <<Do(new, c)>>), Quiet,
         Rank(new) <= Rank(op), new = "handleClose" => Closable(c),
         c \notin connections_ => Leaving(c) # 0
  PROVE  TcpInv'
<1> DEFINE w == Do(new, c)
<1>1. /\ object[c] = "live" /\ todo[l] # <<>> /\ todo[l][1].conn = c
      /\ todo[l][1].op \notin Tokens /\ todo[l][1].op = op
  BY AtTop
<1>2. w \in Work /\ w.op = new /\ w.conn = c
  BY DoWork DEF Ops, Owning
<1> HIDE DEF w
<1>3. Then(l, <<w>>) /\ <<w>> \in Seq(Work)
  BY <1>2 DEF w
<1>4. Within(l, c, <<w>>, <<>>)
  BY <1>2, <1>3 DEF Within, Quiet
<1>5. todo' \in [Loops -> Seq(Work)]
  BY <1>1, <1>3, ThenCounts
<1>6. /\ ServerTypeOK' /\ Calm' /\ IsFiniteSet(connections_)'
      /\ \A t \in Threads : ThreadInv(t)'
      /\ \A d \in Conns : SameState(d) /\ (Traffic(d) => Traffic(d)')
      /\ \A k \in Loops : Order(queue'[k])
  BY <1>5, QuietKeeps
<1>7. /\ UNCHANGED <<object, loop_, held, late, serverVars>> /\ state_' = state_
      /\ added' = added
  BY DEF Quiet, connVars, threadVars
<1>8. Traffic(c)'
  BY <1>6 DEF TcpInv, ConnInv
<1>9. \A d \in Conns : ConnInv(d)'
  BY <1>1, <1>4, <1>6, <1>7, <1>8, WithinStage
<1>10. WorksFor(l, c)
  BY <1>1, <1>6, <1>7 DEF WorksFor
<1>11. Closable(c)' <=> Closable(c)
  BY <1>7 DEF Closable
<1>12. w.op \notin Spot \union {"handleWrite", "handleRead", "connectDestroyed"}
  BY <1>2 DEF Spot
<1>13. \A k \in Loops : LoopInv(k)'
  BY <1>1, <1>2, <1>3, <1>10, <1>11, <1>12, PutLoops
<1> QED BY <1>6, <1>9, <1>13 DEF TcpInv

\* The end of an event, handleRead, a send to a connection that is down,
\* forceCloseInLoop, notifications and the return of a callback are such steps.
LEMMA QuietSteps ==
  ASSUME TcpInv, NEW l \in Loops, NEW c \in Conns, UNCHANGED serverVars,
         \/ EventEnd(l, c) \/ handleRead(l, c) \/ SendDisconnected(l, c)
         \/ forceCloseInLoop(l, c) \/ Notify(l, c) \/ UserReturns(l, c)
  PROVE  TcpInv'
<1> USE DEF Runs
<1>1. /\ {"eventEnd", "handleRead", "sendInLoop", "forceCloseInLoop", "user",
          "writeCompleteCallback", "highWaterMarkCallback"} \subseteq Ops \ Tokens
  BY DEF Ops, Owning, Raw, Tokens
<1>2. CASE EventEnd(l, c)
  BY <1>1, <1>2, QuietPop DEF EventEnd, Quiet
<1>3. CASE SendDisconnected(l, c)
  BY <1>1, <1>3, QuietPop DEF SendDisconnected, Quiet
<1>4. CASE UserReturns(l, c)
  BY <1>1, <1>4, QuietPop DEF UserReturns, Quiet
<1>5. CASE handleRead(l, c)
  <2>1. At(l, "handleRead", c) /\ Quiet
    BY <1>5 DEF handleRead, Quiet
  <2>2. todo[l] # <<>> /\ todo[l][1].op = "handleRead" /\ todo[l][1].conn = c
    BY <2>1, AtTop
  <2>3. Closable(c)
    BY <2>2 DEF TcpInv, LoopInv, Top
  <2>4. c \in connections_
    BY <2>2, <2>3, UpIsOwned
  <2>5. Rank("user") <= Rank("handleRead") /\ Rank("handleClose") <= Rank("handleRead")
    BY DEF Rank, Spot, Notifications
  <2>6. CASE Then(l, <<>>)
    BY <1>1, <2>1, <2>6, QuietPop
  <2>7. CASE Then(l, <<Do("user", c)>>)
    BY <1>1, <2>1, <2>4, <2>5, <2>7, QuietPut
  <2>8. CASE Then(l, <<Do("handleClose", c)>>)
    BY <1>1, <2>1, <2>3, <2>4, <2>5, <2>8, QuietPut
  <2> QED BY <1>5, <2>6, <2>7, <2>8 DEF handleRead
<1>6. CASE forceCloseInLoop(l, c)
  <2>1. At(l, "forceCloseInLoop", c) /\ Quiet
    BY <1>6 DEF forceCloseInLoop, Quiet
  <2>2. todo[l] # <<>> /\ todo[l][1].op = "forceCloseInLoop" /\ todo[l][1].conn = c
    BY <2>1, AtTop
  <2>3. CASE Closable(c)
    <3>1. c \in connections_
      BY <2>2, <2>3, UpIsOwned
    <3>2. Rank("handleClose") <= Rank("forceCloseInLoop")
      BY DEF Rank, Spot, Notifications
    <3> QED BY <1>1, <1>6, <2>1, <2>3, <3>1, <3>2, QuietPut DEF forceCloseInLoop
  <2>4. CASE ~Closable(c)
    BY <1>1, <1>6, <2>1, <2>4, QuietPop DEF forceCloseInLoop
  <2> QED BY <2>3, <2>4
<1>7. CASE Notify(l, c)
  <2> SUFFICES ASSUME NEW op \in Notifications, Runs(l, op, c) PROVE TcpInv'
    BY <1>7 DEF Notify, Notifications
  <2>1. At(l, op, c) /\ Quiet /\ Then(l, <<Do("user", c)>>)
    BY <1>7 DEF Notify, Quiet
  <2>2. Wait(l, op, c) > 0 /\ l = loop_[c] /\ object[c] = "live"
    BY <2>1, AtTop DEF Home, Notifications
  <2>3. c \notin connections_ => Leaving(c) # 0
    BY <2>2 DEF TcpInv, ConnInv, Released, Notifications, Raw
  <2>4. Rank("user") <= Rank(op) /\ op \in Ops \ Tokens
    BY <1>1 DEF Rank, Spot, Notifications
  <2> QED BY <2>1, <2>3, <2>4, QuietPut
<1> QED BY <1>2, <1>3, <1>4, <1>5, <1>6, <1>7


-----------------------------------------------------------------------------
(* Steps within a stage that change the connection.                        *)

\* A step within a stage keeps the invariant if it keeps the stacks in order and
\* the traffic of its connection.
LEMMA WithinStep ==
  ASSUME TcpInv, NEW l \in Loops, NEW c \in Conns, NEW op \in Ops \ Tokens, At(l, op, c),
         NEW work, NEW more, Within(l, c, work, more),
         UNCHANGED <<object, loop_, threadVars, aborted, serverVars>>,
         ServerTypeOK', \A k \in Loops : LoopInv(k)',
         \A d \in Conns : d # c => SameState(d),
         Traffic(c)',
         state_'[c] = state_[c] \/ (c \in connections_ /\ Closable(c) /\ Closable(c)'),
         c \notin connections_ => more = <<>>,
         c \notin connections_ /\ Leaving(c) = 0 => work = <<>> /\ added'[c] = added[c]
  PROVE  TcpInv'
<1>1. object[c] = "live" /\ todo[l] # <<>> /\ todo[l][1].conn = c /\ todo[l][1].op \notin Tokens
  BY AtTop
<1>2. UNCHANGED <<object, loop_, held, late, serverVars>>
  BY DEF threadVars
<1>3. \A d \in Conns : ConnInv(d)'
  BY <1>1, <1>2, WithinStage
<1>4. Calm' /\ IsFiniteSet(connections_)'
  BY DEF TcpInv, Calm, serverVars
<1>5. \A t \in Threads : ThreadInv(t)'
  BY DEF TcpInv, ThreadInv, threadVars
<1> QED BY <1>3, <1>4, <1>5 DEF TcpInv

\* Owned connections have no connectDestroyed waiting, so that what is appended
\* for them keeps the order.
LEMMA AppendedFor ==
  ASSUME TcpInv, NEW c \in Conns, c \in connections_, NEW w \in Work, w.conn = c,
         queue' = Queued(loop_[c], <<w>>)
  PROVE  \A k \in Loops : Order(queue'[k])
<1>1. loop_[c] \in Loops /\ queue \in [Loops -> Seq(Work)] /\ <<w>> \in Seq(Work)
  BY Typed
<1>2. /\ queue'[loop_[c]] = queue[loop_[c]] \o <<w>>
      /\ \A k \in Loops : k # loop_[c] => queue'[k] = queue[k]
  BY <1>1, QueueCounts
<1>3. Leaving(c) = 0
  BY DEF TcpInv, ConnInv, Owned
<1>4. Num(queue[loop_[c]], "connectDestroyed", c) = 0
  BY <1>1, <1>3, Typed DEF Leaving, Wait
<1>5. \A k \in Loops : Order(queue[k])
  BY DEF TcpInv, LoopInv
<1>6. Order(queue'[loop_[c]])
  BY <1>1, <1>2, <1>4, <1>5, OrderAppend
<1> QED BY <1>2, <1>5, <1>6

\* shutdownInLoop (TcpConnection.cc:135-140).
LEMMA ShutdownInLoopStep ==
  ASSUME TcpInv, NEW l \in Loops, NEW c \in Conns, UNCHANGED serverVars, shutdownInLoop(l, c)
  PROVE  TcpInv'
<1> USE DEF shutdownInLoop, Runs
<1>1. /\ todo[l] # <<>> /\ todo[l][1].op = "shutdownInLoop" /\ todo[l][1].conn = c
      /\ l = loop_[c]
  BY AtTop DEF Home
<1>2. Closable(c)
  BY <1>1 DEF TcpInv, LoopInv, Top
<1>3. c \in connections_
  BY <1>1, <1>2, UpIsOwned
<1>4. <<>> \in Seq(Work) /\ Within(l, c, <<>>, <<>>)
  BY DEF Within
<1>5. todo' \in [Loops -> Seq(Work)]
  BY <1>1, <1>4, ThenCounts
<1>6. ServerTypeOK'
  BY <1>5 DEF TcpInv, ServerTypeOK, TypeOK, threadVars, serverVars, MayShut
<1>7. \A d \in Conns : d # c => SameState(d)
  BY DEF SameState, TcpInv, ServerTypeOK, TypeOK
<1>8. Traffic(c)'
  <2>1. Traffic(c) /\ finSent'[c] = (finSent[c] \/ MayShut(c))
    BY DEF TcpInv, ConnInv, ServerTypeOK, TypeOK
  <2>2. outputBuffer_[c] \in Nat
    BY DEF TcpInv, ServerTypeOK, TypeOK
  <2>3. finSent'[c] => outputBuffer_[c] = 0
    <3>1. CASE MayShut(c)
      BY <1>2, <2>1, <2>2, <3>1 DEF Traffic, MayShut
    <3>2. CASE ~MayShut(c)
      BY <2>1, <3>2 DEF Traffic
    <3> QED BY <3>1, <3>2
  <2>4. UNCHANGED <<state_, outputBuffer_, events, ups, downs>>
    OBVIOUS
  <2> HIDE DEF shutdownInLoop, Runs
  <2> QED BY <2>1, <2>3, <2>4 DEF Traffic, Closable
<1>9. \A k \in Loops : LoopInv(k)'
  <2>1. WorksFor(l, c)
    BY <1>1 DEF WorksFor, threadVars, TcpInv, LoopInv
  <2> QED BY <2>1, PopLoops
<1>10. "shutdownInLoop" \in Ops \ Tokens
  BY DEF Ops, Raw, Tokens
<1> QED BY <1>3, <1>4, <1>6, <1>7, <1>8, <1>9, <1>10, WithinStep


\* startReadInLoop.
LEMMA StartReadInLoopStep ==
  ASSUME TcpInv, NEW l \in Loops, NEW c \in Conns, UNCHANGED serverVars, startReadInLoop(l, c)
  PROVE  TcpInv'
<1> USE DEF startReadInLoop, Runs
<1>1. /\ todo[l] # <<>> /\ todo[l][1].op = "startReadInLoop" /\ todo[l][1].conn = c
      /\ l = loop_[c]
  BY AtTop DEF Home
<1>2. Closable(c)
  BY <1>1 DEF TcpInv, LoopInv, Top
<1>3. c \in connections_
  BY <1>1, <1>2, UpIsOwned
<1>4. <<>> \in Seq(Work) /\ Within(l, c, <<>>, <<>>)
  BY DEF Within
<1>5. todo' \in [Loops -> Seq(Work)]
  BY <1>1, <1>4, ThenCounts
<1>6. ServerTypeOK'
  <2>1. ServerTypeOK
    BY DEF TcpInv
  <2>2. /\ reading_' \in [Conns -> BOOLEAN] /\ added' \in [Conns -> BOOLEAN]
        /\ events' \in [Conns -> SUBSET {"read", "write"}]
    <3>1. /\ reading_ \in [Conns -> BOOLEAN] /\ added \in [Conns -> BOOLEAN]
          /\ events \in [Conns -> SUBSET {"read", "write"}]
      BY <2>1 DEF ServerTypeOK, TypeOK
    <3>2. CASE UNCHANGED <<events, added, reading_>>
      BY <3>1, <3>2
    <3>3. CASE Ask(c, events[c] \union {"read"}) /\ reading_' = [reading_ EXCEPT ![c] = TRUE]
      BY <3>1, <3>3 DEF Ask
    <3> QED BY <3>2, <3>3
  <2> QED BY <1>5, <2>1, <2>2 DEF ServerTypeOK, TypeOK, threadVars, serverVars
<1>7. \A d \in Conns : d # c => SameState(d)
  BY DEF SameState, TcpInv, ServerTypeOK, TypeOK, Ask
<1>8. Traffic(c)'
  <2>1. Traffic(c) /\ events'[c] \in {events[c], events[c] \union {"read"}}
    BY DEF TcpInv, ConnInv, ServerTypeOK, TypeOK, Ask
  <2>2. UNCHANGED <<state_, outputBuffer_, finSent, ups, downs>>
    OBVIOUS
  <2> HIDE DEF startReadInLoop, Runs
  <2> QED BY <1>2, <2>1, <2>2 DEF Traffic, Closable
<1>9. \A k \in Loops : LoopInv(k)'
  <2>1. WorksFor(l, c)
    BY <1>1 DEF WorksFor, threadVars, TcpInv, LoopInv
  <2> QED BY <2>1, PopLoops
<1>10. "startReadInLoop" \in Ops \ Tokens
  BY DEF Ops, Raw, Tokens
<1> QED BY <1>3, <1>4, <1>6, <1>7, <1>8, <1>9, <1>10, WithinStep

\* Also on a connection that is down, but not on one that has left its loop.
LEMMA StopReadInLoopStep ==
  ASSUME TcpInv, NEW l \in Loops, NEW c \in Conns, UNCHANGED serverVars, stopReadInLoop(l, c)
  PROVE  TcpInv'
<1> USE DEF stopReadInLoop, Runs
<1>1. /\ todo[l] # <<>> /\ todo[l][1].op = "stopReadInLoop" /\ todo[l][1].conn = c
      /\ l = loop_[c] /\ object[c] = "live" /\ Wait(l, "stopReadInLoop", c) > 0
  BY AtTop DEF Home
<1>2. c \notin connections_ => Leaving(c) # 0
  BY <1>1 DEF TcpInv, ConnInv, Released, Raw
<1>4. <<>> \in Seq(Work) /\ Within(l, c, <<>>, <<>>)
  BY DEF Within
<1>5. todo' \in [Loops -> Seq(Work)]
  BY <1>1, <1>4, ThenCounts
<1>6. ServerTypeOK'
  <2>1. ServerTypeOK
    BY DEF TcpInv
  <2>2. /\ reading_' \in [Conns -> BOOLEAN] /\ added' \in [Conns -> BOOLEAN]
        /\ events' \in [Conns -> SUBSET {"read", "write"}]
    <3>1. /\ reading_ \in [Conns -> BOOLEAN] /\ added \in [Conns -> BOOLEAN]
          /\ events \in [Conns -> SUBSET {"read", "write"}]
      BY <2>1 DEF ServerTypeOK, TypeOK
    <3>2. CASE UNCHANGED <<events, added, reading_>>
      BY <3>1, <3>2
    <3>3. CASE Ask(c, events[c] \ {"read"}) /\ reading_' = [reading_ EXCEPT ![c] = FALSE]
      BY <3>1, <3>3 DEF Ask
    <3> QED BY <3>2, <3>3
  <2> QED BY <1>5, <2>1, <2>2 DEF ServerTypeOK, TypeOK, threadVars, serverVars
<1>7. \A d \in Conns : d # c => SameState(d)
  BY DEF SameState, TcpInv, ServerTypeOK, TypeOK, Ask
<1>8. Traffic(c)'
  <2>1. Traffic(c) /\ events'[c] \in {events[c], events[c] \ {"read"}}
    BY DEF TcpInv, ConnInv, ServerTypeOK, TypeOK, Ask
  <2>2. UNCHANGED <<state_, outputBuffer_, finSent, ups, downs>>
    OBVIOUS
  <2> HIDE DEF stopReadInLoop, Runs
  <2> QED BY <2>1, <2>2 DEF Traffic, Closable
<1>9. \A k \in Loops : LoopInv(k)'
  <2>1. WorksFor(l, c)
    BY <1>1 DEF WorksFor, threadVars, TcpInv, LoopInv
  <2> QED BY <2>1, PopLoops
<1>10. "stopReadInLoop" \in Ops \ Tokens
  BY DEF Ops, Raw, Tokens
<1> QED BY <1>2, <1>4, <1>6, <1>7, <1>8, <1>9, <1>10, WithinStep

\* The shutdown that handleWrite calls returns to the end of the event.
LEMMA LateShutdownLoops ==
  ASSUME TcpInv, NEW l \in Loops, NEW c \in Conns, WorksFor(l, c),
         todo[l][1].op = "handleWrite", Then(l, <<Do("shutdownInLoop", c)>>), Closable(c)'
  PROVE  \A k \in Loops : LoopInv(k)'
<1> DEFINE w == Do("shutdownInLoop", c)
           s == todo[l]
<1>1. w \in Work /\ w.op = "shutdownInLoop" /\ w.conn = c
  BY DoWork DEF Ops, Raw
<1> HIDE DEF w
<1>2. s \in Seq(Work) /\ Tail(s) \in Seq(Work) /\ Stack(s) /\ s # <<>> /\ s[1].conn = c
  BY Typed DEF TcpInv, LoopInv, WorksFor
<1>3. <<w>> \in Seq(Work) /\ (\A i \in DOMAIN <<w>> : <<w>>[i] = w) /\ Then(l, <<w>>)
  BY <1>1 DEF w
<1>4. todo'[l] = <<w>> \o Tail(s)
  BY <1>2, <1>3, ThenCounts
<1>5. Stack(todo'[l])
  <2>1. Rank(w.op) <= Rank(s[1].op)
    BY <1>1 DEF Rank, Spot, Notifications
  <2> QED BY <1>1, <1>2, <1>4, <2>1, StackReplace
<1>6. 2 \in DOMAIN s /\ s[2].op = "eventEnd" /\ s[2].conn = c
  <2>1. 1 \in DOMAIN s
    BY <1>2
  <2>2. 1 + 1 \in DOMAIN s /\ s[1 + 1].op = "eventEnd"
    BY <1>2, <2>1 DEF Stack
  <2>3. Above(s[1], s[2])
    BY <1>2, <2>1, <2>2 DEF Stack
  <2> QED BY <1>2, <2>2, <2>3 DEF Above
<1>7. todo'[l][1] = w /\ Len(todo'[l]) > 1 /\ todo'[l][2] = s[2]
  BY <1>2, <1>4, <1>6
<1>8. Top(todo[l])'
  BY <1>1, <1>6, <1>7 DEF Top, Spot, Closable
<1> QED BY <1>1, <1>3, <1>5, <1>8, WorksForRest

\* handleWrite, which may empty the buffer, stop asking for POLLOUT and shut the
\* write half.
LEMMA HandleWriteStep ==
  ASSUME TcpInv, NEW l \in Loops, NEW c \in Conns, UNCHANGED serverVars,
         NEW n, handleWrite(l, c, n)
  PROVE  TcpInv'
<1> USE DEF handleWrite, Runs
<1>1. /\ todo[l] # <<>> /\ todo[l][1].op = "handleWrite" /\ todo[l][1].conn = c
      /\ l = loop_[c]
  BY AtTop DEF Home
<1>2. "handleWrite" \in Ops \ Tokens
  BY DEF Ops, Owning, Tokens
<1>3. /\ outputBuffer_ \in [Conns -> Nat] /\ outputBuffer_[c] \in Nat /\ n \in 0..outputBuffer_[c]
      /\ events \in [Conns -> SUBSET {"read", "write"}] /\ added \in [Conns -> BOOLEAN]
      /\ Traffic(c)
  BY DEF TcpInv, ServerTypeOK, TypeOK, ConnInv
<1>4. CASE n = 0
  <2>1. outputBuffer_' = outputBuffer_ /\ Then(l, <<>>) /\ UNCHANGED <<events, added, queue>>
    BY <1>3, <1>4
  <2> QED BY <1>2, <2>1, QuietPop DEF Quiet, connVars
<1>5. CASE n # 0
  <2>1. "write" \in events[c] /\ n > 0
    BY <1>3, <1>5
  <2>2. Closable(c)
    BY <1>3, <2>1 DEF Traffic
  <2>3. c \in connections_
    BY <1>1, <2>2, UpIsOwned
  <2>4. /\ outputBuffer_' = [outputBuffer_ EXCEPT ![c] = outputBuffer_[c] - n]
        /\ outputBuffer_[c] - n \in Nat /\ outputBuffer_[c] > 0
    <3>1. outputBuffer_[c] - n \in Nat /\ outputBuffer_[c] > 0
      BY <1>3, <1>5
    <3>2. outputBuffer_' = [outputBuffer_ EXCEPT ![c] = IF n > 0 THEN Retrieved(c, n) ELSE @]
      OBVIOUS
    <3> QED BY <2>1, <3>1, <3>2 DEF Retrieved
  <2>5. CASE n = outputBuffer_[c]
    <3>1. Flushed(l, c)
      BY <2>1, <2>5
    <3> DEFINE w == Do("writeCompleteCallback", c)
               work == LateShutdown(c)
    <3>2. w \in Work /\ w.conn = c /\ w.op = "writeCompleteCallback"
      BY DoWork DEF Ops, Raw
    <3>3. queue' = Queued(l, <<w>>) /\ Then(l, work) /\ Ask(c, DisableWriting(c))
      BY <3>1 DEF Flushed
    <3> HIDE DEF w
    <3>4. /\ work = <<>> \/ (work = <<Do("shutdownInLoop", c)>> /\ state_[c] = "kDisconnecting")
          /\ work \in Seq(Work)
          /\ \A i \in DOMAIN work : work[i].conn = c /\ work[i].op = "shutdownInLoop"
      <4>1. /\ Do("shutdownInLoop", c) \in Work /\ Do("shutdownInLoop", c).conn = c
            /\ Do("shutdownInLoop", c).op = "shutdownInLoop"
        BY DoWork DEF Ops, Raw
      <4> QED BY <4>1 DEF LateShutdown
    <3> HIDE DEF work
    <3>5. Within(l, c, work, <<w>>)
      <4>1. <<w>> \in Seq(Work) /\ \A i \in DOMAIN <<w>> : <<w>>[i] = w
        BY <3>2
      <4> QED BY <3>2, <3>3, <3>4, <4>1 DEF Within, Spot, Notifications
    <3>6. todo' \in [Loops -> Seq(Work)] /\ queue' \in [Loops -> Seq(Work)]
      <4>1. <<w>> \in Seq(Work)
        BY <3>2
      <4> QED BY <1>1, <3>3, <3>4, <4>1, ThenCounts, QueueCounts
    <3>7. ServerTypeOK'
      <4>1. /\ outputBuffer_' \in [Conns -> Nat] /\ added' \in [Conns -> BOOLEAN]
            /\ events' \in [Conns -> SUBSET {"read", "write"}]
        BY <1>3, <2>4, <3>3 DEF Ask, DisableWriting
      <4>2. UNCHANGED <<object, state_, reading_, loop_, finSent, timers, tpc, held, late, calls, ups,
                        downs, serverVars>>
        BY DEF threadVars
      <4> HIDE DEF handleWrite, Runs
      <4> QED BY <3>6, <4>1, <4>2 DEF TcpInv, ServerTypeOK, TypeOK, serverVars
    <3>8. \A d \in Conns : d # c => SameState(d)
      BY <1>3, <2>4, <3>3 DEF SameState, Ask
    <3>9. Traffic(c)'
      <4>1. outputBuffer_'[c] = 0 /\ events'[c] = events[c] \ {"write"}
        BY <1>3, <2>4, <2>5, <3>3 DEF Ask, DisableWriting
      <4>2. UNCHANGED <<state_, finSent, ups, downs>>
        OBVIOUS
      <4> HIDE DEF handleWrite, Runs
      <4> QED BY <1>3, <2>2, <4>1, <4>2 DEF Traffic, Closable
    <3>10. WorksFor(l, c)
      <4>1. \A k \in Loops : Order(queue'[k])
        BY <1>1, <2>3, <3>2, <3>3, AppendedFor
      <4> QED BY <1>1, <4>1 DEF WorksFor, threadVars
    <3>11. \A k \in Loops : LoopInv(k)'
      <4>1. CASE work = <<>>
        BY <3>3, <3>10, <4>1, PopLoops
      <4>2. CASE work = <<Do("shutdownInLoop", c)>> /\ state_[c] = "kDisconnecting"
        <5>1. Closable(c)'
          BY <4>2 DEF Closable
        <5> QED BY <1>1, <3>3, <3>10, <4>2, <5>1, LateShutdownLoops
      <4> QED BY <3>4, <4>1, <4>2
    <3> QED BY <1>2, <2>3, <3>5, <3>7, <3>8, <3>9, <3>11, WithinStep
  <2>6. CASE n # outputBuffer_[c]
    <3>1. Then(l, <<>>) /\ UNCHANGED <<events, added, queue>>
      BY <2>6
    <3>2. <<>> \in Seq(Work) /\ Within(l, c, <<>>, <<>>)
      BY <3>1 DEF Within
    <3>3. todo' \in [Loops -> Seq(Work)]
      BY <1>1, <3>1, <3>2, ThenCounts
    <3>4. ServerTypeOK'
      <4>1. outputBuffer_' \in [Conns -> Nat] /\ UNCHANGED <<events, added, queue>>
        BY <1>3, <2>4, <3>1
      <4>2. UNCHANGED <<object, state_, reading_, loop_, finSent, timers, tpc, held, late, calls, ups,
                        downs, serverVars>>
        BY DEF threadVars
      <4> HIDE DEF handleWrite, Runs
      <4> QED BY <3>3, <4>1, <4>2 DEF TcpInv, ServerTypeOK, TypeOK, serverVars
    <3>5. \A d \in Conns : d # c => SameState(d)
      BY <1>3, <2>4, <3>1 DEF SameState
    <3>6. Traffic(c)'
      <4>1. outputBuffer_'[c] = outputBuffer_[c] - n /\ outputBuffer_'[c] > 0 /\ outputBuffer_[c] > 0
        BY <1>3, <2>4, <2>6
      <4>2. UNCHANGED <<state_, events, finSent, ups, downs>>
        BY <3>1
      <4> HIDE DEF handleWrite, Runs
      <4> QED BY <1>3, <2>2, <4>1, <4>2 DEF Traffic, Closable
    <3>7. WorksFor(l, c)
      BY <1>1, <3>1 DEF WorksFor, threadVars, TcpInv, LoopInv
    <3>8. \A k \in Loops : LoopInv(k)'
      BY <3>1, <3>7, PopLoops
    <3> QED BY <1>2, <2>3, <3>2, <3>4, <3>5, <3>6, <3>8, WithinStep
  <2> QED BY <2>5, <2>6
<1> QED BY <1>4, <1>5


\* sendInLoop, which writes at once, buffers the rest, or finds the peer gone.
LEMMA SendInLoopStep ==
  ASSUME TcpInv, NEW l \in Loops, NEW c \in Conns, UNCHANGED serverVars,
         NEW n, NEW gone \in BOOLEAN, sendInLoop(l, c, n, gone)
  PROVE  TcpInv'
<1> DEFINE len == Head(todo[l]).len
           keep == ~gone /\ Keeps(c, len - n)
           direct == "write" \notin events[c] /\ outputBuffer_[c] = 0
           wc == Do("writeCompleteCallback", c)
           hw == Do("highWaterMarkCallback", c)
           more == (IF n = len THEN <<wc>> ELSE <<>>) \o (IF keep THEN <<hw>> ELSE <<>>)
<1>1. /\ At(l, "sendInLoop", c) /\ state_[c] # "kDisconnected" /\ Then(l, <<>>)
      /\ n \in 0..len /\ (direct /\ finSent[c] => gone)
      /\ outputBuffer_' = [outputBuffer_ EXCEPT ![c] = IF keep THEN @ + len - n ELSE @]
      /\ IF keep THEN Ask(c, events[c] \union {"write"}) ELSE UNCHANGED <<events, added>>
      /\ queue' = Queued(l, more)
      /\ UNCHANGED <<object, loop_, timers, threadVars, calls, state_, reading_, finSent, ups,
                     downs, aborted>>
  BY DEF sendInLoop, Runs
<1>2. /\ todo[l] # <<>> /\ todo[l][1].op = "sendInLoop" /\ todo[l][1].conn = c
      /\ l = loop_[c] /\ state_[c] # "kConnecting" /\ Head(todo[l]) \in Work
  BY <1>1, AtTop DEF Home
<1>3. Closable(c)
  BY <1>1, <1>2, Typed DEF Closable
<1>4. c \in connections_
  BY <1>2, <1>3, UpIsOwned
<1>5. /\ outputBuffer_ \in [Conns -> Nat] /\ outputBuffer_[c] \in Nat
      /\ events \in [Conns -> SUBSET {"read", "write"}] /\ added \in [Conns -> BOOLEAN]
      /\ Traffic(c) /\ ServerTypeOK
  BY DEF TcpInv, ServerTypeOK, TypeOK, ConnInv
<1>6. len \in Nat /\ n \in Nat /\ n <= len
  <2>1. len \in Lens \union {0}
    BY <1>2 DEF Work
  <2> HIDE DEF len
  <2>2. len \in Nat
    BY <2>1, ConnectionAssumption
  <2> QED BY <1>1, <2>2
<1>7. /\ wc \in Work /\ wc.conn = c /\ wc.op = "writeCompleteCallback"
      /\ hw \in Work /\ hw.conn = c /\ hw.op = "highWaterMarkCallback"
  BY DoWork DEF Ops, Raw
<1>8. keep => n < len /\ ~finSent[c]
  <2> SUFFICES ASSUME keep PROVE n < len /\ ~finSent[c]
    OBVIOUS
  <2>1. len - n > 0
    BY DEF Keeps
  <2>2. finSent[c] => direct
    BY <1>3, <1>5 DEF Traffic
  <2> QED BY <1>1, <1>6, <2>1, <2>2
<1> HIDE DEF wc, hw, len, keep
<1>9. more = <<>> \/ more = <<wc>> \/ more = <<hw>>
  <2>1. <<>> \o <<>> = <<>> /\ <<wc>> \o <<>> = <<wc>> /\ <<>> \o <<hw>> = <<hw>>
    BY <1>7
  <2>2. ~(n = len /\ keep)
    BY <1>6, <1>8
  <2> QED BY <2>1, <2>2, Zenon
<1> HIDE DEF more
<1>10. more \in Seq(Work) /\ Within(l, c, <<>>, more)
  <2>1. more \in Seq(Work) /\ \A i \in DOMAIN more : more[i] = wc \/ more[i] = hw
    <3>1. CASE more = <<>>
      BY <3>1
    <3>2. CASE more = <<wc>>
      BY <1>7, <3>2
    <3>3. CASE more = <<hw>>
      BY <1>7, <3>3
    <3> QED BY <1>9, <3>1, <3>2, <3>3
  <2> QED BY <1>1, <1>7, <2>1 DEF Within, Notifications
<1>11. todo' \in [Loops -> Seq(Work)] /\ queue' \in [Loops -> Seq(Work)]
  <2>1. <<>> \in Seq(Work)
    OBVIOUS
  <2> QED BY <1>1, <1>2, <1>10, <2>1, ThenCounts, QueueCounts
<1>12. \A k \in Loops : Order(queue'[k])
  <2>1. CASE more = <<>>
    <3>1. queue' = queue
      BY <1>1, <2>1, Typed DEF Queued
    <3> QED BY <3>1 DEF TcpInv, LoopInv
  <2>2. CASE more = <<wc>>
    BY <1>1, <1>2, <1>4, <1>7, <2>2, AppendedFor
  <2>3. CASE more = <<hw>>
    BY <1>1, <1>2, <1>4, <1>7, <2>3, AppendedFor
  <2> QED BY <1>9, <2>1, <2>2, <2>3
<1>13. \A k \in Loops : LoopInv(k)'
  <2>1. WorksFor(l, c)
    BY <1>1, <1>2, <1>12 DEF WorksFor, threadVars
  <2> QED BY <1>1, <2>1, PopLoops
<1>14. /\ outputBuffer_' \in [Conns -> Nat] /\ events' \in [Conns -> SUBSET {"read", "write"}]
       /\ added' \in [Conns -> BOOLEAN]
       /\ \A d \in Conns : d # c => /\ outputBuffer_'[d] = outputBuffer_[d]
                                    /\ events'[d] = events[d] /\ added'[d] = added[d]
       /\ keep => /\ outputBuffer_'[c] = outputBuffer_[c] + len - n
                  /\ events'[c] = events[c] \union {"write"}
       /\ ~keep => outputBuffer_'[c] = outputBuffer_[c] /\ events'[c] = events[c]
  <2>1. CASE keep
    <3>1. Ask(c, events[c] \union {"write"}) /\ outputBuffer_[c] + len - n \in Nat
      BY <1>1, <1>5, <1>6, <2>1
    <3>2. outputBuffer_' = [outputBuffer_ EXCEPT ![c] = outputBuffer_[c] + len - n]
      BY <1>1, <2>1
    <3> QED BY <1>5, <2>1, <3>1, <3>2 DEF Ask
  <2>2. CASE ~keep
    BY <1>1, <1>5, <1>6, <2>2
  <2> QED BY <2>1, <2>2
<1>15. ServerTypeOK'
  BY <1>1, <1>5, <1>11, <1>14 DEF ServerTypeOK, TypeOK, threadVars, serverVars
<1>16. \A d \in Conns : d # c => SameState(d)
  BY <1>1, <1>14 DEF SameState
<1>17. Traffic(c)'
  <2>1. CASE keep
    <3>1. outputBuffer_'[c] > 0
      BY <1>5, <1>6, <1>8, <1>14, <2>1
    <3> QED BY <1>1, <1>3, <1>5, <1>8, <1>14, <2>1, <3>1 DEF Traffic, Closable
  <2>2. CASE ~keep
    BY <1>1, <1>5, <1>14, <2>2 DEF Traffic, Closable
  <2> QED BY <2>1, <2>2
<1>18. "sendInLoop" \in Ops \ Tokens
  BY DEF Ops, Raw, Tokens
<1> QED BY <1>1, <1>4, <1>10, <1>13, <1>15, <1>16, <1>17, <1>18, WithinStep

-----------------------------------------------------------------------------
(* What user callbacks do.                                                 *)

\* A callback is only called while the connection has not left its loop.
LEMMA UserAt ==
  ASSUME TcpInv, NEW l \in Loops, NEW c \in Conns, At(l, "user", c)
  PROVE  /\ todo[l] # <<>> /\ todo[l][1].op = "user" /\ todo[l][1].conn = c
         /\ l = loop_[c] /\ object[c] = "live" /\ state_[c] # "kConnecting"
         /\ c \notin connections_ => Leaving(c) # 0
         /\ Closable(c) => c \in connections_
         /\ "user" \in Ops \ Tokens
<1>1. /\ todo[l] # <<>> /\ todo[l][1].op = "user" /\ todo[l][1].conn = c
      /\ l = loop_[c] /\ object[c] = "live" /\ Wait(l, "user", c) > 0 /\ state_[c] # "kConnecting"
  BY AtTop DEF Home
<1>2. ASSUME c \notin connections_, Leaving(c) = 0 PROVE FALSE
  <2>1. Released(c)
    BY DEF TcpInv, ConnInv
  <2>2. \A op \in (Raw \ {"sendInLoop"}) \union {"user"} : Wait(loop_[c], op, c) = 0
    BY <1>1, <1>2, <2>1 DEF Released
  <2>3. Wait(l, "user", c) = 0
    BY <1>1, <2>2
  <2> QED BY <1>1, <2>3
<1>3. Closable(c) => c \in connections_
  BY <1>1, UpIsOwned
<1> QED BY <1>1, <1>2, <1>3 DEF Ops, Owning, Tokens

\* A callback makes a call that is executed on the spot.
LEMMA OnTheSpot ==
  ASSUME TcpInv, NEW l \in Loops, NEW c \in Conns, UNCHANGED serverVars,
         At(l, "user", c), calls' \in 0..MaxCalls,
         NEW w \in Work, w.conn = c, w.op \in Spot, Now(l, <<w>>),
         UNCHANGED <<object, reading_, outputBuffer_, events, added, finSent, loop_, timers,
                     queue, threadVars, ups, downs, aborted>>,
         state_' \in [Conns -> {"kConnecting", "kConnected", "kDisconnecting", "kDisconnected"}],
         \A d \in Conns : d # c => state_'[d] = state_[d],
         state_'[c] = state_[c] \/ (Closable(c) /\ Closable(c)'),
         w.op \in {"startReadInLoop", "shutdownInLoop"} => Closable(c)'
  PROVE  TcpInv'
<1>1. /\ todo[l] # <<>> /\ todo[l][1].op = "user" /\ todo[l][1].conn = c
      /\ l = loop_[c] /\ object[c] = "live" /\ state_[c] # "kConnecting"
      /\ c \notin connections_ => Leaving(c) # 0
      /\ Closable(c) => c \in connections_
      /\ "user" \in Ops \ Tokens
  BY UserAt
<1>2. <<w>> \in Seq(Work) /\ \A i \in DOMAIN <<w>> : <<w>>[i] = w
  OBVIOUS
<1>3. Within(l, c, <<w>>, <<>>)
  BY <1>2 DEF Within
<1>4. todo' \in [Loops -> Seq(Work)]
  BY <1>2, NowCounts
<1>5. ServerTypeOK'
  BY <1>4 DEF TcpInv, ServerTypeOK, TypeOK, threadVars, serverVars
<1>6. \A d \in Conns : d # c => SameState(d)
  BY DEF SameState
<1>7. Traffic(c)'
  <2>1. Traffic(c)
    BY DEF TcpInv, ConnInv
  <2> QED BY <2>1 DEF Traffic, Closable
<1>8. WorksFor(l, c)
  BY <1>1 DEF WorksFor, threadVars, TcpInv, LoopInv
<1>9. \A k \in Loops : LoopInv(k)'
  BY <1>1, <1>8, CallLoops
<1> QED BY <1>1, <1>3, <1>5, <1>6, <1>7, <1>9, WithinStep


\* Calls of a callback on its own connection that run on the spot.
LEMMA UserSpotSteps ==
  ASSUME TcpInv, NEW l \in Loops, NEW c \in Conns, UNCHANGED serverVars,
         \/ \E len \in Lens : UserSend(l, c, len)
         \/ UserShutdown(l, c)
         \/ \E call \in {"startRead", "stopRead"} : UserReadCall(l, c, call)
  PROVE  TcpInv'
<1> USE DEF UserCalling
<1>1. calls < MaxCalls /\ calls' = calls + 1 => calls' \in 0..MaxCalls
  BY ConnectionAssumption DEF TcpInv, ServerTypeOK, TypeOK
<1>2. state_ \in [Conns -> {"kConnecting", "kConnected", "kDisconnecting", "kDisconnected"}]
  BY Typed
<1>3. ASSUME NEW len \in Lens, UserSend(l, c, len) PROVE TcpInv'
  <2>1. Send(c, len) \in Work /\ Send(c, len).conn = c /\ Send(c, len).op = "sendInLoop"
    BY DEF Send, Work, Raw
  <2>2. "sendInLoop" \in Spot /\ "sendInLoop" \notin {"startReadInLoop", "shutdownInLoop"}
    BY DEF Spot
  <2> QED BY <1>1, <1>2, <1>3, <2>1, <2>2, OnTheSpot DEF UserSend
<1>4. ASSUME UserShutdown(l, c) PROVE TcpInv'
  <2> DEFINE w == Do("shutdownInLoop", c)
  <2>1. w \in Work /\ w.conn = c /\ w.op = "shutdownInLoop" /\ "shutdownInLoop" \in Spot
    BY DoWork DEF Ops, Raw, Spot
  <2>2. Closable(c) /\ Closable(c)'
    BY <1>2, <1>4 DEF UserShutdown, Closable
  <2>3. /\ state_' \in [Conns -> {"kConnecting", "kConnected", "kDisconnecting", "kDisconnected"}]
        /\ \A d \in Conns : d # c => state_'[d] = state_[d]
    BY <1>2, <1>4 DEF UserShutdown
  <2>4. Now(l, <<w>>)
    BY <1>4 DEF UserShutdown
  <2> HIDE DEF w
  <2> QED BY <1>1, <1>4, <2>1, <2>2, <2>3, <2>4, OnTheSpot DEF UserShutdown
<1>5. ASSUME NEW call \in {"startRead", "stopRead"}, UserReadCall(l, c, call) PROVE TcpInv'
  <2> DEFINE op == IF call = "startRead" THEN "startReadInLoop" ELSE "stopReadInLoop"
             w == Do(op, c)
  <2>1. op \in Spot /\ op \in Ops
    BY DEF Spot, Ops, Raw
  <2>2. w \in Work /\ w.conn = c /\ w.op = op
    BY <2>1, DoWork
  <2>3. Now(l, <<w>>) /\ At(l, "user", c)
    BY <1>5 DEF UserReadCall
  <2>4. op \in {"startReadInLoop", "shutdownInLoop"} => Closable(c)'
    <3>1. state_[c] # "kConnecting"
      BY <2>3, UserAt
    <3> QED BY <1>2, <1>5, <3>1 DEF UserReadCall, Closable
  <2> HIDE DEF op, w
  <2> QED BY <1>1, <1>2, <1>5, <2>1, <2>2, <2>3, <2>4, OnTheSpot DEF UserReadCall
<1> QED BY <1>3, <1>4, <1>5

\* forceClose and forceCloseWithDelay: the state now, the rest later.
LEMMA UserForceCloseStep ==
  ASSUME TcpInv, NEW l \in Loops, NEW c \in Conns, UNCHANGED serverVars,
         UserForceClose(l, c) \/ UserForceCloseWithDelay(l, c)
  PROVE  TcpInv'
<1> USE DEF UserCalling, UserForceClose, UserForceCloseWithDelay
<1>1. /\ todo[l] # <<>> /\ todo[l][1].op = "user" /\ todo[l][1].conn = c
      /\ l = loop_[c] /\ object[c] = "live" /\ state_[c] # "kConnecting"
      /\ c \notin connections_ => Leaving(c) # 0
      /\ Closable(c) => c \in connections_
      /\ "user" \in Ops \ Tokens
  BY UserAt
<1>2. Closable(c) /\ c \in connections_
  BY <1>1
<1>3. /\ state_ \in [Conns -> {"kConnecting", "kConnected", "kDisconnecting", "kDisconnected"}]
      /\ state_' = [state_ EXCEPT ![c] = "kDisconnecting"]
      /\ todo' = todo /\ todo \in [Loops -> Seq(Work)] /\ queue \in [Loops -> Seq(Work)]
  BY Typed
<1>4. /\ state_' \in [Conns -> {"kConnecting", "kConnected", "kDisconnecting", "kDisconnected"}]
      /\ \A d \in Conns : d # c => state_'[d] = state_[d]
      /\ Closable(c)'
  BY <1>3 DEF Closable
<1> DEFINE w == Do("forceCloseInLoop", c)
<1>5. w \in Work /\ w.conn = c /\ w.op = "forceCloseInLoop"
  BY DoWork DEF Ops, Owning
<1>6. PICK more \in {<<>>, <<w>>} :
        queue' = Queued(l, more) \/ (more = <<>> /\ queue' = queue)
  OBVIOUS
<1> HIDE DEF w
<1>7. /\ more \in Seq(Work) /\ \A i \in DOMAIN more : more[i] = w
  <2>1. CASE more = <<>>
    BY <2>1
  <2>2. CASE more = <<w>>
    BY <1>5, <2>2
  <2> QED BY <1>6, <2>1, <2>2
<1>8. Within(l, c, <<>>, more)
  BY <1>3, <1>5, <1>6, <1>7 DEF Within
<1>9. queue' \in [Loops -> Seq(Work)] /\ \A k \in Loops : Order(queue'[k])
  <2>1. CASE queue' = queue
    BY <1>3, <2>1 DEF TcpInv, LoopInv
  <2>2. CASE queue' # queue
    <3>1. more = <<w>> /\ queue' = Queued(l, <<w>>)
      <4>1. more = <<>> => queue' = queue
        BY <1>3, <1>6 DEF Queued
      <4> QED BY <1>6, <2>2, <4>1
    <3>2. <<w>> \in Seq(Work)
      BY <1>5
    <3> QED BY <1>1, <1>2, <1>5, <3>1, <3>2, AppendedFor, QueueCounts
  <2> QED BY <2>1, <2>2
<1>10. ServerTypeOK'
  <2>1. calls' \in 0..MaxCalls
    BY ConnectionAssumption DEF TcpInv, ServerTypeOK, TypeOK
  <2>2. timers' \subseteq Conns
    BY DEF TcpInv, ServerTypeOK, TypeOK
  <2> QED BY <1>3, <1>4, <1>9, <2>1, <2>2 DEF TcpInv, ServerTypeOK, TypeOK, threadVars, serverVars
<1>11. \A d \in Conns : d # c => SameState(d)
  BY <1>4 DEF SameState
<1>12. Traffic(c)'
  <2>1. Traffic(c)
    BY DEF TcpInv, ConnInv
  <2>2. UNCHANGED <<events, outputBuffer_, finSent, ups, downs>> /\ state_'[c] = "kDisconnecting"
    BY <1>3
  <2> HIDE DEF UserCalling, UserForceClose, UserForceCloseWithDelay
  <2> QED BY <1>2, <2>1, <2>2 DEF Traffic, Closable
<1>13. \A k \in Loops : LoopInv(k)'
  <2>1. WorksFor(l, c)
    BY <1>1, <1>4, <1>9 DEF WorksFor, threadVars
  <2>2. Now(l, <<>>) /\ <<>> \in Seq(Work) /\ DOMAIN <<>> = {}
    BY <1>3 DEF Now
  <2>3. Stack(todo'[l]) /\ Top(todo[l])'
    BY <1>1, <1>3 DEF TcpInv, LoopInv, Top, Spot
  <2> QED BY <1>1, <2>1, <2>2, <2>3, WorksForRest
<1>14. UNCHANGED <<object, loop_, threadVars, aborted, serverVars>> /\ At(l, "user", c)
  OBVIOUS
<1> HIDE DEF UserCalling, UserForceClose, UserForceCloseWithDelay
<1> QED BY <1>1, <1>2, <1>4, <1>8, <1>10, <1>11, <1>12, <1>13, <1>14, WithinStep


-----------------------------------------------------------------------------
(* Connections passed to other threads, and what those queue.              *)

\* A step that changes only what threads hold and where they are.
LEMMA HeldOnly ==
  ASSUME TcpInv, ServerTypeOK', \A t \in Threads : ThreadInv(t)',
         UNCHANGED <<object, connVars, loop_, timers, queue, todo, aborted, serverVars>>,
         \A d \in Conns : (\E t \in Threads : d \in held'[t])
                            => object[d] = "live" /\ state_[d] # "kConnecting"
  PROVE  TcpInv'
<1>1. /\ UNCHANGED <<object, state_, outputBuffer_, events, added, finSent, ups, downs, loop_,
                     queue, todo, aborted, connections_, serverUp, numThreads_>>
  BY DEF connVars, serverVars
<1>3. ASSUME NEW k \in Loops PROVE LoopInv(k)'
  <2>1. Order(queue'[k]) /\ todo'[k] = todo[k] /\ \A d \in Conns : state_'[d] = state_[d]
    BY <1>1 DEF TcpInv, LoopInv
  <2> QED BY <2>1, StaysPut
<1>4. ASSUME NEW d \in Conns PROVE ConnInv(d)'
  <2>1. ConnInv(d) /\ loop_[d] \in Loops
    BY Typed DEF TcpInv
  <2>2. AtHome(d)' /\ Traffic(d)' /\ Stage(d)'
    BY <1>1, <2>1 DEF ConnInv, AtHome, Traffic, Stage, Wait, Home, Closable, base
  <2>3. Owned(d)' /\ Released(d)'
    BY <1>1, <2>1 DEF ConnInv, Owned, Released, Closing, Leaving, Wait, Closable, base
  <2>4. Holding(d)'
    BY <1>1 DEF Holding
  <2> QED BY <2>2, <2>3, <2>4 DEF ConnInv
<1>5. Calm' /\ IsFiniteSet(connections_)'
  BY <1>1 DEF TcpInv, Calm
<1> QED BY <1>3, <1>4, <1>5 DEF TcpInv

\* A callback gives another thread the connection.
LEMMA HandOverStep ==
  ASSUME TcpInv, NEW l \in Loops, NEW c \in Conns, NEW t \in Threads, UNCHANGED serverVars,
         HandOver(l, c, t)
  PROVE  TcpInv'
<1>1. /\ At(l, "user", c) /\ held' = [held EXCEPT ![t] = @ \union {c}]
      /\ UNCHANGED <<object, connVars, loop_, timers, queue, todo, tpc, late, calls, aborted>>
  BY DEF HandOver
<1>2. held \in [Threads -> SUBSET Conns] /\ ServerTypeOK
  BY DEF TcpInv, ServerTypeOK, TypeOK
<1>3. /\ held' \in [Threads -> SUBSET Conns]
      /\ \A u \in Threads : held'[u] = IF u = t THEN held[u] \union {c} ELSE held[u]
  BY <1>1, <1>2
<1>4. ServerTypeOK'
  BY <1>1, <1>2, <1>3 DEF ServerTypeOK, TypeOK, connVars, serverVars
<1>5. \A u \in Threads : ThreadInv(u)'
  BY <1>1, <1>3 DEF TcpInv, ThreadInv
<1>6. \A d \in Conns : (\E u \in Threads : d \in held'[u])
                         => object[d] = "live" /\ state_[d] # "kConnecting"
  <2>1. object[c] = "live" /\ state_[c] # "kConnecting"
    BY <1>1, UserAt
  <2> QED BY <1>3, <2>1 DEF TcpInv, ConnInv, Holding
<1> QED BY <1>1, <1>4, <1>5, <1>6, HeldOnly

\* Another thread enters send and tests state_.
LEMMA ThreadTestStep ==
  ASSUME TcpInv, NEW c \in Conns, NEW t \in Threads, UNCHANGED serverVars,
         ThreadTest(t, c, "send")
  PROVE  TcpInv'
<1>1. /\ c \in held[t] /\ calls < MaxCalls /\ calls' = calls + 1
      /\ tpc' = [tpc EXCEPT ![t] = [at |-> "tested", op |-> "send", conn |-> c]]
      /\ UNCHANGED <<object, connVars, loop_, timers, queue, todo, held, late, aborted>>
  BY DEF ThreadTest
<1>2. /\ ServerTypeOK /\ calls \in 0..MaxCalls
      /\ tpc \in [Threads -> [at : {"idle", "tested", "stored"}, op : Calls \union {"none"},
                              conn : Conns \union {NoConn}]]
  BY DEF TcpInv, ServerTypeOK, TypeOK
<1>3. calls' \in 0..MaxCalls
  BY <1>1, <1>2, ConnectionAssumption
<1>4. /\ tpc' \in [Threads -> [at : {"idle", "tested", "stored"}, op : Calls \union {"none"},
                               conn : Conns \union {NoConn}]]
  BY <1>1, <1>2 DEF Calls
<1>5. ServerTypeOK'
  BY <1>1, <1>2, <1>3, <1>4 DEF ServerTypeOK, TypeOK, connVars, serverVars
<1>6. ASSUME NEW u \in Threads PROVE ThreadInv(u)'
  <2>1. CASE u = t
    <3>1. tpc'[u] = [at |-> "tested", op |-> "send", conn |-> c] /\ held' = held
      BY <1>1, <1>2, <2>1
    <3> QED BY <1>1, <2>1, <3>1 DEF ThreadInv
  <2>2. CASE u # t
    <3>1. tpc'[u] = tpc[u] /\ held' = held
      BY <1>1, <1>2, <2>2
    <3> QED BY <3>1 DEF TcpInv, ThreadInv
  <2> QED BY <2>1, <2>2
<1>7. \A d \in Conns : (\E u \in Threads : d \in held'[u])
                         => object[d] = "live" /\ state_[d] # "kConnecting"
  BY <1>1 DEF TcpInv, ConnInv, Holding
<1> QED BY <1>1, <1>5, <1>6, <1>7, HeldOnly

\* Another thread lets go of a connection.
LEMMA DropStep ==
  ASSUME TcpInv, NEW c \in Conns, NEW t \in Threads, UNCHANGED serverVars, Drop(t, c)
  PROVE  TcpInv'
<1>1. /\ tpc[t].at = "idle" /\ held' = [held EXCEPT ![t] = @ \ {c}]
      /\ UNCHANGED <<object, connVars, loop_, timers, queue, todo, tpc, late, calls, aborted>>
  BY DEF Drop
<1>2. held \in [Threads -> SUBSET Conns] /\ ServerTypeOK
  BY DEF TcpInv, ServerTypeOK, TypeOK
<1>3. /\ held' \in [Threads -> SUBSET Conns]
      /\ \A u \in Threads : held'[u] = IF u = t THEN held[u] \ {c} ELSE held[u]
  BY <1>1, <1>2
<1>4. ServerTypeOK'
  BY <1>1, <1>2, <1>3 DEF ServerTypeOK, TypeOK, connVars, serverVars
<1>5. \A u \in Threads : ThreadInv(u)'
  BY <1>1, <1>3 DEF TcpInv, ThreadInv
<1>6. \A d \in Conns : (\E u \in Threads : d \in held'[u])
                         => object[d] = "live" /\ state_[d] # "kConnecting"
  BY <1>3 DEF TcpInv, ConnInv, Holding
<1> QED BY <1>1, <1>4, <1>5, <1>6, HeldOnly


\* Another thread, or a timer, queues a send or a close for connection c.
LEMMA QueuesFor ==
  ASSUME TcpInv, NEW c \in Conns, NEW w \in Work, w.conn = c,
         w.op \in {"sendInLoop", "forceCloseInLoop"}, queue' = Queued(loop_[c], <<w>>),
         ServerTypeOK', \A t \in Threads : ThreadInv(t)',
         UNCHANGED <<object, loop_, todo, held, aborted, serverVars>>,
         \A d \in Conns : d # c => SameState(d),
         Traffic(c)', added'[c] = added[c],
         \/ state_'[c] = state_[c]
         \/ c \in connections_ /\ Closable(c) /\ Closable(c)' /\ todo[loop_[c]] = <<>>,
         object[c] = "live", state_[c] # "kConnecting"
  PROVE  TcpInv'
<1>0. PICK l \in Loops : l = loop_[c] /\ l = loop_'[c]
  BY Typed
<1>1. <<w>> \in Seq(Work) /\ base \in Loops
  BY Typed
<1>2. UNCHANGED <<connections_, serverUp, numThreads_>>
  BY DEF serverVars
<1>3. /\ queue'[l] = queue[l] \o <<w>>
      /\ \A k \in Loops : k # l => queue'[k] = queue[k]
      /\ \A op, d : Num(queue'[l], op, d) = Num(queue[l], op, d) + Num(<<w>>, op, d)
  <2>1. queue' = Queued(l, <<w>>)
    BY <1>0
  <2> DEFINE q == <<w>>
  <2>2. q \in Seq(Work) /\ queue' = Queued(l, q)
    BY <1>1, <2>1
  <2> HIDE DEF q
  <2>3. /\ queue'[l] = queue[l] \o q
        /\ \A k \in Loops : k # l => queue'[k] = queue[k]
        /\ \A op, d : Num(queue'[l], op, d) = Num(queue[l], op, d) + Num(q, op, d)
    BY <2>2, QueueCounts
  <2> QED BY <2>3 DEF q
<1>4. \A op, d : Num(queue'[l], op, d) = Num(queue[l], op, d) + One(w, op, d)
  BY <1>3, NumOne
<1>5. \A k \in Loops : \A op, d : Num(todo[k], op, d) \in Nat /\ Num(queue[k], op, d) \in Nat
  BY Typed
<1>6. \A k \in Loops : \A op, d :
        k # l \/ op # w.op \/ d # c => /\ Num(queue'[k], op, d) = Num(queue[k], op, d)
                                       /\ Wait(k, op, d)' = Wait(k, op, d)
  <2> SUFFICES ASSUME NEW k \in Loops, NEW op, NEW d, k # l \/ op # w.op \/ d # c
               PROVE  Num(queue'[k], op, d) = Num(queue[k], op, d)
    BY DEF Wait
  <2>1. CASE k # l
    BY <1>3, <2>1
  <2>2. CASE k = l
    <3>1. One(w, op, d) = 0
      BY <2>2 DEF One
    <3>2. Num(queue'[l], op, d) = Num(queue[l], op, d) + One(w, op, d) /\ Num(queue[l], op, d) \in Nat
      BY <1>4, <1>5
    <3> QED BY <2>2, <3>1, <3>2
  <2> QED BY <2>1, <2>2
<1>7. \A k \in Loops : Order(queue'[k])
  <2>1. \A k \in Loops : Order(queue[k])
    BY DEF TcpInv, LoopInv
  <2>2. Order(queue'[l])
    <3>1. w.op \notin Notifications /\ queue[l] \in Seq(Work)
      BY <1>1, Typed DEF Notifications
    <3> QED BY <1>1, <1>3, <2>1, <3>1, OrderAppend
  <2> QED BY <1>3, <2>1, <2>2
<1>8. ASSUME NEW k \in Loops PROVE LoopInv(k)'
  <2>1. CASE todo[k] = <<>>
    BY <1>7, <2>1 DEF LoopInv, Stack, DeletedUp, Top
  <2>2. CASE todo[k] # <<>>
    <3>1. \A d \in Conns : loop_[d] = k => state_'[d] = state_[d]
      BY <2>2 DEF SameState
    <3> QED BY <1>7, <3>1, StaysPut
  <2> QED BY <2>1, <2>2
<1>9. ASSUME NEW d \in Conns, d # c PROVE ConnInv(d)'
  <2>1. SameCounts(d) /\ SameOwners(d)
    BY <1>2, <1>6, <1>9 DEF SameCounts, SameOwners
  <2> QED BY <1>9, <2>1, Unconcerned
<1>10. ConnInv(c)'
  <2>1. ConnInv(c) /\ loop_'[c] = l /\ loop_[c] = l
    BY <1>0 DEF TcpInv
  <2>2. \A k \in Loops : \A op \in Tokens \union Notifications \union (Raw \ {"sendInLoop"}) \union {"user"} :
          Num(queue'[k], op, c) = Num(queue[k], op, c) /\ Wait(k, op, c)' = Wait(k, op, c)
    <3>1. w.op \notin Tokens \union Notifications \union (Raw \ {"sendInLoop"}) \union {"user"}
      BY DEF Tokens, Notifications, Raw
    <3> DEFINE Others == Tokens \union Notifications \union (Raw \ {"sendInLoop"}) \union {"user"}
    <3> HIDE DEF Others
    <3>2. \A k \in Loops : \A op \in Others :
            Num(queue'[k], op, c) = Num(queue[k], op, c) /\ Wait(k, op, c)' = Wait(k, op, c)
      <4> SUFFICES ASSUME NEW k \in Loops, NEW op \in Others
                   PROVE  Num(queue'[k], op, c) = Num(queue[k], op, c)
        BY DEF Wait
      <4>1. op # w.op
        BY <3>1 DEF Others
      <4> QED BY <1>6, <4>1
    <3> QED BY <3>2 DEF Others
  <2>3. Closing(c)' = Closing(c) /\ Leaving(c)' = Leaving(c)
    <3>1. /\ Wait(l, "closeCallback", c)' = Wait(l, "closeCallback", c)
          /\ Wait(base, "removeConnectionInLoop", c)' = Wait(base, "removeConnectionInLoop", c)
          /\ Wait(l, "connectDestroyed", c)' = Wait(l, "connectDestroyed", c)
          /\ Wait(l, "channelRemove", c)' = Wait(l, "channelRemove", c)
      BY <1>1, <1>6 DEF base
    <3> QED BY <2>1, <3>1 DEF Closing, Leaving, base
  <2>4. state_'[c] # "kConnecting" /\ (state_'[c] = "kDisconnected" <=> state_[c] = "kDisconnected")
    BY DEF Closable
  <2>5. AtHome(c)'
    <3> SUFFICES ASSUME NEW k \in Loops, NEW op \in Ops
                 PROVE  /\ Wait(k, op, c)' > 0 => k = Home(op, c)'
                        /\ op \notin Functors => Num(queue'[k], op, c) = 0
      BY <2>4 DEF AtHome
    <3>1. Home(op, c)' = Home(op, c)
      BY DEF Home, base
    <3>2. CASE k # l \/ op # w.op
      BY <1>6, <2>1, <3>1, <3>2 DEF ConnInv, AtHome
    <3>3. CASE k = l /\ op = w.op
      BY <2>1, <3>1, <3>3 DEF Home, Functors
    <3> QED BY <3>2, <3>3
  <2>6. Owned(c)'
    BY <1>2, <2>1, <2>3, <2>4 DEF ConnInv, Owned
  <2>7. Released(c)'
    <3> SUFFICES ASSUME c \notin connections_ PROVE Released(c)'
      BY <1>2 DEF Released
    <3>1. state_'[c] = state_[c] /\ Num(todo'[l], "connectDestroyed", c) = Num(todo[l], "connectDestroyed", c)
      OBVIOUS
    <3>2. Num(queue'[l], "connectDestroyed", c) = Num(queue[l], "connectDestroyed", c)
      BY <1>1, <1>6
    <3> QED BY <1>1, <1>2, <2>1, <2>2, <2>3, <2>4, <3>1, <3>2 DEF ConnInv, Released, Closable
  <2>8. Stage(c)'
    <3>1. Wait(l, "connectEstablished", c)' = Wait(l, "connectEstablished", c)
      BY <1>1, <1>6
    <3> QED BY <1>2, <2>1, <2>4, <3>1 DEF ConnInv, Stage, base
  <2>9. Holding(c)'
    BY <2>1, <2>4 DEF ConnInv, Holding
  <2> QED BY <2>5, <2>6, <2>7, <2>8, <2>9 DEF ConnInv
<1>11. Calm' /\ IsFiniteSet(connections_)'
  BY <1>2 DEF TcpInv, Calm
<1> QED BY <1>8, <1>9, <1>10, <1>11 DEF TcpInv

\* Another thread, which has tested state_ some time ago, queues sendInLoop.
LEMMA ThreadSendStep ==
  ASSUME TcpInv, NEW t \in Threads, NEW len \in Lens, NEW x \in Conns,
         UNCHANGED serverVars, ThreadSend(t, len, x \in connections_, TRUE)
  PROVE  TcpInv'
<1>1. /\ tpc[t].at = "tested"
      /\ queue' = Queued(loop_[Send(tpc[t].conn, len).conn], <<Send(tpc[t].conn, len)>>)
      /\ late' \in {late, late \union {tpc[t].conn}}
      /\ tpc' = [tpc EXCEPT ![t] = Idle]
      /\ UNCHANGED <<object, connVars, loop_, timers, todo, held, calls, aborted>>
  BY DEF ThreadSend, ThreadQueue, Asserts, Send
<1>2. /\ ServerTypeOK /\ held \in [Threads -> SUBSET Conns]
      /\ tpc \in [Threads -> [at : {"idle", "tested", "stored"}, op : Calls \union {"none"},
                              conn : Conns \union {NoConn}]]
  BY DEF TcpInv, ServerTypeOK, TypeOK
<1>3. PICK c \in Conns : c = tpc[t].conn /\ c \in held[t]
  BY <1>1, <1>2 DEF TcpInv, ThreadInv
<1> DEFINE w == Send(c, len)
<1>4. w \in Work /\ w.conn = c /\ w.op = "sendInLoop"
  BY <1>3 DEF Send, Work, Raw
<1> HIDE DEF w
<1>5. queue' = Queued(loop_[c], <<w>>) /\ <<w>> \in Seq(Work) /\ loop_[c] \in Loops
  <2>1. queue' = Queued(loop_[w.conn], <<w>>)
    BY <1>1, <1>3 DEF w
  <2> QED BY <1>3, <1>4, <2>1, Typed
<1>6. queue' \in [Loops -> Seq(Work)]
  BY <1>5, QueueCounts
<1>7. tpc' \in [Threads -> [at : {"idle", "tested", "stored"}, op : Calls \union {"none"},
                            conn : Conns \union {NoConn}]]
  BY <1>1, <1>2 DEF Idle
<1>8. ServerTypeOK'
  <2>1. late' \subseteq Conns
    BY <1>1, <1>2, <1>3 DEF ServerTypeOK, TypeOK
  <2> QED BY <1>1, <1>2, <1>6, <1>7, <2>1 DEF ServerTypeOK, TypeOK, connVars, serverVars
<1>9. ASSUME NEW u \in Threads PROVE ThreadInv(u)'
  <2>1. CASE u = t
    <3>1. tpc'[u].at = "idle"
      BY <1>1, <1>2, <2>1 DEF Idle
    <3> QED BY <3>1 DEF ThreadInv
  <2>2. CASE u # t
    <3>1. tpc'[u] = tpc[u] /\ held' = held
      BY <1>1, <1>2, <2>2
    <3> QED BY <3>1 DEF TcpInv, ThreadInv
  <2> QED BY <2>1, <2>2
<1>10. /\ \A d \in Conns : d # c => SameState(d)
       /\ added'[c] = added[c] /\ state_'[c] = state_[c]
  BY <1>1 DEF SameState, connVars
<1>11. Traffic(c)'
  BY <1>1, <1>3 DEF TcpInv, ConnInv, Traffic, Closable, connVars
<1>12. object[c] = "live" /\ state_[c] # "kConnecting"
  BY <1>3 DEF TcpInv, ConnInv, Holding
<1> QED BY <1>1, <1>3, <1>4, <1>5, <1>8, <1>9, <1>10, <1>11, <1>12, QueuesFor

\* The timer finds a connection that is up only while the server owns it: the stack
\* is empty, so that no destructor is under way.
LEMMA TimerFiresStep ==
  ASSUME TcpInv, NEW l \in Loops, NEW c \in Conns, UNCHANGED serverVars,
         TimerFires(l, c, c \in connections_)
  PROVE  TcpInv'
<1> DEFINE w == Do("forceCloseInLoop", c)
           fires == (c \in connections_ \/ Shared(c)) /\ Closable(c)
<1>1. /\ todo[l] = <<>> /\ loop_[c] = l /\ timers' = timers \ {c}
      /\ IF fires
         THEN /\ state_' = [state_ EXCEPT ![c] = "kDisconnecting"]
              /\ queue' = Queued(l, <<w>>)
         ELSE UNCHANGED <<state_, queue>>
      /\ UNCHANGED <<object, reading_, outputBuffer_, events, added, finSent, loop_, todo,
                     threadVars, calls, ups, downs, aborted>>
  BY DEF TimerFires
<1>2. /\ ServerTypeOK /\ timers' \subseteq Conns
      /\ state_ \in [Conns -> {"kConnecting", "kConnected", "kDisconnecting", "kDisconnected"}]
  BY <1>1 DEF TcpInv, ServerTypeOK, TypeOK
<1>3. w \in Work /\ w.conn = c /\ w.op = "forceCloseInLoop"
  BY DoWork DEF Ops, Owning
<1>4. \A t \in Threads : ThreadInv(t)'
  BY <1>1 DEF TcpInv, ThreadInv, threadVars
<1> HIDE DEF w, fires
<1>5. CASE ~fires
  <2>1. UNCHANGED <<object, connVars, loop_, queue, todo, threadVars, calls, aborted>>
    BY <1>1, <1>5 DEF connVars
  <2>2. ServerTypeOK'
    BY <1>2, <2>1 DEF ServerTypeOK, TypeOK, connVars, threadVars, serverVars
  <2>3. ASSUME NEW d \in Conns PROVE ConnInv(d)'
    <3>1. SameCounts(d) /\ SameState(d) /\ SameOwners(d)
      BY <2>1 DEF SameCounts, SameState, SameOwners, connVars, threadVars, serverVars
    <3> QED BY <3>1, Unconcerned
  <2>4. ASSUME NEW k \in Loops PROVE LoopInv(k)'
    <3>1. Order(queue'[k]) /\ todo'[k] = todo[k] /\ state_' = state_ /\ held' = held
      BY <2>1 DEF TcpInv, LoopInv, connVars, threadVars
    <3> QED BY <3>1, StaysPut
  <2>5. Calm' /\ IsFiniteSet(connections_)'
    BY <2>1 DEF TcpInv, Calm, serverVars
  <2> QED BY <1>4, <2>2, <2>3, <2>4, <2>5 DEF TcpInv
<1>6. CASE fires
  <2>1. Closable(c) /\ state_' = [state_ EXCEPT ![c] = "kDisconnecting"] /\ queue' = Queued(l, <<w>>)
    BY <1>1, <1>6 DEF fires
  <2>2. object[c] = "live" /\ state_[c] # "kConnecting"
    BY <2>1, <1>2 DEF TcpInv, ConnInv, Stage, Closable, ServerTypeOK, TypeOK
  <2>3. c \in connections_
    <3>1. Num(todo[l], "connectDestroyed", c) = 0
      <4>1. <<>> \in Seq(Work)
        OBVIOUS
      <4> QED BY <1>1, <4>1, NumFacts
    <3> QED BY <1>1, <2>1, <2>2, <3>1 DEF TcpInv, ConnInv, Released
  <2>4. <<w>> \in Seq(Work)
    BY <1>3
  <2>5. queue' \in [Loops -> Seq(Work)]
    BY <2>1, <2>4, QueueCounts
  <2>6. /\ state_' \in [Conns -> {"kConnecting", "kConnected", "kDisconnecting", "kDisconnected"}]
        /\ state_'[c] = "kDisconnecting" /\ Closable(c)'
        /\ \A d \in Conns : d # c => state_'[d] = state_[d]
    BY <1>2, <2>1 DEF Closable
  <2>7. ServerTypeOK'
    BY <1>1, <1>2, <2>5, <2>6 DEF ServerTypeOK, TypeOK, threadVars, serverVars
  <2>8. \A d \in Conns : d # c => SameState(d)
    BY <1>1, <2>6 DEF SameState
  <2>9. Traffic(c)'
    <3>1. Traffic(c)
      BY DEF TcpInv, ConnInv
    <3> QED BY <1>1, <2>1, <2>6, <3>1 DEF Traffic, Closable
  <2>10. UNCHANGED <<object, loop_, todo, held, late, aborted, serverVars>> /\ added'[c] = added[c]
    BY <1>1 DEF threadVars
  <2> QED BY <1>1, <1>3, <1>4, <2>1, <2>2, <2>3, <2>6, <2>7, <2>8, <2>9, <2>10, QueuesFor
<1> QED BY <1>5, <1>6


-----------------------------------------------------------------------------
(* The loop takes a functor, or an event.                                  *)

\* The loop takes a functor off its queue.
LEMMA RunFunctorStep ==
  ASSUME TcpInv, NEW l \in Loops, UNCHANGED serverVars, RunFunctor(l)
  PROVE  TcpInv'
<1>1. /\ todo[l] = <<>> /\ queue[l] # <<>>
      /\ todo' = [todo EXCEPT ![l] = <<Head(queue[l])>>]
      /\ queue' = [queue EXCEPT ![l] = Tail(@)]
      /\ UNCHANGED <<object, connVars, loop_, timers, threadVars, calls, aborted>>
  BY DEF RunFunctor
<1>2. todo \in [Loops -> Seq(Work)] /\ queue \in [Loops -> Seq(Work)] /\ queue[l] \in Seq(Work)
  BY Typed
<1>3. PICK h \in Work : h = Head(queue[l]) /\ h = queue[l][1]
  BY <1>1, <1>2
<1>4. /\ todo' \in [Loops -> Seq(Work)] /\ queue' \in [Loops -> Seq(Work)]
      /\ todo'[l] = <<h>> /\ queue'[l] = Tail(queue[l])
      /\ \A k \in Loops : k # l => todo'[k] = todo[k] /\ queue'[k] = queue[k]
  BY <1>1, <1>2, <1>3
<1>5. /\ h.op \in Functors /\ h.conn \in Conns /\ l = Home(h.op, h.conn)
      /\ Num(queue[l], h.op, h.conn) > 0
  <2>1. 1 \in DOMAIN queue[l]
    BY <1>1, <1>2
  <2> QED BY <1>3, <2>1, FoundQueued
<1>6. /\ UNCHANGED <<object, state_, outputBuffer_, events, added, finSent, ups, downs, loop_,
                     held, late, tpc, aborted, connections_, serverUp, numThreads_>>
  BY <1>1 DEF connVars, threadVars, serverVars
<1>7. \A op, d : /\ Num(todo[l], op, d) = 0 /\ Num(todo'[l], op, d) = One(h, op, d)
                 /\ Num(queue[l], op, d) = One(h, op, d) + Num(queue'[l], op, d)
                 /\ Num(queue'[l], op, d) \in Nat /\ One(h, op, d) \in {0, 1}
  <2> SUFFICES ASSUME NEW op, NEW d
               PROVE  /\ Num(todo[l], op, d) = 0 /\ Num(todo'[l], op, d) = One(h, op, d)
                      /\ Num(queue[l], op, d) = One(h, op, d) + Num(queue'[l], op, d)
                      /\ Num(queue'[l], op, d) \in Nat /\ One(h, op, d) \in {0, 1}
    OBVIOUS
  <2>1. Num(todo[l], op, d) = 0
    BY <1>1, <1>2, NumFacts
  <2>2. Num(todo'[l], op, d) = One(h, op, d)
    BY <1>4, NumOne
  <2>3. Num(queue[l], op, d) = One(h, op, d) + Num(queue'[l], op, d)
    BY <1>1, <1>2, <1>3, <1>4, NumTail
  <2>4. Num(queue'[l], op, d) \in Nat
    BY <1>4, NumFacts
  <2> QED BY <2>1, <2>2, <2>3, <2>4 DEF One
<1>8. \A k \in Loops : \A op, d : Wait(k, op, d)' = Wait(k, op, d) /\ Num(queue'[k], op, d) <= Num(queue[k], op, d)
  <2> SUFFICES ASSUME NEW k \in Loops, NEW op, NEW d
               PROVE  /\ Num(todo'[k], op, d) + Num(queue'[k], op, d) = Num(todo[k], op, d) + Num(queue[k], op, d)
                      /\ Num(queue'[k], op, d) <= Num(queue[k], op, d)
    BY DEF Wait
  <2>1. Num(todo[k], op, d) \in Nat /\ Num(queue[k], op, d) \in Nat
    BY Typed
  <2>2. CASE k = l
    <3>1. /\ Num(todo[l], op, d) = 0 /\ Num(todo'[l], op, d) = One(h, op, d)
          /\ Num(queue[l], op, d) = One(h, op, d) + Num(queue'[l], op, d)
          /\ Num(queue'[l], op, d) \in Nat /\ One(h, op, d) \in {0, 1}
      BY <1>7
    <3> QED BY <2>2, <3>1
  <2>3. CASE k # l
    BY <1>4, <2>1, <2>3
  <2> QED BY <2>2, <2>3
<1>9. ServerTypeOK'
  BY <1>1, <1>4 DEF TcpInv, ServerTypeOK, TypeOK, connVars, threadVars, serverVars
<1>10. ASSUME NEW k \in Loops PROVE LoopInv(k)'
  <2>1. Order(queue[k])
    BY DEF TcpInv, LoopInv
  <2>2. CASE k # l
    <3>1. todo'[k] = todo[k] /\ Order(queue'[k])
      BY <1>4, <2>1, <2>2
    <3> QED BY <1>6, <3>1, StaysPut
  <2>3. CASE k = l
    <3>1. Order(queue'[l])
      BY <1>1, <1>2, <1>4, <2>1, <2>3, OrderTail
    <3>2. DOMAIN todo'[l] = {1} /\ todo'[l][1] = h
      BY <1>4
    <3>3. Stack(todo'[l])
      <4>1. h.op # "handleWrite"
        BY <1>5 DEF Functors, Notifications
      <4> QED BY <3>2, <4>1 DEF Stack
    <3>4. DeletedUp(todo[l])'
      BY <3>2 DEF DeletedUp
    <3>5. Top(todo[l])'
      <4>1. h.op \in Spot => h.op = "sendInLoop"
        BY <1>5 DEF Functors, Notifications, Spot
      <4>2. h.op \notin {"handleClose", "handleRead", "startReadInLoop", "shutdownInLoop"}
        BY <1>5 DEF Functors, Notifications
      <4> QED BY <3>2, <4>1, <4>2 DEF Top
    <3> QED BY <2>3, <3>1, <3>3, <3>4, <3>5 DEF LoopInv
  <2> QED BY <2>2, <2>3
<1>11. ASSUME NEW d \in Conns PROVE ConnInv(d)'
  <2>1. PICK m \in Loops : m = loop_[d] /\ m = loop_'[d]
    BY <1>6, Typed
  <2>2. ConnInv(d) /\ base \in Loops
    BY Typed DEF TcpInv
  <2>3. \A k \in Loops : \A op : Num(todo[k], op, d) \in Nat /\ Num(queue[k], op, d) \in Nat
    BY Typed
  <2>4. AtHome(d)'
    <3>1. \A k \in Loops : \A op : Num(queue[k], op, d) = 0 => Num(queue'[k], op, d) = 0
      <4> SUFFICES ASSUME NEW k \in Loops, NEW op, Num(queue[k], op, d) = 0
                   PROVE  Num(queue'[k], op, d) = 0
        OBVIOUS
      <4>1. Num(queue'[k], op, d) \in Nat /\ Num(queue'[k], op, d) <= Num(queue[k], op, d)
        BY <1>4, <1>8, NumFacts
      <4> QED BY <4>1
    <3>2. \A op : Home(op, d)' = Home(op, d)
      BY <1>6 DEF Home, base
    <3> QED BY <1>6, <1>8, <2>2, <3>1, <3>2 DEF ConnInv, AtHome
  <2>5. Traffic(d)'
    BY <1>6, <2>2 DEF ConnInv, Traffic, Closable
  <2>6. Closing(d)' = Closing(d) /\ Leaving(d)' = Leaving(d)
    <3>1. /\ Wait(m, "closeCallback", d)' = Wait(m, "closeCallback", d)
          /\ Wait(base, "removeConnectionInLoop", d)' = Wait(base, "removeConnectionInLoop", d)
          /\ Wait(m, "connectDestroyed", d)' = Wait(m, "connectDestroyed", d)
          /\ Wait(m, "channelRemove", d)' = Wait(m, "channelRemove", d)
      BY <1>8, <2>2 DEF base
    <3> QED BY <2>1, <3>1 DEF Closing, Leaving, base
  <2>7. Owned(d)'
    BY <1>6, <2>2, <2>6 DEF ConnInv, Owned
  <2>8. Stage(d)'
    <3>1. Wait(m, "connectEstablished", d)' = Wait(m, "connectEstablished", d)
      BY <1>8
    <3> QED BY <1>6, <2>1, <2>2, <3>1 DEF ConnInv, Stage, base
  <2>9. Holding(d)'
    BY <1>6, <2>2 DEF ConnInv, Holding
  <2>10. Released(d)'
    <3> SUFFICES ASSUME object[d] = "live", d \notin connections_ PROVE Released(d)'
      BY <1>6 DEF Released
    <3>1. /\ state_[d] # "kConnecting" /\ Closing(d) = 0 /\ Leaving(d) \in {0, 1}
          /\ Closable(d) => state_[d] = "kConnected" /\ Num(todo[m], "connectDestroyed", d) = 1
          /\ Num(queue[m], "connectDestroyed", d) = 0
               => \A op \in Notifications : Wait(m, op, d) = 0
          /\ Leaving(d) = 0 =>
               ~added[d] /\ \A op \in (Raw \ {"sendInLoop"}) \union {"user"} : Wait(m, op, d) = 0
      BY <2>1, <2>2 DEF ConnInv, Released
    <3>2. Closable(d) => Num(todo'[m], "connectDestroyed", d) = 1
      <4>1. CASE m = l
        <5>1. Num(todo[l], "connectDestroyed", d) = 0
          BY <1>7
        <5> QED BY <3>1, <4>1, <5>1
      <4>2. CASE m # l
        BY <1>4, <3>1, <4>2
      <4> QED BY <4>1, <4>2
    <3>3. ASSUME Num(queue'[m], "connectDestroyed", d) = 0, NEW op \in Notifications
          PROVE  Wait(m, op, d)' = 0
      <4>1. CASE Num(queue[m], "connectDestroyed", d) = 0
        BY <1>8, <3>1, <4>1
      <4>2. CASE Num(queue[m], "connectDestroyed", d) # 0
        <5>1. m = l
          BY <1>4, <3>3, <4>2
        <5>2. One(h, "connectDestroyed", d) # 0
          <6>1. Num(queue[l], "connectDestroyed", d) = One(h, "connectDestroyed", d) + Num(queue'[l], "connectDestroyed", d)
            BY <1>7
          <6> QED BY <3>3, <4>2, <5>1, <6>1
        <5>3. h.op = "connectDestroyed" /\ h.conn = d
          BY <5>2 DEF One
        <5>4. Order(queue[l])
          BY DEF TcpInv, LoopInv
        <5>5. Num(queue'[l], op, d) = 0
          BY <1>1, <1>2, <1>3, <1>4, <5>3, <5>4, OrderTail
        <5>6. Num(todo'[l], op, d) = 0
          <6>1. One(h, op, d) = 0
            BY <5>3 DEF One, Notifications
          <6> QED BY <1>7, <6>1
        <5> QED BY <5>1, <5>5, <5>6 DEF Wait
      <4> QED BY <4>1, <4>2
    <3>4. \A op : Wait(m, op, d)' = Wait(m, op, d)
      BY <1>8
    <3> QED BY <1>6, <2>1, <2>6, <3>1, <3>2, <3>3, <3>4 DEF Released, Closable
  <2> QED BY <2>4, <2>5, <2>7, <2>8, <2>9, <2>10 DEF ConnInv
<1>12. Calm' /\ IsFiniteSet(connections_)' /\ \A t \in Threads : ThreadInv(t)'
  BY <1>6 DEF TcpInv, Calm, ThreadInv
<1> QED BY <1>9, <1>10, <1>11, <1>12 DEF TcpInv


\* The handlers that an event calls.
Handlers == {"handleClose", "handleRead", "handleWrite", "eventEnd"}

\* What Channel::handleEvent puts on an empty stack, and that it is a stack.
EventWork(c, close, read, write) ==
  (IF close THEN <<Do("handleClose", c)>> ELSE <<>>)
  \o (IF read THEN <<Do("handleRead", c)>> ELSE <<>>)
  \o (IF write THEN <<Do("handleWrite", c)>> ELSE <<>>)
  \o <<Do("eventEnd", c)>>

\* Short concatenations.
LEMMA Pairs ==
  /\ <<>> \o <<>> = <<>>
  /\ \A w \in Work : /\ <<>> \o <<w>> = <<w>> /\ <<w>> \o <<>> = <<w>>
  /\ \A v, w \in Work : <<v>> \o <<w>> = <<v, w>>
  /\ \A u, v, w \in Work : <<u, v>> \o <<w>> = <<u, v, w>>
<1>1. \A w \in Work : /\ <<>> \o <<w>> = <<w>> /\ <<w>> \o <<>> = <<w>>
  BY ConcatEmptySeq
<1>2. ASSUME NEW v \in Work, NEW w \in Work PROVE <<v>> \o <<w>> = <<v, w>>
  <2> DEFINE r == <<v>> \o <<w>>
             t == <<v, w>>
  <2>1. r \in Seq(Work) /\ Len(r) = 2 /\ r[1] = v /\ r[2] = w
    OBVIOUS
  <2>2. t \in Seq(Work) /\ Len(t) = 2 /\ t[1] = v /\ t[2] = w
    OBVIOUS
  <2> HIDE DEF r, t
  <2>3. \A i \in 1..Len(r) : r[i] = t[i]
    BY <2>1, <2>2
  <2>4. r = t
    BY <2>1, <2>2, <2>3, SeqEqual
  <2> QED BY <2>4 DEF r, t
<1>3. ASSUME NEW u \in Work, NEW v \in Work, NEW w \in Work
      PROVE  <<u, v>> \o <<w>> = <<u, v, w>>
  <2> DEFINE r == <<u, v>> \o <<w>>
             t == <<u, v, w>>
  <2>1. r \in Seq(Work) /\ Len(r) = 3 /\ r[1] = u /\ r[2] = v /\ r[3] = w
    OBVIOUS
  <2>2. t \in Seq(Work) /\ Len(t) = 3 /\ t[1] = u /\ t[2] = v /\ t[3] = w
    OBVIOUS
  <2> HIDE DEF r, t
  <2>3. \A i \in 1..Len(r) : r[i] = t[i]
    BY <2>1, <2>2
  <2>4. r = t
    BY <2>1, <2>2, <2>3, SeqEqual
  <2> QED BY <2>4 DEF r, t
<1>4. <<>> \o <<>> = <<>>
  OBVIOUS
<1> QED BY <1>1, <1>2, <1>3, <1>4

\* The handlers of one event make a stack.
LEMMA EventStack ==
  ASSUME NEW c \in Conns, NEW close \in BOOLEAN, NEW read \in BOOLEAN, NEW write \in BOOLEAN,
         ~(close /\ read)
  PROVE  /\ EventWork(c, close, read, write) \in Seq(Work)
         /\ Stack(EventWork(c, close, read, write))
         /\ \A i \in DOMAIN EventWork(c, close, read, write) :
              /\ EventWork(c, close, read, write)[i].conn = c
              /\ EventWork(c, close, read, write)[i].op \in Handlers
<1> DEFINE x == Do("handleClose", c)
           y == Do("handleRead", c)
           z == Do("handleWrite", c)
           e == Do("eventEnd", c)
           s == EventWork(c, close, read, write)
<1>1. /\ x \in Work /\ x.conn = c /\ x.op = "handleClose"
      /\ y \in Work /\ y.conn = c /\ y.op = "handleRead"
      /\ z \in Work /\ z.conn = c /\ z.op = "handleWrite"
      /\ e \in Work /\ e.conn = c /\ e.op = "eventEnd"
  BY DoWork DEF Ops, Owning
<1> HIDE DEF x, y, z, e
<1>2. /\ Rank("handleClose") = 2 /\ Rank("handleRead") = 2
      /\ Rank("handleWrite") = 3 /\ Rank("eventEnd") = 4
  BY DEF Rank, Spot, Notifications
<1>3. /\ Above(x, z) /\ Above(x, e) /\ Above(y, z) /\ Above(y, e) /\ Above(z, e)
  BY <1>1, <1>2 DEF Above, Frames
<1> DEFINE Good(r) == /\ r \in Seq(Work) /\ Stack(r)
                      /\ \A i \in DOMAIN r : r[i].conn = c /\ r[i].op \in Handlers
<1>4. Good(<<e>>)
  BY <1>1 DEF Stack, Handlers
<1>5. Good(<<z, e>>) /\ Good(<<x, e>>) /\ Good(<<y, e>>)
  BY <1>1, <1>3 DEF Stack, Handlers
<1>6. Good(<<x, z, e>>) /\ Good(<<y, z, e>>)
  BY <1>1, <1>3 DEF Stack, Handlers
<1>7. /\ <<>> \o <<>> = <<>> /\ <<>> \o <<e>> = <<e>>
      /\ <<>> \o <<y>> = <<y>> /\ <<>> \o <<z>> = <<z>>
      /\ <<x>> \o <<>> = <<x>> /\ <<y>> \o <<>> = <<y>>
      /\ <<x>> \o <<e>> = <<x, e>> /\ <<y>> \o <<e>> = <<y, e>> /\ <<z>> \o <<e>> = <<z, e>>
      /\ <<x>> \o <<z>> = <<x, z>> /\ <<y>> \o <<z>> = <<y, z>>
      /\ <<x, z>> \o <<e>> = <<x, z, e>> /\ <<y, z>> \o <<e>> = <<y, z, e>>
  <2>1. x \in Work /\ y \in Work /\ z \in Work /\ e \in Work
    BY <1>1
  <2> QED BY <2>1, Pairs, Zenon
<1>8. s = IF close THEN (IF write THEN <<x, z, e>> ELSE <<x, e>>)
          ELSE IF read THEN (IF write THEN <<y, z, e>> ELSE <<y, e>>)
          ELSE (IF write THEN <<z, e>> ELSE <<e>>)
  <2> DEFINE A == IF close THEN <<x>> ELSE <<>>
             B == IF read THEN <<y>> ELSE <<>>
             C == IF write THEN <<z>> ELSE <<>>
  <2>1. s = A \o B \o C \o <<e>>
    BY DEF s, x, y, z, e, EventWork
  <2>2. A \o B = IF close THEN <<x>> ELSE IF read THEN <<y>> ELSE <<>>
    BY <1>7, Zenon
  <2>3. A \o B \o C = IF close THEN (IF write THEN <<x, z>> ELSE <<x>>)
                      ELSE IF read THEN (IF write THEN <<y, z>> ELSE <<y>>)
                      ELSE C
    BY <1>7, <2>2, Zenon
  <2> QED BY <1>7, <2>1, <2>3, Zenon
<1> HIDE DEF Good, s
<1>9. Good(s)
  BY <1>4, <1>5, <1>6, <1>8, Zenon
<1> QED BY <1>9 DEF Good, s

\* handleEvent puts handlers of the connection on the stack.
LEMMA EventTodo ==
  ASSUME NEW l \in Loops, NEW c \in Conns, NEW revents \in Events, HandleEvent(l, c, revents)
  PROVE  \E s \in Seq(Work) :
           /\ todo' = [todo EXCEPT ![l] = s]
           /\ Stack(s) /\ \A i \in DOMAIN s : s[i].conn = c /\ s[i].op \in Handlers
<1> DEFINE close == "hup" \in revents /\ "read" \notin revents
           read == "read" \in revents
           write == "write" \in revents
           r == EventWork(c, close, read, write)
<1>1. todo' = [todo EXCEPT ![l] = r]
  BY DEF HandleEvent, EventWork
<1>2. close \in BOOLEAN /\ read \in BOOLEAN /\ write \in BOOLEAN /\ ~(close /\ read)
  OBVIOUS
<1> HIDE DEF close, read, write
<1>3. /\ r \in Seq(Work) /\ Stack(r)
      /\ \A i \in DOMAIN r : r[i].conn = c /\ r[i].op \in Handlers
  BY <1>2, EventStack
<1> HIDE DEF r
<1> QED BY <1>1, <1>3

\* The loop handles an event.
LEMMA HandleEventStep ==
  ASSUME TcpInv, NEW l \in Loops, NEW c \in Conns, NEW revents \in Events, UNCHANGED serverVars,
         HandleEvent(l, c, revents)
  PROVE  TcpInv'
<1>1. /\ todo[l] = <<>> /\ object[c] = "live" /\ loop_[c] = l /\ events[c] # {}
      /\ UNCHANGED <<object, connVars, loop_, timers, queue, threadVars, calls, aborted>>
      /\ Quiet
  BY DEF HandleEvent, Quiet
<1>2. PICK s \in Seq(Work) :
        /\ todo' = [todo EXCEPT ![l] = s]
        /\ Stack(s) /\ \A i \in DOMAIN s : s[i].conn = c /\ s[i].op \in Handlers
  BY EventTodo
<1>3. /\ todo' \in [Loops -> Seq(Work)] /\ todo'[l] = s
      /\ \A k \in Loops : k # l => todo'[k] = todo[k]
  BY <1>2, Typed
<1>4. /\ ServerTypeOK' /\ Calm' /\ IsFiniteSet(connections_)'
      /\ \A t \in Threads : ThreadInv(t)'
      /\ \A d \in Conns : SameState(d) /\ (Traffic(d) => Traffic(d)')
      /\ \A k \in Loops : Order(queue'[k])
  BY <1>1, <1>3, QuietKeeps
<1>5. /\ UNCHANGED <<object, state_, outputBuffer_, events, added, finSent, ups, downs, loop_,
                     held, late, queue, connections_, serverUp, numThreads_>>
  BY <1>1 DEF connVars, threadVars, serverVars
<1>6. Closable(c)
  BY <1>1 DEF TcpInv, ConnInv, Traffic
<1>7. ASSUME NEW k \in Loops PROVE LoopInv(k)'
  <2>1. CASE k # l
    BY <1>3, <1>4, <1>5, <2>1, StaysPut
  <2>2. CASE k = l
    <3>1. DeletedUp(todo[l])'
      BY <1>2, <1>3 DEF DeletedUp, Handlers
    <3>2. s # <<>> => 1 \in DOMAIN s
      BY <1>2
    <3>3. Top(todo[l])'
      <4>1. Closable(c)' <=> Closable(c)
        BY <1>5 DEF Closable
      <4>2. s # <<>> => s[1].conn = c /\ s[1].op \notin Spot
        BY <1>2, <3>2 DEF Handlers, Spot
      <4> QED BY <1>3, <1>6, <4>1, <4>2 DEF Top, Closable
    <3> QED BY <1>2, <1>3, <1>4, <2>2, <3>1, <3>3 DEF LoopInv
  <2> QED BY <2>1, <2>2
<1>8. \A op, d : Num(todo[l], op, d) = 0
  <2>1. todo[l] \in Seq(Work)
    BY Typed
  <2> QED BY <1>1, <2>1, NumFacts
<1>9. \A op, d : d # c \/ op \notin Handlers => Num(todo'[l], op, d) = 0
  <2> SUFFICES ASSUME NEW op, NEW d, d # c \/ op \notin Handlers PROVE Num(s, op, d) = 0
    BY <1>3
  <2>1. \A i \in DOMAIN s : ~(s[i].op = op /\ s[i].conn = d)
    BY <1>2
  <2> QED BY <2>1, NumFacts
<1>10. ASSUME NEW d \in Conns PROVE ConnInv(d)'
  <2>1. CASE d # c
    <3>1. SameCounts(d) /\ SameOwners(d)
      BY <1>3, <1>5, <1>8, <1>9, <2>1 DEF SameCounts, SameOwners
    <3> QED BY <1>4, <3>1, Unconcerned
  <2>2. CASE d = c
    <3>1. ConnInv(c) /\ base \in Loops /\ loop_'[c] = l
      BY <1>1, <1>5, Typed DEF TcpInv
    <3>2. \A k \in Loops : \A op : op \notin Handlers =>
            Num(todo'[k], op, c) = Num(todo[k], op, c) /\ Wait(k, op, c)' = Wait(k, op, c)
      <4> SUFFICES ASSUME NEW k \in Loops, NEW op, op \notin Handlers
                   PROVE  Num(todo'[k], op, c) = Num(todo[k], op, c)
        BY <1>5 DEF Wait
      <4> QED BY <1>3, <1>8, <1>9
    <3>3. AtHome(c)'
      <4> SUFFICES ASSUME NEW k \in Loops, NEW op \in Ops
                   PROVE  /\ Wait(k, op, c)' > 0 =>
                               /\ k = Home(op, c)'
                               /\ op # "connectEstablished" => state_[c] # "kConnecting"
                          /\ op \notin Functors => Num(queue[k], op, c) = 0
        BY <1>1, <1>5 DEF AtHome
      <4>1. Home(op, c)' = Home(op, c)
        BY <1>5 DEF Home, base
      <4>2. CASE k # l
        <5>1. Wait(k, op, c)' = Wait(k, op, c)
          BY <1>3, <1>5, <4>2 DEF Wait
        <5> QED BY <3>1, <4>1, <5>1 DEF ConnInv, AtHome
      <4>3. CASE k = l /\ op \notin Handlers
        BY <3>1, <3>2, <4>1, <4>3 DEF ConnInv, AtHome
      <4>4. CASE k = l /\ op \in Handlers
        BY <1>1, <1>6, <3>1, <4>1, <4>4 DEF ConnInv, AtHome, Home, Handlers, Closable
      <4> QED BY <4>2, <4>3, <4>4
    <3>4. \A op \in Tokens \union Notifications \union Raw \union {"user"} : op \notin Handlers
      BY DEF Tokens, Notifications, Raw, Handlers
    <3>5. Closing(c)' = Closing(c) /\ Leaving(c)' = Leaving(c)
      <4>1. /\ Wait(l, "closeCallback", c)' = Wait(l, "closeCallback", c)
            /\ Wait(base, "removeConnectionInLoop", c)' = Wait(base, "removeConnectionInLoop", c)
            /\ Wait(l, "connectDestroyed", c)' = Wait(l, "connectDestroyed", c)
            /\ Wait(l, "channelRemove", c)' = Wait(l, "channelRemove", c)
        BY <3>1, <3>2 DEF base, Handlers
      <4> QED BY <1>1, <3>1, <4>1 DEF Closing, Leaving, base
    <3>6. Traffic(c)' /\ Owned(c)'
      BY <1>4, <1>5, <3>1, <3>5 DEF ConnInv, Owned
    <3>7. Released(c)'
      <4>1. Num(todo'[l], "connectDestroyed", c) = Num(todo[l], "connectDestroyed", c)
        BY <3>2 DEF Handlers
      <4>2. \A op \in Raw \union {"user"} : Wait(l, op, c)' = Wait(l, op, c)
        BY <3>2, <3>4
      <4>3. Notifications \subseteq Raw
        BY DEF Notifications, Raw
      <4> QED BY <1>1, <1>5, <3>1, <3>5, <4>1, <4>2, <4>3 DEF ConnInv, Released, Closable
    <3>8. Stage(c)'
      <4>1. Wait(l, "connectEstablished", c)' = Wait(l, "connectEstablished", c)
        BY <3>2 DEF Handlers
      <4> QED BY <1>1, <1>5, <3>1, <4>1 DEF ConnInv, Stage, base
    <3>9. Holding(c)'
      BY <1>1, <1>5, <3>1 DEF ConnInv, Holding
    <3> QED BY <2>2, <3>3, <3>6, <3>7, <3>8, <3>9 DEF ConnInv
  <2> QED BY <2>1, <2>2
<1> QED BY <1>4, <1>7, <1>10 DEF TcpInv


-----------------------------------------------------------------------------
(* Steps that take a connection from one stage to the next.                *)

\* The counts after the top of stack l made way for work, and more was queued on m,
\* all for connection c.
Moved(l, c, work, m, more) ==
  /\ todo' \in [Loops -> Seq(Work)] /\ queue' \in [Loops -> Seq(Work)]
  /\ \A k \in Loops : k # l => todo'[k] = todo[k]
  /\ \A k \in Loops : k # m => queue'[k] = queue[k]
  /\ \A d \in Conns : d # c => SameCounts(d)
  /\ \A op : /\ Num(todo'[l], op, c) \in Nat
             /\ Num(todo'[l], op, c)
                  = Num(todo[l], op, c) + Num(work, op, c) - One(todo[l][1], op, c)
             /\ Num(queue'[m], op, c) = Num(queue[m], op, c) + Num(more, op, c)

\* The counts after a step that queues the next stage.
LEMMA TokenCounts ==
  ASSUME TcpInv, NEW l \in Loops, NEW c \in Conns, todo[l] # <<>>, todo[l][1].conn = c,
         NEW work \in Seq(Work), \A i \in DOMAIN work : work[i].conn = c, Then(l, work),
         NEW m \in Loops, NEW more \in Seq(Work), \A i \in DOMAIN more : more[i].conn = c,
         queue' = Queued(m, more)
  PROVE  Moved(l, c, work, m, more)
<1>1. /\ todo' \in [Loops -> Seq(Work)] /\ \A k \in Loops : k # l => todo'[k] = todo[k]
      /\ \A op, d : /\ Num(todo'[l], op, d) \in Nat
                    /\ Num(todo'[l], op, d) + One(todo[l][1], op, d)
                         = Num(todo[l], op, d) + Num(work, op, d)
  BY ThenCounts
<1>2. /\ queue' \in [Loops -> Seq(Work)] /\ \A k \in Loops : k # m => queue'[k] = queue[k]
      /\ \A op, d : Num(queue'[m], op, d) = Num(queue[m], op, d) + Num(more, op, d)
  BY QueueCounts
<1>3. \A op, d : /\ Num(todo[l], op, d) \in Nat /\ Num(queue[m], op, d) \in Nat
                 /\ Num(work, op, d) \in Nat /\ One(todo[l][1], op, d) \in {0, 1}
  BY Typed, NumFacts DEF One
<1>4. ASSUME NEW op, NEW d, d # c
      PROVE  Num(work, op, d) = 0 /\ Num(more, op, d) = 0 /\ One(todo[l][1], op, d) = 0
  <2>1. \A i \in DOMAIN work : ~(work[i].op = op /\ work[i].conn = d)
    BY <1>4
  <2>2. \A i \in DOMAIN more : ~(more[i].op = op /\ more[i].conn = d)
    BY <1>4
  <2>3. One(todo[l][1], op, d) = 0
    BY <1>4 DEF One
  <2> QED BY <2>1, <2>2, <2>3, NumFacts
<1>5. ASSUME NEW d \in Conns, d # c PROVE SameCounts(d)
  <2>1. ASSUME NEW k \in Loops, NEW op \in Ops
        PROVE  /\ Num(todo'[k], op, d) = Num(todo[k], op, d)
               /\ Num(queue'[k], op, d) = Num(queue[k], op, d)
    <3>1. Num(work, op, d) = 0 /\ Num(more, op, d) = 0 /\ One(todo[l][1], op, d) = 0
      BY <1>4, <1>5
    <3>2. Num(todo'[k], op, d) = Num(todo[k], op, d)
      <4>1. CASE k # l
        BY <1>1, <4>1
      <4>2. CASE k = l
        <5>1. /\ Num(todo'[l], op, d) \in Nat /\ Num(todo[l], op, d) \in Nat
              /\ Num(todo'[l], op, d) + One(todo[l][1], op, d) = Num(todo[l], op, d) + Num(work, op, d)
          BY <1>1, <1>3
        <5> QED BY <3>1, <4>2, <5>1
      <4> QED BY <4>1, <4>2
    <3>3. Num(queue'[k], op, d) = Num(queue[k], op, d)
      <4>1. CASE k # m
        BY <1>2, <4>1
      <4>2. CASE k = m
        <5>1. /\ Num(queue[m], op, d) \in Nat
              /\ Num(queue'[m], op, d) = Num(queue[m], op, d) + Num(more, op, d)
          BY <1>2, <1>3
        <5> QED BY <3>1, <4>2, <5>1
      <4> QED BY <4>1, <4>2
    <3> QED BY <3>2, <3>3
  <2> QED BY <2>1 DEF SameCounts
<1>6. ASSUME NEW op
      PROVE  /\ Num(todo'[l], op, c) \in Nat
             /\ Num(todo'[l], op, c)
                  = Num(todo[l], op, c) + Num(work, op, c) - One(todo[l][1], op, c)
  <2>1. /\ Num(todo'[l], op, c) \in Nat
        /\ Num(todo'[l], op, c) + One(todo[l][1], op, c) = Num(todo[l], op, c) + Num(work, op, c)
    BY <1>1
  <2>2. Num(todo[l], op, c) \in Nat /\ Num(work, op, c) \in Nat /\ One(todo[l][1], op, c) \in {0, 1}
    BY <1>3
  <2> QED BY <2>1, <2>2
<1> QED BY <1>1, <1>2, <1>5, <1>6 DEF Moved

\* Queuing nothing.
LEMMA NothingQueued ==
  ASSUME TcpInv, queue' = queue, NEW m \in Loops
  PROVE  queue' = Queued(m, <<>>) /\ <<>> \in Seq(Work)
<1>1. queue \in [Loops -> Seq(Work)] /\ queue[m] \in Seq(Work)
  BY Typed
<1>2. queue[m] \o <<>> = queue[m]
  BY <1>1, ConcatEmptySeq
<1> QED BY <1>1, <1>2 DEF Queued

\* A callback above a frame that returns to the same connection.
LEMMA TwoCounts ==
  ASSUME NEW v \in Work, NEW w \in Work, NEW op, NEW c
  PROVE  /\ <<v, w>> \in Seq(Work)
         /\ Num(<<v, w>>, op, c) = One(v, op, c) + One(w, op, c)
<1> DEFINE q == <<w>>
<1>1. q \in Seq(Work) /\ Num(q, op, c) = One(w, op, c)
  BY NumOne
<1>2. <<v>> \o q = <<v, w>>
  BY Pairs
<1> HIDE DEF q
<1>3. Num(<<v>> \o q, op, c) = One(v, op, c) + Num(q, op, c)
  BY <1>1, NumCons
<1>4. <<v, w>> \in Seq(Work)
  OBVIOUS
<1>5. Num(<<v, w>>, op, c) = One(v, op, c) + One(w, op, c)
  BY <1>1, <1>2, <1>3, Zenon
<1> QED BY <1>4, <1>5

\* The top makes way for a callback that returns to the frame w.
LEMMA CallbackLoops ==
  ASSUME TcpInv, NEW l \in Loops, NEW c \in Conns, WorksFor(l, c),
         NEW v \in Work, v.conn = c, v.op = "user",
         NEW w \in Work, w.conn = c, w.op \in {"closeCallback", "channelRemove"},
         Then(l, <<v, w>>), Rank(w.op) <= Rank(todo[l][1].op)
  PROVE  \A k \in Loops : LoopInv(k)'
<1> DEFINE s == todo[l]
           r == <<w>> \o Tail(s)
<1>1. s \in Seq(Work) /\ Tail(s) \in Seq(Work) /\ Stack(s) /\ s # <<>> /\ s[1].conn = c
  BY Typed DEF TcpInv, LoopInv, WorksFor
<1>2. <<v, w>> \in Seq(Work) /\ DOMAIN <<v, w>> = 1..2 /\ <<v, w>>[1] = v /\ <<v, w>>[2] = w
  OBVIOUS
<1>3. todo'[l] = <<v, w>> \o Tail(s)
  BY <1>1, <1>2, ThenCounts
<1>4. r \in Seq(Work) /\ r # <<>> /\ r[1] = w
  BY <1>1
<1>5. Stack(r)
  <2>1. w.op # "handleWrite"
    OBVIOUS
  <2> QED BY <1>1, <2>1, StackReplace
<1>6. todo'[l] = <<v>> \o r
  <2> DEFINE t == Tail(s)
             a == <<v>>
             b == <<w>>
  <2>1. a \in Seq(Work) /\ b \in Seq(Work) /\ t \in Seq(Work) /\ a \o b = <<v, w>>
    BY <1>1, Pairs
  <2> HIDE DEF a, b, t
  <2>2. (a \o b) \o t = a \o (b \o t)
    <3>1. a \in Seq(Work) /\ b \in Seq(Work) /\ t \in Seq(Work)
      BY <2>1
    <3> QED BY <3>1, ConcatAssociative
  <2> QED BY <1>3, <2>1, <2>2 DEF a, b, t
<1> HIDE DEF r
<1>7. Stack(<<v>> \o r)
  <2>1. Rank(v.op) < Rank(w.op) /\ w.op \in Frames
    BY DEF Rank, Spot, Notifications, Frames
  <2> QED BY <1>4, <1>5, <2>1, StackOn
<1>8. todo'[l][1] = v
  BY <1>4, <1>6
<1>9. Top(todo[l])'
  BY <1>8 DEF Top, Spot
<1>10. \A i \in DOMAIN <<v, w>> : <<v, w>>[i].op # "connectDestroyed"
  BY <1>2
<1> QED BY <1>2, <1>6, <1>7, <1>9, <1>10, WorksForRest


\* A step between stages keeps the invariant if it keeps that of its connection.
LEMMA TokenStep ==
  ASSUME TcpInv, NEW c \in Conns, UNCHANGED <<threadVars, aborted, serverUp, numThreads_>>,
         ServerTypeOK', IsFiniteSet(connections_)', \A k \in Loops : LoopInv(k)',
         \A d \in Conns : d # c => /\ SameCounts(d) /\ SameState(d)
                                   /\ d \in connections_' <=> d \in connections_,
         ConnInv(c)'
  PROVE  TcpInv'
<1>1. ASSUME NEW d \in Conns, d # c PROVE ConnInv(d)'
  <2>1. SameCounts(d) /\ SameState(d) /\ SameOwners(d)
    BY <1>1 DEF SameOwners, threadVars
  <2> QED BY <2>1, Unconcerned
<1>2. Calm' /\ \A t \in Threads : ThreadInv(t)'
  BY DEF TcpInv, Calm, ThreadInv, threadVars
<1> QED BY <1>1, <1>2 DEF TcpInv

\* connectEstablished.
LEMMA ConnectEstablishedStep ==
  ASSUME TcpInv, NEW l \in Loops, NEW c \in Conns, UNCHANGED serverVars, connectEstablished(l, c)
  PROVE  TcpInv'
<1> DEFINE w == Do("user", c)
<1>1. /\ At(l, "connectEstablished", c)
      /\ Asserts(state_[c] = "kConnecting", "TcpConnection.cc:207")
      /\ state_' = [state_ EXCEPT ![c] = "kConnected"]
      /\ Ask(c, events[c] \union {"read"})
      /\ ups' = [ups EXCEPT ![c] = @ + 1]
      /\ Then(l, <<w>>)
      /\ UNCHANGED <<object, loop_, timers, threadVars, calls, reading_, outputBuffer_, finSent,
                     queue, downs>>
  BY DEF connectEstablished, Runs
<1>2. w \in Work /\ w.conn = c /\ w.op = "user"
  BY DoWork DEF Ops, Owning
<1> HIDE DEF w
<1>3. /\ todo[l] # <<>> /\ todo[l][1].op = "connectEstablished" /\ todo[l][1].conn = c
      /\ l = loop_[c] /\ object[c] = "live" /\ Num(todo[l], "connectEstablished", c) > 0
      /\ Wait(l, "connectEstablished", c) > 0
  BY <1>1, AtTop DEF Home
<1>4. ConnInv(c) /\ base \in Loops
  BY Typed DEF TcpInv
<1>5. /\ state_[c] = "kConnecting" /\ Wait(l, "connectEstablished", c) = 1
  BY <1>3, <1>4 DEF ConnInv, Stage
<1>6. c \in connections_
  BY <1>3, <1>4, <1>5 DEF ConnInv, Released
<1>7. aborted' = aborted
  BY <1>1, <1>5 DEF Asserts
<1>8. events[c] = {} /\ outputBuffer_[c] = 0 /\ ups[c] = 0 /\ downs[c] = 0
  BY <1>4, <1>5 DEF ConnInv, Traffic, Closable
<1>9. PICK work \in Seq(Work), more \in Seq(Work) :
        /\ work = <<w>> /\ (\A i \in DOMAIN work : work[i].conn = c) /\ Then(l, work)
        /\ DOMAIN more = {} /\ queue' = Queued(base, more)
  <2>1. queue' = Queued(base, <<>>) /\ <<>> \in Seq(Work) /\ DOMAIN <<>> = {}
    BY <1>1, <1>4, NothingQueued
  <2>2. <<w>> \in Seq(Work) /\ \A i \in DOMAIN <<w>> : <<w>>[i].conn = c
    BY <1>2
  <2> QED BY <1>1, <2>1, <2>2
<1>10. /\ todo' \in [Loops -> Seq(Work)] /\ queue' \in [Loops -> Seq(Work)]
       /\ \A k \in Loops : k # l => todo'[k] = todo[k]
       /\ \A d \in Conns : d # c => SameCounts(d)
       /\ \A op : /\ Num(todo'[l], op, c) \in Nat
                  /\ Num(todo'[l], op, c)
                       = Num(todo[l], op, c) + Num(work, op, c) - One(todo[l][1], op, c)
  <2>1. Moved(l, c, work, base, more)
    BY <1>3, <1>4, <1>9, TokenCounts
  <2> QED BY <2>1 DEF Moved
<1>11. \A k \in Loops : \A op : Num(todo[k], op, c) \in Nat /\ Num(queue[k], op, c) \in Nat
  BY Typed
<1>12. ASSUME NEW k \in Loops, NEW op
       PROVE  /\ k # l \/ op \notin {"user", "connectEstablished"} => Num(todo'[k], op, c) = Num(todo[k], op, c)
              /\ op = "connectEstablished" /\ k = l => Num(todo'[k], op, c) = Num(todo[k], op, c) - 1
  <2>1. CASE k # l
    BY <1>10, <2>1
  <2>2. CASE k = l
    <3>1. /\ Num(work, op, c) = One(w, op, c) /\ One(w, op, c) = (IF op = "user" THEN 1 ELSE 0)
          /\ One(todo[l][1], op, c) = IF op = "connectEstablished" THEN 1 ELSE 0
      BY <1>2, <1>3, <1>9, NumOne DEF One
    <3>2. Num(todo'[l], op, c) = Num(todo[l], op, c) + Num(work, op, c) - One(todo[l][1], op, c)
          /\ Num(todo[l], op, c) \in Nat
      BY <1>10, <1>11
    <3> QED BY <2>2, <3>1, <3>2
  <2> QED BY <2>1, <2>2
<1>13. /\ state_' \in [Conns -> {"kConnecting", "kConnected", "kDisconnecting", "kDisconnected"}]
       /\ events' \in [Conns -> SUBSET {"read", "write"}] /\ added' \in [Conns -> BOOLEAN]
       /\ ups' \in [Conns -> Nat]
       /\ state_'[c] = "kConnected" /\ events'[c] = {"read"} /\ ups'[c] = 1
       /\ \A d \in Conns : d # c => /\ state_'[d] = state_[d] /\ events'[d] = events[d]
                                    /\ added'[d] = added[d] /\ ups'[d] = ups[d]
  BY <1>1, <1>8 DEF Ask, TcpInv, ServerTypeOK, TypeOK
<1>14. ServerTypeOK' /\ IsFiniteSet(connections_)'
  BY <1>1, <1>10, <1>13 DEF TcpInv, ServerTypeOK, TypeOK, threadVars, serverVars
<1>15. \A d \in Conns : d # c => SameState(d)
  BY <1>1, <1>13 DEF SameState
<1>16. \A k \in Loops : LoopInv(k)'
  <2>1. WorksFor(l, c)
    BY <1>1, <1>3, <1>13 DEF WorksFor, threadVars, TcpInv, LoopInv
  <2>2. Rank("user") <= Rank("connectEstablished")
    BY DEF Rank, Spot, Notifications
  <2> QED BY <1>1, <1>2, <1>3, <2>1, <2>2, PutLoops DEF Spot
<1>17. ConnInv(c)'
  <2>1. /\ loop_'[c] = l /\ loop_' = loop_ /\ object' = object /\ queue' = queue /\ held' = held
        /\ UNCHANGED <<connections_, serverUp, numThreads_>>
    BY <1>1, <1>3 DEF threadVars, serverVars
  <2>2. AtHome(c)'
    <3> SUFFICES ASSUME NEW k \in Loops, NEW op \in Ops
                 PROVE  /\ Wait(k, op, c)' > 0 => k = Home(op, c)'
                        /\ op \notin Functors => Num(queue[k], op, c) = 0
      BY <1>3, <1>13, <2>1 DEF AtHome
    <3>1. Home(op, c)' = Home(op, c)
      BY <2>1 DEF Home, base
    <3>2. CASE k # l \/ op \notin {"user", "connectEstablished"}
      <4>1. Wait(k, op, c)' = Wait(k, op, c)
        BY <1>12, <2>1, <3>2 DEF Wait
      <4> QED BY <1>4, <3>1, <4>1 DEF ConnInv, AtHome
    <3>3. CASE k = l /\ op \in {"user", "connectEstablished"}
      BY <1>3, <1>4, <3>1, <3>3 DEF ConnInv, AtHome, Home
    <3> QED BY <3>2, <3>3
  <2>3. Closing(c)' = Closing(c) /\ Leaving(c)' = Leaving(c)
    <3>1. /\ Wait(l, "closeCallback", c)' = Wait(l, "closeCallback", c)
          /\ Wait(base, "removeConnectionInLoop", c)' = Wait(base, "removeConnectionInLoop", c)
          /\ Wait(l, "connectDestroyed", c)' = Wait(l, "connectDestroyed", c)
          /\ Wait(l, "channelRemove", c)' = Wait(l, "channelRemove", c)
      BY <1>4, <1>12, <2>1 DEF Wait, base
    <3> QED BY <1>3, <2>1, <3>1 DEF Closing, Leaving, base
  <2>4. Traffic(c)'
    BY <1>1, <1>8, <1>13 DEF Traffic, Closable
  <2>5. Owned(c)' /\ Released(c)'
    BY <1>4, <1>5, <1>6, <1>13, <2>1, <2>3 DEF ConnInv, Owned, Released
  <2>6. Stage(c)'
    <3>1. Wait(l, "connectEstablished", c)' = 0
      <4>1. Num(todo'[l], "connectEstablished", c) = Num(todo[l], "connectEstablished", c) - 1
        BY <1>12
      <4> QED BY <1>5, <1>11, <2>1, <4>1 DEF Wait
    <3> QED BY <1>3, <1>4, <1>13, <2>1, <3>1 DEF ConnInv, Stage, base
  <2>7. Holding(c)'
    BY <1>3, <1>4, <1>13, <2>1 DEF ConnInv, Holding
  <2> QED BY <2>2, <2>4, <2>5, <2>6, <2>7 DEF ConnInv
<1>18. UNCHANGED <<threadVars, aborted, connections_, serverUp, numThreads_>>
  BY <1>1, <1>7 DEF serverVars
<1> QED BY <1>10, <1>14, <1>15, <1>16, <1>17, <1>18, TokenStep


\* A connection that is up goes down, and its close sets out for the server.
LEMMA HandleCloseStep ==
  ASSUME TcpInv, NEW l \in Loops, NEW c \in Conns, UNCHANGED serverVars, handleClose(l, c)
  PROVE  TcpInv'
<1> DEFINE v == Do("user", c)
           w == Do("closeCallback", c)
<1>1. /\ At(l, "handleClose", c)
      /\ Asserts(state_[c] \in {"kConnected", "kDisconnecting"}, "TcpConnection.cc:269")
      /\ state_' = [state_ EXCEPT ![c] = "kDisconnected"]
      /\ Ask(c, {})
      /\ downs' = [downs EXCEPT ![c] = @ + 1]
      /\ Then(l, <<v, w>>)
      /\ UNCHANGED <<object, loop_, timers, threadVars, calls, reading_, outputBuffer_, finSent,
                     queue, ups>>
  BY DEF handleClose, Runs, DisableAll, CloseCallbacks
<1>2. v \in Work /\ v.conn = c /\ v.op = "user" /\ w \in Work /\ w.conn = c /\ w.op = "closeCallback"
  BY DoWork DEF Ops, Owning
<1> HIDE DEF v, w
<1>3. /\ todo[l] # <<>> /\ todo[l][1].op = "handleClose" /\ todo[l][1].conn = c
      /\ l = loop_[c] /\ object[c] = "live"
  BY <1>1, AtTop DEF Home
<1>4. ConnInv(c) /\ base \in Loops
  BY Typed DEF TcpInv
<1>5. Closable(c)
  BY <1>3 DEF TcpInv, LoopInv, Top
<1>6. c \in connections_
  BY <1>3, <1>5, UpIsOwned
<1>7. aborted' = aborted
  BY <1>1, <1>5 DEF Asserts, Closable
<1>8. Leaving(c) = 0 /\ Closing(c) = 0
  BY <1>4, <1>5, <1>6 DEF ConnInv, Owned, Closable
<1>9. PICK work \in Seq(Work), more \in Seq(Work) :
        /\ work = <<v, w>> /\ (\A i \in DOMAIN work : work[i].conn = c) /\ Then(l, work)
        /\ DOMAIN more = {} /\ queue' = Queued(base, more)
  <2>1. queue' = Queued(base, <<>>) /\ <<>> \in Seq(Work) /\ DOMAIN <<>> = {}
    BY <1>1, <1>4, NothingQueued
  <2>2. <<v, w>> \in Seq(Work) /\ \A i \in DOMAIN <<v, w>> : <<v, w>>[i].conn = c
    BY <1>2
  <2> QED BY <1>1, <2>1, <2>2
<1>10. /\ todo' \in [Loops -> Seq(Work)] /\ queue' \in [Loops -> Seq(Work)]
       /\ \A k \in Loops : k # l => todo'[k] = todo[k]
       /\ \A d \in Conns : d # c => SameCounts(d)
       /\ \A op : /\ Num(todo'[l], op, c) \in Nat
                  /\ Num(todo'[l], op, c)
                       = Num(todo[l], op, c) + Num(work, op, c) - One(todo[l][1], op, c)
  <2>1. Moved(l, c, work, base, more)
    BY <1>3, <1>4, <1>9, TokenCounts
  <2> QED BY <2>1 DEF Moved
<1>11. \A k \in Loops : \A op : Num(todo[k], op, c) \in Nat /\ Num(queue[k], op, c) \in Nat
  BY Typed
<1>12. ASSUME NEW k \in Loops, NEW op
       PROVE  /\ k # l \/ op \notin {"user", "handleClose", "closeCallback"}
                   => Num(todo'[k], op, c) = Num(todo[k], op, c)
              /\ op = "closeCallback" /\ k = l => Num(todo'[k], op, c) = Num(todo[k], op, c) + 1
  <2>1. CASE k # l
    BY <1>10, <2>1
  <2>2. CASE k = l
    <3>1. Num(work, op, c) = One(v, op, c) + One(w, op, c)
      BY <1>2, <1>9, TwoCounts
    <3>2. /\ One(v, op, c) = (IF op = "user" THEN 1 ELSE 0)
          /\ One(w, op, c) = (IF op = "closeCallback" THEN 1 ELSE 0)
          /\ One(todo[l][1], op, c) = IF op = "handleClose" THEN 1 ELSE 0
      BY <1>2, <1>3 DEF One
    <3>3. Num(todo'[l], op, c) = Num(todo[l], op, c) + Num(work, op, c) - One(todo[l][1], op, c)
          /\ Num(todo[l], op, c) \in Nat
      BY <1>10, <1>11
    <3> QED BY <2>2, <3>1, <3>2, <3>3
  <2> QED BY <2>1, <2>2
<1>13. /\ state_' \in [Conns -> {"kConnecting", "kConnected", "kDisconnecting", "kDisconnected"}]
       /\ events' \in [Conns -> SUBSET {"read", "write"}] /\ added' \in [Conns -> BOOLEAN]
       /\ downs' \in [Conns -> Nat]
       /\ state_'[c] = "kDisconnected" /\ events'[c] = {} /\ downs'[c] = downs[c] + 1
       /\ \A d \in Conns : d # c => /\ state_'[d] = state_[d] /\ events'[d] = events[d]
                                    /\ added'[d] = added[d] /\ downs'[d] = downs[d]
  BY <1>1 DEF Ask, TcpInv, ServerTypeOK, TypeOK
<1>14. ServerTypeOK' /\ IsFiniteSet(connections_)'
  BY <1>1, <1>10, <1>13 DEF TcpInv, ServerTypeOK, TypeOK, threadVars, serverVars
<1>15. \A d \in Conns : d # c => SameState(d)
  BY <1>1, <1>13 DEF SameState
<1>16. \A k \in Loops : LoopInv(k)'
  <2>1. WorksFor(l, c)
    BY <1>1, <1>3, <1>13 DEF WorksFor, threadVars, TcpInv, LoopInv
  <2>2. Rank("closeCallback") <= Rank("handleClose")
    BY DEF Rank, Spot, Notifications
  <2> QED BY <1>1, <1>2, <1>3, <2>1, <2>2, CallbackLoops
<1>17. ConnInv(c)'
  <2>1. /\ loop_'[c] = l /\ loop_' = loop_ /\ object' = object /\ queue' = queue /\ held' = held
        /\ UNCHANGED <<connections_, serverUp, numThreads_>>
    BY <1>1, <1>3 DEF threadVars, serverVars
  <2>2. AtHome(c)'
    <3> SUFFICES ASSUME NEW k \in Loops, NEW op \in Ops
                 PROVE  /\ Wait(k, op, c)' > 0 => k = Home(op, c)'
                        /\ op \notin Functors => Num(queue[k], op, c) = 0
      BY <1>3, <1>13, <2>1 DEF AtHome
    <3>1. Home(op, c)' = Home(op, c)
      BY <2>1 DEF Home, base
    <3>2. CASE k # l \/ op \notin {"user", "handleClose", "closeCallback"}
      <4>1. Wait(k, op, c)' = Wait(k, op, c)
        BY <1>12, <2>1, <3>2 DEF Wait
      <4> QED BY <1>4, <3>1, <4>1 DEF ConnInv, AtHome
    <3>3. CASE k = l /\ op \in {"user", "handleClose", "closeCallback"}
      BY <1>3, <1>4, <3>1, <3>3 DEF ConnInv, AtHome, Home
    <3> QED BY <3>2, <3>3
  <2>3. Closing(c)' = 1 /\ Leaving(c)' = 0
    <3>1. /\ Wait(l, "closeCallback", c)' = Wait(l, "closeCallback", c) + 1
          /\ Wait(base, "removeConnectionInLoop", c)' = Wait(base, "removeConnectionInLoop", c)
          /\ Wait(l, "connectDestroyed", c)' = Wait(l, "connectDestroyed", c)
          /\ Wait(l, "channelRemove", c)' = Wait(l, "channelRemove", c)
      <4>1. /\ Num(todo'[l], "closeCallback", c) = Num(todo[l], "closeCallback", c) + 1
            /\ Num(todo'[base], "removeConnectionInLoop", c) = Num(todo[base], "removeConnectionInLoop", c)
            /\ Num(todo'[l], "connectDestroyed", c) = Num(todo[l], "connectDestroyed", c)
            /\ Num(todo'[l], "channelRemove", c) = Num(todo[l], "channelRemove", c)
        BY <1>4, <1>12
      <4> QED BY <1>11, <2>1, <4>1 DEF Wait, base
    <3>2. Wait(l, "closeCallback", c) \in Nat /\ Wait(base, "removeConnectionInLoop", c) \in Nat
      <4>1. /\ Num(todo[l], "closeCallback", c) \in Nat /\ Num(queue[l], "closeCallback", c) \in Nat
            /\ Num(todo[base], "removeConnectionInLoop", c) \in Nat
            /\ Num(queue[base], "removeConnectionInLoop", c) \in Nat
        BY <1>4, <1>11
      <4> QED BY <4>1 DEF Wait
    <3> QED BY <1>3, <1>8, <2>1, <3>1, <3>2 DEF Closing, Leaving, base
  <2>4. Traffic(c)'
    <3>1. Traffic(c)
      BY <1>4 DEF ConnInv
    <3> QED BY <1>1, <1>5, <1>13, <3>1 DEF Traffic, Closable
  <2>5. Owned(c)' /\ Released(c)'
    BY <1>4, <1>6, <1>13, <2>1, <2>3 DEF ConnInv, Owned, Released
  <2>6. Stage(c)'
    <3>1. Wait(l, "connectEstablished", c)' = Wait(l, "connectEstablished", c)
      BY <1>12, <2>1 DEF Wait
    <3> QED BY <1>3, <1>4, <1>5, <1>13, <2>1, <3>1 DEF ConnInv, Stage, Closable, base
  <2>7. Holding(c)'
    BY <1>3, <1>4, <1>13, <2>1 DEF ConnInv, Holding
  <2> QED BY <2>2, <2>4, <2>5, <2>6, <2>7 DEF ConnInv
<1>18. UNCHANGED <<threadVars, aborted, connections_, serverUp, numThreads_>>
  BY <1>1, <1>7 DEF serverVars
<1> QED BY <1>10, <1>14, <1>15, <1>16, <1>17, <1>18, TokenStep

\* The server does not own a connection that is leaving its loop; the connection
\* leaves it once, and no notification is left.
LEMMA LeavingOnce ==
  ASSUME TcpInv, NEW c \in Conns, object[c] = "live", Leaving(c) # 0
  PROVE  /\ c \notin connections_ /\ Closing(c) = 0 /\ Leaving(c) = 1
         /\ state_[c] # "kConnecting" /\ (Closable(c) => state_[c] = "kConnected")
BY DEF TcpInv, ConnInv, Owned, Released


\* connectDestroyed: the connection goes down if it was still up, and its channel is
\* about to be removed.
LEMMA ConnectDestroyedStep ==
  ASSUME TcpInv, NEW l \in Loops, NEW c \in Conns, UNCHANGED serverVars, connectDestroyed(l, c)
  PROVE  TcpInv'
<1> DEFINE v == Do("user", c)
           w == Do("channelRemove", c)
           up == state_[c] = "kConnected"
<1>1. /\ At(l, "connectDestroyed", c)
      /\ IF up
         THEN /\ state_' = [state_ EXCEPT ![c] = "kDisconnected"]
              /\ Ask(c, {})
              /\ downs' = [downs EXCEPT ![c] = @ + 1]
              /\ Then(l, <<v, w>>)
         ELSE /\ Then(l, <<w>>)
              /\ UNCHANGED <<state_, events, added, downs>>
      /\ UNCHANGED <<object, loop_, timers, threadVars, calls, reading_, outputBuffer_, finSent,
                     queue, ups, aborted>>
  BY DEF connectDestroyed, Runs, DisableAll
<1>2. v \in Work /\ v.conn = c /\ v.op = "user" /\ w \in Work /\ w.conn = c /\ w.op = "channelRemove"
  BY DoWork DEF Ops, Owning
<1> HIDE DEF v, w
<1>3. /\ todo[l] # <<>> /\ todo[l][1].op = "connectDestroyed" /\ todo[l][1].conn = c
      /\ l = loop_[c] /\ object[c] = "live" /\ Num(todo[l], "connectDestroyed", c) > 0
  BY <1>1, AtTop DEF Home
<1>4. ConnInv(c) /\ base \in Loops
  BY Typed DEF TcpInv
<1>5. \A k \in Loops : \A op : Num(todo[k], op, c) \in Nat /\ Num(queue[k], op, c) \in Nat
  BY Typed
<1>6. /\ c \notin connections_ /\ Closing(c) = 0 /\ Leaving(c) = 1
      /\ state_[c] # "kConnecting" /\ (Closable(c) => up)
      /\ Num(todo[l], "connectDestroyed", c) = 1 /\ Num(queue[l], "connectDestroyed", c) = 0
      /\ Wait(l, "channelRemove", c) = 0
  <2>1. /\ Num(todo[l], "connectDestroyed", c) \in Nat /\ Num(queue[l], "connectDestroyed", c) \in Nat
        /\ Num(todo[l], "channelRemove", c) \in Nat /\ Num(queue[l], "channelRemove", c) \in Nat
    BY <1>5
  <2>2. Leaving(c) = Num(todo[l], "connectDestroyed", c) + Num(queue[l], "connectDestroyed", c)
                     + (Num(todo[l], "channelRemove", c) + Num(queue[l], "channelRemove", c))
    BY <1>3 DEF Leaving, Wait
  <2>3. Leaving(c) # 0
    BY <1>3, <2>1, <2>2
  <2>4. /\ c \notin connections_ /\ Closing(c) = 0 /\ Leaving(c) = 1
        /\ state_[c] # "kConnecting" /\ (Closable(c) => up)
    BY <1>3, <2>3, LeavingOnce
  <2> QED BY <1>3, <2>1, <2>2, <2>4 DEF Wait
<1>7. \A op \in Notifications : Wait(l, op, c) = 0
  BY <1>3, <1>4, <1>6 DEF ConnInv, Released
<1>8. PICK work \in Seq(Work), more \in Seq(Work) :
        /\ work = IF up THEN <<v, w>> ELSE <<w>>
        /\ (\A i \in DOMAIN work : work[i].conn = c) /\ Then(l, work)
        /\ DOMAIN more = {} /\ queue' = Queued(base, more)
  <2>1. queue' = Queued(base, <<>>) /\ <<>> \in Seq(Work) /\ DOMAIN <<>> = {}
    BY <1>1, <1>4, NothingQueued
  <2>2. <<v, w>> \in Seq(Work) /\ \A i \in DOMAIN <<v, w>> : <<v, w>>[i].conn = c
    BY <1>2
  <2>3. <<w>> \in Seq(Work) /\ \A i \in DOMAIN <<w>> : <<w>>[i].conn = c
    BY <1>2
  <2>4. CASE up
    BY <1>1, <2>1, <2>2, <2>4
  <2>5. CASE ~up
    BY <1>1, <2>1, <2>3, <2>5
  <2> QED BY <2>4, <2>5
<1>9. /\ todo' \in [Loops -> Seq(Work)] /\ queue' \in [Loops -> Seq(Work)]
      /\ \A k \in Loops : k # l => todo'[k] = todo[k]
      /\ \A d \in Conns : d # c => SameCounts(d)
      /\ \A op : /\ Num(todo'[l], op, c) \in Nat
                 /\ Num(todo'[l], op, c)
                      = Num(todo[l], op, c) + Num(work, op, c) - One(todo[l][1], op, c)
  <2>1. Moved(l, c, work, base, more)
    BY <1>3, <1>4, <1>8, TokenCounts
  <2> QED BY <2>1 DEF Moved
<1>10. ASSUME NEW k \in Loops, NEW op
       PROVE  /\ k # l \/ op \notin {"user", "connectDestroyed", "channelRemove"}
                   => Num(todo'[k], op, c) = Num(todo[k], op, c)
              /\ op = "connectDestroyed" /\ k = l => Num(todo'[k], op, c) = Num(todo[k], op, c) - 1
              /\ op = "channelRemove" /\ k = l => Num(todo'[k], op, c) = Num(todo[k], op, c) + 1
  <2>1. CASE k # l
    BY <1>9, <2>1
  <2>2. CASE k = l
    <3>1. /\ One(v, op, c) = (IF op = "user" THEN 1 ELSE 0)
          /\ One(w, op, c) = (IF op = "channelRemove" THEN 1 ELSE 0)
          /\ One(todo[l][1], op, c) = IF op = "connectDestroyed" THEN 1 ELSE 0
      BY <1>2, <1>3 DEF One
    <3>2. Num(work, op, c) = (IF up THEN One(v, op, c) + One(w, op, c) ELSE One(w, op, c))
      <4>1. Num(<<v, w>>, op, c) = One(v, op, c) + One(w, op, c) /\ Num(<<w>>, op, c) = One(w, op, c)
        BY <1>2, TwoCounts, NumOne
      <4> QED BY <1>8, <4>1
    <3>3. Num(todo'[l], op, c) = Num(todo[l], op, c) + Num(work, op, c) - One(todo[l][1], op, c)
          /\ Num(todo[l], op, c) \in Nat
      BY <1>5, <1>9
    <3> QED BY <2>2, <3>1, <3>2, <3>3
  <2> QED BY <2>1, <2>2
<1>11. /\ state_' \in [Conns -> {"kConnecting", "kConnected", "kDisconnecting", "kDisconnected"}]
       /\ events' \in [Conns -> SUBSET {"read", "write"}] /\ added' \in [Conns -> BOOLEAN]
       /\ downs' \in [Conns -> Nat]
       /\ up => state_'[c] = "kDisconnected" /\ events'[c] = {} /\ downs'[c] = downs[c] + 1
       /\ ~up => state_'[c] = state_[c] /\ events'[c] = events[c] /\ downs'[c] = downs[c]
       /\ \A d \in Conns : d # c => /\ state_'[d] = state_[d] /\ events'[d] = events[d]
                                    /\ added'[d] = added[d] /\ downs'[d] = downs[d]
  <2>1. /\ state_ \in [Conns -> {"kConnecting", "kConnected", "kDisconnecting", "kDisconnected"}]
        /\ events \in [Conns -> SUBSET {"read", "write"}] /\ added \in [Conns -> BOOLEAN]
        /\ downs \in [Conns -> Nat]
    BY DEF TcpInv, ServerTypeOK, TypeOK
  <2>2. CASE up
    <3>1. /\ state_' = [state_ EXCEPT ![c] = "kDisconnected"]
          /\ events' = [events EXCEPT ![c] = {}] /\ added' = [added EXCEPT ![c] = TRUE]
          /\ downs' = [downs EXCEPT ![c] = downs[c] + 1]
      BY <1>1, <2>2 DEF Ask
    <3> QED BY <2>1, <2>2, <3>1
  <2>3. CASE ~up
    BY <1>1, <2>1, <2>3
  <2> QED BY <2>2, <2>3
<1>12. state_'[c] = "kDisconnected"
  BY <1>6, <1>11, Typed DEF Closable
<1>13. ServerTypeOK' /\ IsFiniteSet(connections_)'
  BY <1>1, <1>9, <1>11 DEF TcpInv, ServerTypeOK, TypeOK, threadVars, serverVars
<1>14. \A d \in Conns : d # c => SameState(d)
  BY <1>1, <1>11 DEF SameState
<1>15. \A k \in Loops : LoopInv(k)'
  <2>1. WorksFor(l, c)
    BY <1>1, <1>3, <1>11 DEF WorksFor, threadVars, TcpInv, LoopInv
  <2>2. Rank("channelRemove") <= Rank("connectDestroyed")
    BY DEF Rank, Spot, Notifications
  <2>3. CASE up
    BY <1>1, <1>2, <1>3, <2>1, <2>2, <2>3, CallbackLoops
  <2>4. CASE ~up
    <3>1. w.op \notin Spot \union {"handleWrite", "handleRead", "connectDestroyed"}
      BY <1>2 DEF Spot
    <3> QED BY <1>1, <1>2, <1>3, <2>1, <2>2, <2>4, <3>1, PutLoops
  <2> QED BY <2>3, <2>4
<1>16. ConnInv(c)'
  <2>1. /\ loop_'[c] = l /\ loop_' = loop_ /\ object' = object /\ queue' = queue /\ held' = held
        /\ UNCHANGED <<connections_, serverUp, numThreads_>>
    BY <1>1, <1>3 DEF threadVars, serverVars
  <2>2. AtHome(c)'
    <3> SUFFICES ASSUME NEW k \in Loops, NEW op \in Ops
                 PROVE  /\ Wait(k, op, c)' > 0 => k = Home(op, c)'
                        /\ op \notin Functors => Num(queue[k], op, c) = 0
      BY <1>3, <1>12, <2>1 DEF AtHome
    <3>1. Home(op, c)' = Home(op, c)
      BY <2>1 DEF Home, base
    <3>2. CASE k # l \/ op \notin {"user", "connectDestroyed", "channelRemove"}
      <4>1. Wait(k, op, c)' = Wait(k, op, c)
        BY <1>10, <2>1, <3>2 DEF Wait
      <4> QED BY <1>4, <3>1, <4>1 DEF ConnInv, AtHome
    <3>3. CASE k = l /\ op \in {"user", "connectDestroyed", "channelRemove"}
      BY <1>3, <1>4, <3>1, <3>3 DEF ConnInv, AtHome, Home
    <3> QED BY <3>2, <3>3
  <2>3. Closing(c)' = 0 /\ Leaving(c)' = 1
    <3>1. /\ Wait(l, "closeCallback", c)' = Wait(l, "closeCallback", c)
          /\ Wait(base, "removeConnectionInLoop", c)' = Wait(base, "removeConnectionInLoop", c)
          /\ Wait(l, "connectDestroyed", c)' = 0
          /\ Wait(l, "channelRemove", c)' = Wait(l, "channelRemove", c) + 1
      <4>1. /\ Num(todo'[l], "closeCallback", c) = Num(todo[l], "closeCallback", c)
            /\ Num(todo'[base], "removeConnectionInLoop", c) = Num(todo[base], "removeConnectionInLoop", c)
            /\ Num(todo'[l], "connectDestroyed", c) = 0
            /\ Num(todo'[l], "channelRemove", c) = Num(todo[l], "channelRemove", c) + 1
        <5>1. Num(todo'[l], "connectDestroyed", c) = Num(todo[l], "connectDestroyed", c) - 1
          BY <1>10
        <5>2. Num(todo'[base], "removeConnectionInLoop", c) = Num(todo[base], "removeConnectionInLoop", c)
          BY <1>4, <1>10
        <5>3. /\ Num(todo'[l], "closeCallback", c) = Num(todo[l], "closeCallback", c)
              /\ Num(todo'[l], "channelRemove", c) = Num(todo[l], "channelRemove", c) + 1
          BY <1>10
        <5> QED BY <1>6, <5>1, <5>2, <5>3
      <4>2. Num(todo[l], "channelRemove", c) \in Nat /\ Num(queue[l], "channelRemove", c) \in Nat
        BY <1>5
      <4> QED BY <1>6, <2>1, <4>1, <4>2 DEF Wait, base
    <3> QED BY <1>3, <1>6, <2>1, <3>1 DEF Closing, Leaving, base
  <2>4. Traffic(c)'
    <3>1. Traffic(c)
      BY <1>4 DEF ConnInv
    <3> QED BY <1>1, <1>6, <1>11, <1>12, <3>1 DEF Traffic, Closable
  <2>5. \A op \in Notifications : Wait(l, op, c)' = 0
    <3> SUFFICES ASSUME NEW op \in Notifications PROVE Wait(l, op, c)' = Wait(l, op, c)
      BY <1>7
    <3> QED BY <1>10, <2>1 DEF Notifications, Wait
  <2>6. Owned(c)' /\ Released(c)'
    BY <1>6, <1>12, <2>1, <2>3, <2>5 DEF Owned, Released, Closable
  <2>7. Stage(c)'
    <3>1. Wait(l, "connectEstablished", c)' = Wait(l, "connectEstablished", c)
      BY <1>10, <2>1 DEF Wait
    <3> QED BY <1>3, <1>4, <1>6, <1>12, <2>1, <3>1 DEF ConnInv, Stage, base
  <2>8. Holding(c)'
    BY <1>3, <1>4, <1>12, <2>1 DEF ConnInv, Holding
  <2> QED BY <2>2, <2>4, <2>6, <2>7, <2>8 DEF ConnInv
<1>17. UNCHANGED <<threadVars, aborted, connections_, serverUp, numThreads_>>
  BY <1>1 DEF serverVars
<1> QED BY <1>9, <1>13, <1>14, <1>15, <1>16, <1>17, TokenStep


\* channel_->remove(): the channel asks for nothing, and nothing but sends that
\* threads queued and the end of the event wait for the connection.
LEMMA ChannelRemoveStep ==
  ASSUME TcpInv, NEW l \in Loops, NEW c \in Conns, UNCHANGED serverVars, channelRemove(l, c)
  PROVE  TcpInv'
<1>1. /\ At(l, "channelRemove", c)
      /\ Asserts(events[c] = {}, "Channel.cc:46")
      /\ added' = [added EXCEPT ![c] = FALSE]
      /\ Then(l, <<>>)
      /\ UNCHANGED <<object, loop_, timers, threadVars, calls, state_, reading_, outputBuffer_,
                     events, finSent, queue, ups, downs>>
  BY DEF channelRemove, Runs
<1>2. /\ todo[l] # <<>> /\ todo[l][1].op = "channelRemove" /\ todo[l][1].conn = c
      /\ l = loop_[c] /\ object[c] = "live" /\ Num(todo[l], "channelRemove", c) > 0
  BY <1>1, AtTop DEF Home
<1>3. ConnInv(c) /\ base \in Loops
  BY Typed DEF TcpInv
<1>4. \A k \in Loops : \A op : Num(todo[k], op, c) \in Nat /\ Num(queue[k], op, c) \in Nat
  BY Typed
<1>5. /\ c \notin connections_ /\ Closing(c) = 0 /\ state_[c] # "kConnecting"
      /\ Num(todo[l], "channelRemove", c) = 1 /\ Num(queue[l], "channelRemove", c) = 0
      /\ Num(todo[l], "connectDestroyed", c) = 0 /\ Num(queue[l], "connectDestroyed", c) = 0
  <2>1. /\ Num(todo[l], "connectDestroyed", c) \in Nat /\ Num(queue[l], "connectDestroyed", c) \in Nat
        /\ Num(todo[l], "channelRemove", c) \in Nat /\ Num(queue[l], "channelRemove", c) \in Nat
    BY <1>4
  <2>2. Leaving(c) = Num(todo[l], "connectDestroyed", c) + Num(queue[l], "connectDestroyed", c)
                     + (Num(todo[l], "channelRemove", c) + Num(queue[l], "channelRemove", c))
    BY <1>2 DEF Leaving, Wait
  <2>3. Leaving(c) # 0
    BY <1>2, <2>1, <2>2
  <2>4. c \notin connections_ /\ Closing(c) = 0 /\ Leaving(c) = 1 /\ state_[c] # "kConnecting"
    BY <1>2, <2>3, LeavingOnce
  <2> QED BY <1>2, <2>1, <2>2, <2>4
<1>6. ~Closable(c) /\ \A op \in Notifications : Wait(l, op, c) = 0
  BY <1>2, <1>3, <1>5 DEF ConnInv, Released
<1>7. events[c] = {} /\ aborted' = aborted
  BY <1>1, <1>3, <1>6 DEF ConnInv, Traffic, Asserts
<1>8. PICK work \in Seq(Work), more \in Seq(Work) :
        /\ work = <<>> /\ DOMAIN work = {} /\ Then(l, work)
        /\ DOMAIN more = {} /\ queue' = Queued(base, more)
  <2>1. queue' = Queued(base, <<>>) /\ <<>> \in Seq(Work) /\ DOMAIN <<>> = {}
    BY <1>1, <1>3, NothingQueued
  <2> QED BY <1>1, <2>1
<1>9. /\ todo' \in [Loops -> Seq(Work)] /\ queue' \in [Loops -> Seq(Work)]
      /\ \A k \in Loops : k # l => todo'[k] = todo[k]
      /\ \A d \in Conns : d # c => SameCounts(d)
      /\ \A op : /\ Num(todo'[l], op, c) \in Nat
                 /\ Num(todo'[l], op, c)
                      = Num(todo[l], op, c) + Num(work, op, c) - One(todo[l][1], op, c)
  <2>1. Moved(l, c, work, base, more)
    BY <1>2, <1>3, <1>8, TokenCounts
  <2> QED BY <2>1 DEF Moved
<1>10. ASSUME NEW k \in Loops, NEW op
       PROVE  /\ k # l \/ op # "channelRemove" => Num(todo'[k], op, c) = Num(todo[k], op, c)
              /\ op = "channelRemove" /\ k = l => Num(todo'[k], op, c) = Num(todo[k], op, c) - 1
  <2>1. CASE k # l
    BY <1>9, <2>1
  <2>2. CASE k = l
    <3>1. Num(work, op, c) = 0
      BY <1>8, NumFacts
    <3>2. One(todo[l][1], op, c) = IF op = "channelRemove" THEN 1 ELSE 0
      BY <1>2 DEF One
    <3>3. Num(todo'[l], op, c) = Num(todo[l], op, c) + Num(work, op, c) - One(todo[l][1], op, c)
          /\ Num(todo[l], op, c) \in Nat
      BY <1>4, <1>9
    <3> QED BY <2>2, <3>1, <3>2, <3>3
  <2> QED BY <2>1, <2>2
<1>11. added' \in [Conns -> BOOLEAN] /\ ~added'[c] /\ \A d \in Conns : d # c => added'[d] = added[d]
  BY <1>1 DEF TcpInv, ServerTypeOK, TypeOK
<1>12. ServerTypeOK' /\ IsFiniteSet(connections_)'
  BY <1>1, <1>9, <1>11 DEF TcpInv, ServerTypeOK, TypeOK, threadVars, serverVars
<1>13. \A d \in Conns : d # c => SameState(d)
  BY <1>1, <1>11 DEF SameState
<1>14. \A k \in Loops : LoopInv(k)'
  <2>1. WorksFor(l, c)
    BY <1>1, <1>2 DEF WorksFor, threadVars, TcpInv, LoopInv
  <2> QED BY <1>1, <2>1, PopLoops
\* Below channelRemove are only frames of a higher rank.
<1>15. ASSUME NEW op \in {"shutdownInLoop", "startReadInLoop", "stopReadInLoop", "user"}
       PROVE  Wait(l, op, c) = 0
  <2>1. Num(queue[l], op, c) = 0
    BY <1>3 DEF ConnInv, AtHome, Functors, Notifications, Ops, Owning, Raw
  <2>2. ASSUME NEW i \in DOMAIN todo[l] PROVE ~(todo[l][i].op = op /\ todo[l][i].conn = c)
    <3>1. todo[l] \in Seq(Work) /\ DOMAIN todo[l] = 1..Len(todo[l]) /\ Len(todo[l]) \in Nat
      BY Typed
    <3>2. CASE i = 1
      BY <1>2, <3>2
    <3>3. CASE i # 1
      <4>1. 1 \in DOMAIN todo[l] /\ 1 < i
        BY <2>2, <3>1, <3>3
      <4>2. Above(todo[l][1], todo[l][i])
        BY <2>2, <4>1 DEF TcpInv, LoopInv, Stack
      <4>3. ~(Rank("channelRemove") < Rank(op)) /\ op # "connectDestroyed"
        BY DEF Rank, Spot, Notifications
      <4> QED BY <1>2, <4>2, <4>3 DEF Above
    <3> QED BY <3>2, <3>3
  <2>3. Num(todo[l], op, c) = 0
    <3>1. todo[l] \in Seq(Work)
      BY Typed
    <3> QED BY <2>2, <3>1, NumFacts
  <2> QED BY <2>1, <2>3 DEF Wait
<1>16. ConnInv(c)'
  <2>1. /\ loop_'[c] = l /\ loop_' = loop_ /\ object' = object /\ queue' = queue /\ held' = held
        /\ state_' = state_ /\ UNCHANGED <<connections_, serverUp, numThreads_>>
    BY <1>1, <1>2 DEF threadVars, serverVars
  <2>2. AtHome(c)'
    <3> SUFFICES ASSUME NEW k \in Loops, NEW op \in Ops
                 PROVE  /\ Wait(k, op, c)' > 0 => k = Home(op, c)'
                        /\ op \notin Functors => Num(queue[k], op, c) = 0
      BY <1>2, <1>5, <2>1 DEF AtHome
    <3>1. Home(op, c)' = Home(op, c)
      BY <2>1 DEF Home, base
    <3>2. CASE k # l \/ op # "channelRemove"
      <4>1. Wait(k, op, c)' = Wait(k, op, c)
        BY <1>10, <2>1, <3>2 DEF Wait
      <4> QED BY <1>3, <3>1, <4>1 DEF ConnInv, AtHome
    <3>3. CASE k = l /\ op = "channelRemove"
      BY <1>2, <1>3, <3>1, <3>3 DEF ConnInv, AtHome, Home
    <3> QED BY <3>2, <3>3
  <2>3. Closing(c)' = 0 /\ Leaving(c)' = 0
    <3>1. Num(todo'[l], "channelRemove", c) = Num(todo[l], "channelRemove", c) - 1
      BY <1>10
    <3>2. Num(todo'[base], "removeConnectionInLoop", c) = Num(todo[base], "removeConnectionInLoop", c)
      BY <1>3, <1>10
    <3>3. /\ Num(todo'[l], "closeCallback", c) = Num(todo[l], "closeCallback", c)
          /\ Num(todo'[l], "connectDestroyed", c) = Num(todo[l], "connectDestroyed", c)
      BY <1>10
    <3>4. /\ Wait(l, "closeCallback", c)' = Wait(l, "closeCallback", c)
          /\ Wait(base, "removeConnectionInLoop", c)' = Wait(base, "removeConnectionInLoop", c)
          /\ Wait(l, "connectDestroyed", c)' = 0 /\ Wait(l, "channelRemove", c)' = 0
      BY <1>5, <2>1, <3>1, <3>2, <3>3 DEF Wait, base
    <3> QED BY <1>2, <1>5, <2>1, <3>4 DEF Closing, Leaving, base
  <2>4. Traffic(c)'
    BY <1>1, <1>3 DEF ConnInv, Traffic, Closable
  <2>5. \A op \in Raw \union {"user"} : Wait(l, op, c)' = Wait(l, op, c)
    <3> SUFFICES ASSUME NEW op \in Raw \union {"user"} PROVE Num(todo'[l], op, c) = Num(todo[l], op, c)
      BY <2>1 DEF Wait
    <3> QED BY <1>10 DEF Raw
  <2>6. \A op \in (Raw \ {"sendInLoop"}) \union {"user"} : Wait(l, op, c)' = 0
    <3>1. \A op \in (Raw \ {"sendInLoop"}) \union {"user"} :
            op \in Notifications \/ op \in {"shutdownInLoop", "startReadInLoop", "stopReadInLoop", "user"}
      BY DEF Raw, Notifications
    <3>2. \A op \in (Raw \ {"sendInLoop"}) \union {"user"} : Wait(l, op, c) = 0
      BY <1>6, <1>15, <3>1
    <3> QED BY <2>5, <3>2
  <2>7. \A op \in Notifications : Wait(l, op, c)' = 0
    BY <2>6 DEF Notifications, Raw
  <2>8. Owned(c)' /\ Released(c)'
    <3>1. ~Closable(c)'
      BY <1>6, <2>1 DEF Closable
    <3> QED BY <1>5, <1>11, <2>1, <2>3, <2>6, <2>7, <3>1 DEF Owned, Released
  <2>9. Stage(c)'
    <3>1. Wait(l, "connectEstablished", c)' = Wait(l, "connectEstablished", c)
      BY <1>10, <2>1 DEF Wait
    <3> QED BY <1>2, <1>3, <2>1, <3>1 DEF ConnInv, Stage, base
  <2>10. Holding(c)'
    BY <1>2, <1>3, <2>1 DEF ConnInv, Holding
  <2> QED BY <2>2, <2>4, <2>8, <2>9, <2>10 DEF ConnInv
<1>17. UNCHANGED <<threadVars, aborted, connections_, serverUp, numThreads_>>
  BY <1>1, <1>7 DEF serverVars
<1> QED BY <1>9, <1>12, <1>13, <1>14, <1>16, <1>17, TokenStep


\* A close on its way finds the server up, and the connection there.
LEMMA ClosingOnce ==
  ASSUME TcpInv, NEW c \in Conns, object[c] = "live", Closing(c) # 0
  PROVE  /\ c \in connections_ /\ serverUp /\ Closing(c) = 1 /\ Leaving(c) = 0
         /\ state_[c] = "kDisconnected"
BY DEF TcpInv, ConnInv, Owned, Released

\* removeConnection: the close goes to the base loop, at once if it is there.
LEMMA RemoveConnectionStep ==
  ASSUME TcpInv, NEW l \in Loops, NEW c \in Conns, removeConnection(l, c)
  PROVE  TcpInv'
<1> DEFINE w == Do("removeConnectionInLoop", c)
<1>1. /\ At(l, "closeCallback", c)
      /\ Asserts(serverUp \/ l # base, "UseAfterFree")
      /\ IF l = base
         THEN Then(l, <<w>>) /\ UNCHANGED queue
         ELSE Then(l, <<>>) /\ queue' = Queued(base, <<w>>)
      /\ UNCHANGED <<object, loop_, timers, threadVars, calls, connVars, serverVars>>
  BY DEF removeConnection, Runs
<1>2. w \in Work /\ w.conn = c /\ w.op = "removeConnectionInLoop"
  BY DoWork DEF Ops, Owning
<1> HIDE DEF w
<1>3. /\ todo[l] # <<>> /\ todo[l][1].op = "closeCallback" /\ todo[l][1].conn = c
      /\ l = loop_[c] /\ object[c] = "live" /\ Num(todo[l], "closeCallback", c) > 0
  <2>1. At(l, "closeCallback", c)
    BY <1>1
  <2>2. /\ todo[l] # <<>> /\ todo[l][1].op = "closeCallback" /\ todo[l][1].conn = c
        /\ l = Home("closeCallback", c) /\ object[c] = "live"
        /\ Num(todo[l], "closeCallback", c) > 0
    BY <2>1, AtTop
  <2> QED BY <2>2 DEF Home
<1>4. ConnInv(c) /\ base \in Loops
  BY Typed DEF TcpInv
<1>5. \A k \in Loops : \A op : Num(todo[k], op, c) \in Nat /\ Num(queue[k], op, c) \in Nat
  BY Typed
<1>6. /\ c \in connections_ /\ serverUp /\ Closing(c) = 1 /\ Leaving(c) = 0
      /\ state_[c] = "kDisconnected"
  <2>1. /\ Num(todo[l], "closeCallback", c) \in Nat /\ Num(queue[l], "closeCallback", c) \in Nat
        /\ Num(todo[base], "removeConnectionInLoop", c) \in Nat
        /\ Num(queue[base], "removeConnectionInLoop", c) \in Nat
    BY <1>4, <1>5
  <2>2. Closing(c) = Num(todo[l], "closeCallback", c) + Num(queue[l], "closeCallback", c)
                     + (Num(todo[base], "removeConnectionInLoop", c)
                        + Num(queue[base], "removeConnectionInLoop", c))
    BY <1>3 DEF Closing, Wait
  <2>3. Closing(c) # 0
    BY <1>3, <2>1, <2>2
  <2> QED BY <1>3, <2>3, ClosingOnce
<1>7. aborted' = aborted
  BY <1>1, <1>6 DEF Asserts
<1>8. PICK work \in Seq(Work), more \in Seq(Work) :
        /\ IF l = base THEN work = <<w>> /\ more = <<>> ELSE work = <<>> /\ more = <<w>>
        /\ (\A i \in DOMAIN work : work[i].conn = c) /\ Then(l, work)
        /\ (\A i \in DOMAIN more : more[i].conn = c) /\ queue' = Queued(base, more)
  <2>1. <<>> \in Seq(Work) /\ \A i \in DOMAIN <<>> : <<>>[i].conn = c
    OBVIOUS
  <2>2. <<w>> \in Seq(Work) /\ \A i \in DOMAIN <<w>> : <<w>>[i].conn = c
    BY <1>2
  <2>3. CASE l = base
    <3>1. queue' = Queued(base, <<>>)
      BY <1>1, <1>4, <2>3, NothingQueued
    <3> QED BY <1>1, <2>1, <2>2, <2>3, <3>1
  <2>4. CASE l # base
    BY <1>1, <2>1, <2>2, <2>4
  <2> QED BY <2>3, <2>4
<1>9. /\ todo' \in [Loops -> Seq(Work)] /\ queue' \in [Loops -> Seq(Work)]
      /\ \A k \in Loops : k # l => todo'[k] = todo[k]
      /\ \A k \in Loops : k # base => queue'[k] = queue[k]
      /\ \A d \in Conns : d # c => SameCounts(d)
      /\ \A op : /\ Num(todo'[l], op, c) = Num(todo[l], op, c) + Num(work, op, c) - One(todo[l][1], op, c)
                 /\ Num(queue'[base], op, c) = Num(queue[base], op, c) + Num(more, op, c)
  <2>1. Moved(l, c, work, base, more)
    BY <1>3, <1>4, <1>8, TokenCounts
  <2> QED BY <2>1 DEF Moved
<1>10. ASSUME NEW op
       PROVE  /\ Num(work, op, c) = IF l = base /\ op = "removeConnectionInLoop" THEN 1 ELSE 0
              /\ Num(more, op, c) = IF l # base /\ op = "removeConnectionInLoop" THEN 1 ELSE 0
              /\ One(todo[l][1], op, c) = IF op = "closeCallback" THEN 1 ELSE 0
  <2>1. Num(<<w>>, op, c) = One(w, op, c)
    BY <1>2, NumOne
  <2>2. Num(<<>>, op, c) = 0
    <3>1. <<>> \in Seq(Work)
      OBVIOUS
    <3> QED BY <3>1, NumFacts
  <2>3. One(w, op, c) = IF op = "removeConnectionInLoop" THEN 1 ELSE 0
    BY <1>2 DEF One
  <2>4. One(todo[l][1], op, c) = IF op = "closeCallback" THEN 1 ELSE 0
    BY <1>3 DEF One
  <2>5. CASE l = base
    <3>1. work = <<w>> /\ more = <<>>
      BY <1>8, <2>5
    <3> QED BY <2>1, <2>2, <2>3, <2>4, <2>5, <3>1
  <2>6. CASE l # base
    <3>1. work = <<>> /\ more = <<w>>
      BY <1>8, <2>6
    <3> QED BY <2>1, <2>2, <2>3, <2>4, <2>6, <3>1
  <2> QED BY <2>5, <2>6
<1>11. ASSUME NEW k \in Loops, NEW op, op \notin {"closeCallback", "removeConnectionInLoop"}
       PROVE  /\ Num(todo'[k], op, c) = Num(todo[k], op, c)
              /\ Num(queue'[k], op, c) = Num(queue[k], op, c)
  <2>1. Num(work, op, c) = 0 /\ Num(more, op, c) = 0 /\ One(todo[l][1], op, c) = 0
    BY <1>10, <1>11
  <2>2. /\ Num(todo'[l], op, c) = Num(todo[l], op, c) + Num(work, op, c) - One(todo[l][1], op, c)
        /\ Num(queue'[base], op, c) = Num(queue[base], op, c) + Num(more, op, c)
        /\ Num(todo[l], op, c) \in Nat /\ Num(queue[base], op, c) \in Nat
    BY <1>4, <1>5, <1>9
  <2>3. Num(todo'[l], op, c) = Num(todo[l], op, c) /\ Num(queue'[base], op, c) = Num(queue[base], op, c)
    BY <2>1, <2>2
  <2> QED BY <1>9, <2>3
<1>12. /\ Wait(l, "closeCallback", c)' = Wait(l, "closeCallback", c) - 1
       /\ Wait(base, "removeConnectionInLoop", c)' = Wait(base, "removeConnectionInLoop", c) + 1
       /\ Num(queue'[l], "closeCallback", c) = Num(queue[l], "closeCallback", c)
  <2>1. /\ Num(todo'[l], "closeCallback", c) = Num(todo[l], "closeCallback", c) - 1
        /\ Num(queue'[base], "closeCallback", c) = Num(queue[base], "closeCallback", c)
    <3>1. Num(todo[l], "closeCallback", c) \in Nat /\ Num(queue[base], "closeCallback", c) \in Nat
      BY <1>4, <1>5
    <3>2. Num(todo'[l], "closeCallback", c)
            = Num(todo[l], "closeCallback", c) + Num(work, "closeCallback", c) - One(todo[l][1], "closeCallback", c)
          /\ Num(queue'[base], "closeCallback", c) = Num(queue[base], "closeCallback", c) + Num(more, "closeCallback", c)
      BY <1>9
    <3>3. Num(work, "closeCallback", c) = 0 /\ Num(more, "closeCallback", c) = 0
          /\ One(todo[l][1], "closeCallback", c) = 1
      BY <1>10
    <3> QED BY <3>1, <3>2, <3>3
  <2>2. Num(queue'[l], "closeCallback", c) = Num(queue[l], "closeCallback", c)
    BY <1>9, <2>1
  <2>3. Wait(l, "closeCallback", c)' = Wait(l, "closeCallback", c) - 1
    <3>1. Num(todo[l], "closeCallback", c) \in Nat /\ Num(queue[l], "closeCallback", c) \in Nat
      BY <1>5
    <3> QED BY <2>1, <2>2, <3>1 DEF Wait
  <2>4. Wait(base, "removeConnectionInLoop", c)' = Wait(base, "removeConnectionInLoop", c) + 1
    <3> DEFINE o == "removeConnectionInLoop"
    <3>1. Num(todo[base], o, c) \in Nat /\ Num(queue[base], o, c) \in Nat /\ Num(todo[l], o, c) \in Nat
      BY <1>4, <1>5
    <3>2. Num(todo'[l], o, c) = Num(todo[l], o, c) + Num(work, o, c) - One(todo[l][1], o, c)
          /\ Num(queue'[base], o, c) = Num(queue[base], o, c) + Num(more, o, c)
          /\ One(todo[l][1], o, c) = 0
      BY <1>9, <1>10
    <3>3. CASE l = base
      <4>1. Num(work, o, c) = 1 /\ Num(more, o, c) = 0
        BY <1>10, <3>3
      <4> QED BY <3>1, <3>2, <3>3, <4>1 DEF Wait, base
    <3>4. CASE l # base
      <4>1. Num(more, o, c) = 1 /\ todo'[base] = todo[base]
        BY <1>4, <1>9, <1>10, <3>4
      <4> QED BY <3>1, <3>2, <4>1 DEF Wait, base
    <3> QED BY <3>3, <3>4
  <2> QED BY <2>2, <2>3, <2>4
<1>13. ServerTypeOK' /\ IsFiniteSet(connections_)'
  BY <1>1, <1>9 DEF TcpInv, ServerTypeOK, TypeOK, connVars, threadVars, serverVars
<1>14. /\ UNCHANGED <<object, state_, outputBuffer_, events, added, finSent, ups, downs, loop_,
                      held, late, connections_, serverUp, numThreads_>>
  BY <1>1 DEF connVars, threadVars, serverVars
<1>15. \A d \in Conns : SameState(d)
  BY <1>14 DEF SameState
<1>16. \A k \in Loops : LoopInv(k)'
  <2>1. \A k \in Loops : Order(queue'[k])
    <3>1. \A k \in Loops : Order(queue[k]) /\ queue[k] \in Seq(Work)
      BY Typed DEF TcpInv, LoopInv
    <3>2. CASE l = base
      BY <1>1, <3>1, <3>2
    <3>3. CASE l # base
      <4>1. queue'[base] = queue[base] \o <<w>>
        <5>1. queue' = Queued(base, <<w>>)
          BY <1>1, <3>3
        <5>2. <<w>> \in Seq(Work)
          BY <1>2
        <5> QED BY <1>4, <5>1, <5>2, QueueCounts
      <4>2. w.op \notin Notifications
        BY <1>2 DEF Notifications
      <4>3. Order(queue'[base])
        BY <1>2, <1>4, <3>1, <4>1, <4>2, OrderAppend
      <4> QED BY <1>9, <3>1, <4>3
    <3> QED BY <3>2, <3>3
  <2>2. WorksFor(l, c)
    BY <1>3, <1>14, <2>1 DEF WorksFor
  <2>3. CASE l = base
    <3>1. Rank(w.op) <= Rank(todo[l][1].op)
      BY <1>2, <1>3 DEF Rank, Spot, Notifications
    <3>2. w.op \notin Spot \union {"handleWrite", "handleRead", "connectDestroyed"}
      BY <1>2 DEF Spot
    <3> QED BY <1>1, <1>2, <2>2, <2>3, <3>1, <3>2, PutLoops
  <2>4. CASE l # base
    BY <1>1, <2>2, <2>4, PopLoops
  <2> QED BY <2>3, <2>4
<1>17. ConnInv(c)'
  <2>1. loop_'[c] = l /\ loop_[c] = l
    BY <1>3, <1>14
  <2>2. AtHome(c)'
    <3> SUFFICES ASSUME NEW k \in Loops, NEW op \in Ops
                 PROVE  /\ Wait(k, op, c)' > 0 => k = Home(op, c)'
                        /\ op \notin Functors => Num(queue'[k], op, c) = 0
      BY <1>3, <1>6, <1>14 DEF AtHome
    <3>1. Home(op, c)' = Home(op, c)
      BY <1>14 DEF Home, base
    <3>2. CASE op \notin {"closeCallback", "removeConnectionInLoop"}
      <4>1. Wait(k, op, c)' = Wait(k, op, c) /\ Num(queue'[k], op, c) = Num(queue[k], op, c)
        BY <1>11, <3>2 DEF Wait
      <4> QED BY <1>4, <3>1, <4>1 DEF ConnInv, AtHome
    <3>3. CASE op = "closeCallback"
      <4>1. CASE k = l
        BY <1>3, <1>4, <1>12, <3>1, <3>3, <4>1 DEF ConnInv, AtHome, Home
      <4>2. CASE k # l
        <5>1. Num(queue'[k], op, c) = Num(queue[k], op, c)
          <6>1. Num(more, op, c) = 0 /\ Num(queue[base], op, c) \in Nat
            BY <1>4, <1>5, <1>10, <3>3
          <6>2. Num(queue'[base], op, c) = Num(queue[base], op, c) + Num(more, op, c)
            BY <1>9
          <6>3. Num(queue'[base], op, c) = Num(queue[base], op, c)
            BY <6>1, <6>2
          <6>4. CASE k = base
            BY <6>3, <6>4
          <6>5. CASE k # base
            BY <1>9, <6>5
          <6> QED BY <6>4, <6>5
        <5>2. Wait(k, op, c)' = Wait(k, op, c)
          BY <1>9, <4>2, <5>1 DEF Wait
        <5> QED BY <1>4, <3>1, <5>1, <5>2 DEF ConnInv, AtHome
      <4> QED BY <4>1, <4>2
    <3>4. CASE op = "removeConnectionInLoop"
      <4>1. op \in Functors
        BY <3>4 DEF Functors
      <4>2. CASE k = base
        BY <3>1, <3>4, <4>1, <4>2 DEF Home
      <4>3. CASE k # base
        <5>1. Num(todo'[k], op, c) = Num(todo[k], op, c)
          <6>1. CASE k # l
            BY <1>9, <6>1
          <6>2. CASE k = l
            <7>1. Num(work, op, c) = 0 /\ One(todo[l][1], op, c) = 0 /\ Num(todo[l], op, c) \in Nat
              BY <1>5, <1>10, <3>4, <4>3, <6>2
            <7>2. Num(todo'[l], op, c) = Num(todo[l], op, c) + Num(work, op, c) - One(todo[l][1], op, c)
              BY <1>9
            <7> QED BY <6>2, <7>1, <7>2
          <6> QED BY <6>1, <6>2
        <5>2. Wait(k, op, c)' = Wait(k, op, c)
          BY <1>9, <4>3, <5>1 DEF Wait
        <5> QED BY <1>4, <3>1, <4>1, <5>2 DEF ConnInv, AtHome
      <4> QED BY <4>2, <4>3
    <3> QED BY <3>2, <3>3, <3>4
  <2>3. Closing(c)' = 1 /\ Leaving(c)' = 0
    <3>1. /\ Wait(l, "connectDestroyed", c)' = Wait(l, "connectDestroyed", c)
          /\ Wait(l, "channelRemove", c)' = Wait(l, "channelRemove", c)
      BY <1>11 DEF Wait
    <3>2. Wait(l, "closeCallback", c) \in Nat /\ Wait(base, "removeConnectionInLoop", c) \in Nat
      <4>1. /\ Num(todo[l], "closeCallback", c) \in Nat /\ Num(queue[l], "closeCallback", c) \in Nat
            /\ Num(todo[base], "removeConnectionInLoop", c) \in Nat
            /\ Num(queue[base], "removeConnectionInLoop", c) \in Nat
        BY <1>4, <1>5
      <4> QED BY <4>1 DEF Wait
    <3> QED BY <1>6, <1>12, <2>1, <3>1, <3>2 DEF Closing, Leaving, base
  <2>4. Traffic(c)'
    BY <1>4, <1>14 DEF ConnInv, Traffic, Closable
  <2>5. Owned(c)' /\ Released(c)'
    BY <1>3, <1>6, <1>14, <2>3 DEF Owned, Released
  <2>6. Stage(c)'
    <3>1. Wait(l, "connectEstablished", c)' = Wait(l, "connectEstablished", c)
      BY <1>11 DEF Wait
    <3> QED BY <1>4, <1>14, <2>1, <3>1 DEF ConnInv, Stage, base
  <2>7. Holding(c)'
    BY <1>4, <1>14 DEF ConnInv, Holding
  <2> QED BY <2>2, <2>4, <2>5, <2>6, <2>7 DEF ConnInv
<1>18. UNCHANGED <<threadVars, aborted, connections_, serverUp, numThreads_>>
  BY <1>1, <1>7 DEF serverVars
<1> QED BY <1>9, <1>13, <1>15, <1>16, <1>17, <1>18, TokenStep

\* removeConnectionInLoop: the server lets go of the connection, which is about to be
\* taken off its loop.
LEMMA RemoveConnectionInLoopStep ==
  ASSUME TcpInv, NEW c \in Conns, removeConnectionInLoop(c)
  PROVE  TcpInv'
<1> DEFINE w == Do("connectDestroyed", c)
<1>1. /\ At(base, "removeConnectionInLoop", c)
      /\ IF serverUp THEN Asserts(c \in connections_, "TcpServer.cc:80")
         ELSE Asserts(FALSE, "UseAfterFree")
      /\ connections_' = connections_ \ {c}
      /\ queue' = Queued(loop_[c], <<w>>)
      /\ Then(base, <<>>)
      /\ UNCHANGED <<object, loop_, timers, threadVars, calls, connVars, numThreads_, next_,
                     serverUp, ended, hasty>>
  BY DEF removeConnectionInLoop, Runs, QueueDestroy, DestroyWork
<1>2. w \in Work /\ w.conn = c /\ w.op = "connectDestroyed"
  BY DoWork DEF Ops, Owning
<1> HIDE DEF w
<1>3. base \in Loops /\ ConnInv(c)
  BY Typed DEF TcpInv
<1>4. /\ todo[base] # <<>> /\ todo[base][1].op = "removeConnectionInLoop" /\ todo[base][1].conn = c
      /\ object[c] = "live" /\ Num(todo[base], "removeConnectionInLoop", c) > 0
  BY <1>1, <1>3, AtTop
<1>5. PICK m \in Loops : m = loop_[c] /\ m = loop_'[c]
  BY <1>1, Typed
<1>6. \A k \in Loops : \A op : Num(todo[k], op, c) \in Nat /\ Num(queue[k], op, c) \in Nat
  BY Typed
<1>7. /\ c \in connections_ /\ serverUp /\ Closing(c) = 1 /\ Leaving(c) = 0
      /\ state_[c] = "kDisconnected"
  <2>1. /\ Num(todo[m], "closeCallback", c) \in Nat /\ Num(queue[m], "closeCallback", c) \in Nat
        /\ Num(todo[base], "removeConnectionInLoop", c) \in Nat
        /\ Num(queue[base], "removeConnectionInLoop", c) \in Nat
    BY <1>3, <1>6
  <2>2. Closing(c) = Num(todo[m], "closeCallback", c) + Num(queue[m], "closeCallback", c)
                     + (Num(todo[base], "removeConnectionInLoop", c)
                        + Num(queue[base], "removeConnectionInLoop", c))
    BY <1>5 DEF Closing, Wait
  <2>3. Closing(c) # 0
    BY <1>4, <2>1, <2>2
  <2> QED BY <1>4, <2>3, ClosingOnce
<1>8. aborted' = aborted
  BY <1>1, <1>7 DEF Asserts
<1>9. PICK work \in Seq(Work), more \in Seq(Work) :
        /\ work = <<>> /\ more = <<w>>
        /\ (\A i \in DOMAIN work : work[i].conn = c) /\ Then(base, work)
        /\ (\A i \in DOMAIN more : more[i].conn = c) /\ queue' = Queued(m, more)
  <2>1. <<>> \in Seq(Work) /\ \A i \in DOMAIN <<>> : <<>>[i].conn = c
    OBVIOUS
  <2>2. <<w>> \in Seq(Work) /\ \A i \in DOMAIN <<w>> : <<w>>[i].conn = c
    BY <1>2
  <2>3. queue' = Queued(m, <<w>>)
    BY <1>1, <1>5
  <2> QED BY <1>1, <2>1, <2>2, <2>3
<1>10. /\ todo' \in [Loops -> Seq(Work)] /\ queue' \in [Loops -> Seq(Work)]
       /\ \A k \in Loops : k # base => todo'[k] = todo[k]
       /\ \A k \in Loops : k # m => queue'[k] = queue[k]
       /\ \A d \in Conns : d # c => SameCounts(d)
       /\ \A op : /\ Num(todo'[base], op, c) = Num(todo[base], op, c) + Num(work, op, c) - One(todo[base][1], op, c)
                  /\ Num(queue'[m], op, c) = Num(queue[m], op, c) + Num(more, op, c)
  <2>1. Moved(base, c, work, m, more)
    BY <1>3, <1>4, <1>9, TokenCounts
  <2> QED BY <2>1 DEF Moved
<1>11. ASSUME NEW op
       PROVE  /\ Num(work, op, c) = 0
              /\ Num(more, op, c) = IF op = "connectDestroyed" THEN 1 ELSE 0
              /\ One(todo[base][1], op, c) = IF op = "removeConnectionInLoop" THEN 1 ELSE 0
  <2>1. Num(<<w>>, op, c) = One(w, op, c)
    BY <1>2, NumOne
  <2>2. Num(<<>>, op, c) = 0
    <3>1. <<>> \in Seq(Work)
      OBVIOUS
    <3> QED BY <3>1, NumFacts
  <2>3. One(w, op, c) = IF op = "connectDestroyed" THEN 1 ELSE 0
    BY <1>2 DEF One
  <2>4. One(todo[base][1], op, c) = IF op = "removeConnectionInLoop" THEN 1 ELSE 0
    BY <1>4 DEF One
  <2> QED BY <1>9, <2>1, <2>2, <2>3, <2>4
\* The counts of the connection, one by one.
<1>12. ASSUME NEW k \in Loops, NEW op
       PROVE  /\ Num(todo'[k], op, c) = IF k = base /\ op = "removeConnectionInLoop"
                                        THEN Num(todo[k], op, c) - 1 ELSE Num(todo[k], op, c)
              /\ Num(queue'[k], op, c) = IF k = m /\ op = "connectDestroyed"
                                         THEN Num(queue[k], op, c) + 1 ELSE Num(queue[k], op, c)
  <2>1. Num(todo[k], op, c) \in Nat /\ Num(queue[k], op, c) \in Nat
    BY <1>6
  <2>2. Num(todo'[k], op, c) = IF k = base /\ op = "removeConnectionInLoop"
                               THEN Num(todo[k], op, c) - 1 ELSE Num(todo[k], op, c)
    <3>1. CASE k = base
      <4>1. Num(todo'[k], op, c) = Num(todo[k], op, c) + Num(work, op, c) - One(todo[k][1], op, c)
        BY <1>10, <3>1
      <4>2. Num(work, op, c) = 0 /\ One(todo[k][1], op, c) = IF op = "removeConnectionInLoop" THEN 1 ELSE 0
        BY <1>11, <3>1
      <4>3. Num(todo'[k], op, c) = IF op = "removeConnectionInLoop"
                                   THEN Num(todo[k], op, c) - 1 ELSE Num(todo[k], op, c)
        BY <2>1, <4>1, <4>2
      <4> QED BY <3>1, <4>3
    <3>2. CASE k # base
      BY <1>10, <3>2
    <3> QED BY <3>1, <3>2
  <2>3. Num(queue'[k], op, c) = IF k = m /\ op = "connectDestroyed"
                                THEN Num(queue[k], op, c) + 1 ELSE Num(queue[k], op, c)
    <3>1. CASE k = m
      <4>1. Num(queue'[k], op, c) = Num(queue[k], op, c) + Num(more, op, c)
        BY <1>10, <3>1
      <4>2. Num(more, op, c) = IF op = "connectDestroyed" THEN 1 ELSE 0
        BY <1>11
      <4> QED BY <2>1, <3>1, <4>1, <4>2
    <3>2. CASE k # m
      BY <1>10, <3>2
    <3> QED BY <3>1, <3>2
  <2> QED BY <2>2, <2>3
<1>13. /\ UNCHANGED <<object, state_, outputBuffer_, events, added, finSent, ups, downs, loop_,
                      held, late, serverUp, numThreads_>>
       /\ connections_' = connections_ \ {c}
  BY <1>1 DEF connVars, threadVars
<1>14. ServerTypeOK' /\ IsFiniteSet(connections_)'
  <2>1. IsFiniteSet(connections_ \ {c})
    BY FS_RemoveElement DEF TcpInv
  <2>2. ServerTypeOK'
    BY <1>1, <1>10 DEF TcpInv, ServerTypeOK, TypeOK, connVars, threadVars
  <2> QED BY <1>13, <2>1, <2>2
<1>15. \A d \in Conns : d # c => SameState(d) /\ (d \in connections_' <=> d \in connections_)
  BY <1>13 DEF SameState
<1>16. \A k \in Loops : LoopInv(k)'
  <2>1. \A k \in Loops : Order(queue'[k])
    <3>1. \A k \in Loops : Order(queue[k]) /\ queue[k] \in Seq(Work)
      BY Typed DEF TcpInv, LoopInv
    <3>2. queue'[m] = queue[m] \o <<w>>
      BY <1>9, QueueCounts
    <3>3. w.op \notin Notifications
      BY <1>2 DEF Notifications
    <3>4. Order(queue'[m])
      BY <1>2, <3>1, <3>2, <3>3, OrderAppend
    <3> QED BY <1>10, <3>1, <3>4
  <2>2. WorksFor(base, c)
    BY <1>4, <1>13, <2>1 DEF WorksFor
  <2> QED BY <1>1, <1>3, <2>2, PopLoops
<1>17. ConnInv(c)'
  <2>1. AtHome(c)'
    <3> SUFFICES ASSUME NEW k \in Loops, NEW op \in Ops
                 PROVE  /\ Wait(k, op, c)' > 0 => k = Home(op, c)'
                        /\ op \notin Functors => Num(queue'[k], op, c) = 0
      BY <1>4, <1>7, <1>13 DEF AtHome
    <3>1. Home(op, c)' = Home(op, c)
      BY <1>13 DEF Home, base
    <3>2. Num(todo[k], op, c) \in Nat /\ Num(queue[k], op, c) \in Nat
      BY <1>6
    <3>3. /\ Wait(k, op, c) > 0 => k = Home(op, c)
          /\ op \notin Functors => Num(queue[k], op, c) = 0
      BY <1>3 DEF ConnInv, AtHome
    <3>4. CASE k = m /\ op = "connectDestroyed"
      BY <1>5, <3>1, <3>4 DEF Home, Functors
    <3>5. CASE ~(k = m /\ op = "connectDestroyed")
      <4>1. Num(queue'[k], op, c) = Num(queue[k], op, c) /\ Num(todo'[k], op, c) <= Num(todo[k], op, c)
            /\ Num(todo'[k], op, c) \in Int
        BY <1>12, <3>2, <3>5
      <4>2. Wait(k, op, c)' > 0 => Wait(k, op, c) > 0
        BY <3>2, <4>1 DEF Wait
      <4> QED BY <3>1, <3>3, <4>1, <4>2
    <3> QED BY <3>4, <3>5
  <2>2. Closing(c)' = 0
    <3>1. Wait(m, "closeCallback", c)' = Wait(m, "closeCallback", c)
      BY <1>12 DEF Wait
    <3>2. Wait(base, "removeConnectionInLoop", c)' = Wait(base, "removeConnectionInLoop", c) - 1
      <4>1. /\ Num(todo'[base], "removeConnectionInLoop", c) = Num(todo[base], "removeConnectionInLoop", c) - 1
            /\ Num(queue'[base], "removeConnectionInLoop", c) = Num(queue[base], "removeConnectionInLoop", c)
            /\ Num(todo[base], "removeConnectionInLoop", c) \in Nat
            /\ Num(queue[base], "removeConnectionInLoop", c) \in Nat
        BY <1>3, <1>6, <1>12
      <4> QED BY <4>1 DEF Wait, base
    <3>3. Wait(m, "closeCallback", c) \in Nat /\ Wait(base, "removeConnectionInLoop", c) \in Nat
      <4>1. /\ Num(todo[m], "closeCallback", c) \in Nat /\ Num(queue[m], "closeCallback", c) \in Nat
            /\ Num(todo[base], "removeConnectionInLoop", c) \in Nat
            /\ Num(queue[base], "removeConnectionInLoop", c) \in Nat
        BY <1>3, <1>6
      <4> QED BY <4>1 DEF Wait
    <3> QED BY <1>5, <1>7, <3>1, <3>2, <3>3 DEF Closing, base
  <2>3. Leaving(c)' = 1 /\ Num(queue'[m], "connectDestroyed", c) # 0
    <3>1. /\ Num(todo'[m], "connectDestroyed", c) = Num(todo[m], "connectDestroyed", c)
          /\ Num(queue'[m], "connectDestroyed", c) = Num(queue[m], "connectDestroyed", c) + 1
          /\ Num(todo'[m], "channelRemove", c) = Num(todo[m], "channelRemove", c)
          /\ Num(queue'[m], "channelRemove", c) = Num(queue[m], "channelRemove", c)
      BY <1>12
    <3>2. /\ Num(todo[m], "connectDestroyed", c) \in Nat /\ Num(queue[m], "connectDestroyed", c) \in Nat
          /\ Num(todo[m], "channelRemove", c) \in Nat /\ Num(queue[m], "channelRemove", c) \in Nat
      BY <1>6
    <3> QED BY <1>5, <1>7, <3>1, <3>2 DEF Leaving, Wait
  <2>4. Traffic(c)'
    BY <1>3, <1>13 DEF ConnInv, Traffic, Closable
  <2>5. Owned(c)'
    BY <1>13 DEF Owned
  <2>6. Released(c)'
    BY <1>5, <1>7, <1>13, <2>2, <2>3 DEF Released, Closable
  <2>7. Stage(c)'
    <3>1. Wait(m, "connectEstablished", c)' = Wait(m, "connectEstablished", c)
      BY <1>12 DEF Wait
    <3> QED BY <1>3, <1>5, <1>13, <3>1 DEF ConnInv, Stage, base
  <2>8. Holding(c)'
    BY <1>3, <1>13 DEF ConnInv, Holding
  <2> QED BY <2>1, <2>4, <2>5, <2>6, <2>7, <2>8 DEF ConnInv
<1>18. UNCHANGED <<threadVars, aborted, serverUp, numThreads_>>
  BY <1>1, <1>8
<1> QED BY <1>10, <1>14, <1>15, <1>16, <1>17, <1>18, TokenStep

\* getNextLoop names a loop of the server: its own one if it has no pool.
LEMMA NextLoop ==
  ASSUME TcpInv
  PROVE  /\ getNextLoop \in Loops
         /\ numThreads_ = 0 => getNextLoop = base
         /\ NextIndex \in 0..(numThreads_ - 1) \union {0}
<1>1. /\ numThreads_ \in 0..MaxThreads /\ next_ \in 0..(numThreads_ - 1) \union {0}
      /\ MaxThreads \in Nat /\ Loops = 0..MaxThreads
  BY ServerAssumption DEF TcpInv, ServerTypeOK
<1>2. numThreads_ # 0 => next_ + 1 \in 1..numThreads_
  BY <1>1
<1> QED BY <1>1, <1>2 DEF getNextLoop, NextIndex, base

\* Nothing waits for a connection that was not made, and nobody has it.
LEMMA NotMade ==
  ASSUME TcpInv, NEW c \in Conns, object[c] = "no"
  PROVE  /\ \A k \in Loops, op \in Ops : Num(todo[k], op, c) = 0 /\ Num(queue[k], op, c) = 0
         /\ c \notin connections_ /\ (\A t \in Threads : c \notin held[t])
         /\ state_[c] = "kConnecting"
<1>1. ConnInv(c)
  BY DEF TcpInv
<1>2. ASSUME NEW k \in Loops, NEW op \in Ops
      PROVE  Num(todo[k], op, c) = 0 /\ Num(queue[k], op, c) = 0
  <2>1. Num(todo[k], op, c) \in Nat /\ Num(queue[k], op, c) \in Nat
    BY Typed
  <2>2. ~(Wait(k, op, c) > 0)
    BY <1>1 DEF ConnInv, AtHome, Stage
  <2> QED BY <2>1, <2>2 DEF Wait
<1> QED BY <1>1, <1>2 DEF ConnInv, Owned, Holding, Stage

\* newConnection: the server owns the connection, and connectEstablished is on its way
\* to the connection's loop.
LEMMA NewConnectionStep ==
  ASSUME TcpInv, NEW c \in Conns, newConnection(c)
  PROVE  TcpInv'
<1> DEFINE w == Do("connectEstablished", c)
<1>1. PICK m \in Loops :
        /\ m = getNextLoop /\ (numThreads_ = 0 => m = base)
        /\ loop_' = [loop_ EXCEPT ![c] = m]
        /\ RunInLoop(base, m, <<w>>)
  BY NextLoop DEF newConnection, MakeConnection
<1>2. /\ serverUp /\ todo[base] = <<>> /\ object[c] = "no"
      /\ object' = [object EXCEPT ![c] = "live"]
      /\ connections_' = connections_ \union {c}
      /\ next_' = NextIndex
      /\ UNCHANGED <<connVars, timers, threadVars, calls, aborted, numThreads_, serverUp,
                     ended, hasty>>
  BY DEF newConnection, MakeConnection
<1>3. w \in Work /\ w.conn = c /\ w.op = "connectEstablished"
  BY DoWork DEF Ops, Owning
<1> HIDE DEF w
<1>4. base \in Loops /\ ConnInv(c)
  BY Typed DEF TcpInv
<1>5. /\ \A k \in Loops, op \in Ops : Num(todo[k], op, c) = 0 /\ Num(queue[k], op, c) = 0
      /\ c \notin connections_ /\ (\A t \in Threads : c \notin held[t])
      /\ state_[c] = "kConnecting"
  BY <1>2, NotMade
<1>6. <<w>> \in Seq(Work) /\ <<>> \in Seq(Work)
  BY <1>3
<1>7. PICK work \in Seq(Work), more \in Seq(Work) :
        /\ IF m = base THEN work = <<w>> /\ more = <<>> ELSE work = <<>> /\ more = <<w>>
        /\ Now(base, work) /\ queue' = Queued(m, more)
  <2>1. CASE m = base
    <3>1. queue' = Queued(m, <<>>)
      BY <1>1, <2>1, NothingQueued DEF RunInLoop
    <3> QED BY <1>1, <1>6, <2>1, <3>1 DEF RunInLoop
  <2>2. CASE m # base
    <3>1. todo' = todo /\ queue' = Queued(m, <<w>>)
      BY <1>1, <2>2 DEF RunInLoop
    <3>2. <<>> \o todo[base] = todo[base]
      BY <1>2
    <3>3. Now(base, <<>>)
      BY <1>4, <3>1, <3>2, Typed DEF Now
    <3> QED BY <1>6, <2>2, <3>1, <3>3
  <2> QED BY <2>1, <2>2
<1>8. /\ todo' \in [Loops -> Seq(Work)] /\ todo'[base] = work \o todo[base]
      /\ \A k \in Loops : k # base => todo'[k] = todo[k]
      /\ \A op, d : Num(todo'[base], op, d) = Num(todo[base], op, d) + Num(work, op, d)
  BY <1>4, <1>7, NowCounts
<1>9. /\ queue' \in [Loops -> Seq(Work)] /\ queue'[m] = queue[m] \o more
      /\ \A k \in Loops : k # m => queue'[k] = queue[k]
      /\ \A op, d : Num(queue'[m], op, d) = Num(queue[m], op, d) + Num(more, op, d)
  BY <1>7, QueueCounts
<1>10. ASSUME NEW op, NEW d
       PROVE  /\ Num(work, op, d) = IF m = base /\ op = "connectEstablished" /\ d = c THEN 1 ELSE 0
              /\ Num(more, op, d) = IF m # base /\ op = "connectEstablished" /\ d = c THEN 1 ELSE 0
  <2>1. Num(<<w>>, op, d) = One(w, op, d)
    BY <1>3, NumOne
  <2>2. Num(<<>>, op, d) = 0
    BY <1>6, NumFacts
  <2>3. One(w, op, d) = IF op = "connectEstablished" /\ d = c THEN 1 ELSE 0
    BY <1>3 DEF One
  <2>4. CASE m = base
    <3>1. work = <<w>> /\ more = <<>>
      BY <1>7, <2>4
    <3> QED BY <2>1, <2>2, <2>3, <2>4, <3>1
  <2>5. CASE m # base
    <3>1. work = <<>> /\ more = <<w>>
      BY <1>7, <2>5
    <3> QED BY <2>1, <2>2, <2>3, <2>5, <3>1
  <2> QED BY <2>4, <2>5
<1>11. ASSUME NEW d \in Conns, d # c PROVE SameCounts(d)
  <2> SUFFICES ASSUME NEW k \in Loops, NEW op \in Ops
               PROVE  /\ Num(todo'[k], op, d) = Num(todo[k], op, d)
                      /\ Num(queue'[k], op, d) = Num(queue[k], op, d)
    BY DEF SameCounts
  <2>1. Num(work, op, d) = 0 /\ Num(more, op, d) = 0
    BY <1>10, <1>11
  <2>2. Num(todo[base], op, d) \in Nat /\ Num(queue[m], op, d) \in Nat
    BY <1>4, Typed
  <2>3. /\ Num(todo'[base], op, d) = Num(todo[base], op, d) + Num(work, op, d)
        /\ Num(queue'[m], op, d) = Num(queue[m], op, d) + Num(more, op, d)
    BY <1>8, <1>9
  <2>4. Num(todo'[base], op, d) = Num(todo[base], op, d) /\ Num(queue'[m], op, d) = Num(queue[m], op, d)
    BY <2>1, <2>2, <2>3
  <2> QED BY <1>8, <1>9, <2>4
<1>12. ASSUME NEW k \in Loops, NEW op \in Ops
       PROVE  /\ Wait(k, op, c)' = IF k = m /\ op = "connectEstablished" THEN 1 ELSE 0
              /\ op # "connectEstablished" => Num(todo'[k], op, c) = 0 /\ Num(queue'[k], op, c) = 0
  <2>1. Num(todo[k], op, c) = 0 /\ Num(queue[k], op, c) = 0
    BY <1>5
  <2>2. Num(todo'[k], op, c) = IF k = base /\ m = base /\ op = "connectEstablished" THEN 1 ELSE 0
    <3>1. CASE k = base
      <4>1. Num(todo'[k], op, c) = Num(todo[k], op, c) + Num(work, op, c)
        BY <1>8, <3>1
      <4>2. Num(work, op, c) = IF m = base /\ op = "connectEstablished" THEN 1 ELSE 0
        BY <1>10
      <4> QED BY <2>1, <3>1, <4>1, <4>2
    <3>2. CASE k # base
      BY <1>8, <2>1, <3>2
    <3> QED BY <3>1, <3>2
  <2>3. Num(queue'[k], op, c) = IF k = m /\ m # base /\ op = "connectEstablished" THEN 1 ELSE 0
    <3>1. CASE k = m
      <4>1. Num(queue'[k], op, c) = Num(queue[k], op, c) + Num(more, op, c)
        BY <1>9, <3>1
      <4>2. Num(more, op, c) = IF m # base /\ op = "connectEstablished" THEN 1 ELSE 0
        BY <1>10
      <4> QED BY <2>1, <3>1, <4>1, <4>2
    <3>2. CASE k # m
      BY <1>9, <2>1, <3>2
    <3> QED BY <3>1, <3>2
  <2> QED BY <2>2, <2>3 DEF Wait
<1>13. UNCHANGED <<state_, outputBuffer_, events, added, finSent, ups, downs, held, late, serverUp,
                   numThreads_, ended, hasty>>
  BY <1>2 DEF connVars, threadVars
<1>14. object'[c] = "live" /\ loop_'[c] = m
  BY <1>1, <1>2 DEF TcpInv, ServerTypeOK, TypeOK
<1>15. ServerTypeOK' /\ IsFiniteSet(connections_)'
  <2>1. IsFiniteSet(connections_')
    BY <1>2, FS_AddElement DEF TcpInv
  <2>2. TypeOK'
    BY <1>1, <1>2, <1>8, <1>9 DEF TcpInv, ServerTypeOK, TypeOK, connVars, threadVars
  <2>3. connections_' \subseteq Conns /\ next_' \in 0..(numThreads_ - 1) \union {0}
    BY <1>2, NextLoop DEF TcpInv, ServerTypeOK
  <2> QED BY <1>13, <2>1, <2>2, <2>3 DEF TcpInv, ServerTypeOK
<1>16. \A d \in Conns : d # c => SameState(d) /\ (d \in connections_' <=> d \in connections_)
  BY <1>1, <1>2, <1>13 DEF SameState, TcpInv, ServerTypeOK, TypeOK
<1>17. ASSUME NEW k \in Loops PROVE LoopInv(k)'
  <2>1. Order(queue'[k])
    <3>1. \A i \in Loops : Order(queue[i]) /\ queue[i] \in Seq(Work)
      BY Typed DEF TcpInv, LoopInv
    <3>2. CASE k = m /\ m # base
      <4>1. queue'[k] = queue[k] \o <<w>>
        BY <1>7, <1>9, <3>2
      <4>2. w.op \notin Notifications
        BY <1>3 DEF Notifications
      <4> QED BY <1>3, <3>1, <4>1, <4>2, OrderAppend
    <3>3. CASE k = m /\ m = base
      <4>1. queue'[k] = queue[k]
        BY <1>1, <3>3 DEF RunInLoop
      <4> QED BY <3>1, <4>1
    <3>4. CASE k # m
      BY <1>9, <3>1, <3>4
    <3> QED BY <3>2, <3>3, <3>4
  <2>2. CASE k = base /\ m = base
    <3>1. todo'[k] = <<w>>
      <4>1. todo'[k] = work \o todo[base] /\ work = <<w>>
        BY <1>7, <1>8, <2>2
      <4>2. <<w>> \o <<>> = <<w>>
        BY <1>3, Pairs
      <4> QED BY <1>2, <4>1, <4>2
    <3>2. DOMAIN <<w>> = {1} /\ <<w>>[1] = w
      OBVIOUS
    <3>3. DOMAIN todo'[k] = {1} /\ todo'[k][1] = w
      BY <3>1, <3>2
    <3>4. Stack(todo'[k])
      BY <1>3, <3>3 DEF Stack
    <3>5. DeletedUp(todo[k])' /\ Top(todo[k])'
      BY <1>3, <3>3 DEF DeletedUp, Top, Spot
    <3> QED BY <2>1, <3>4, <3>5 DEF LoopInv
  <2>3. CASE ~(k = base /\ m = base)
    <3>1. todo'[k] = todo[k]
      <4>1. CASE k = base
        BY <1>1, <2>3, <4>1 DEF RunInLoop
      <4>2. CASE k # base
        BY <1>8, <4>2
      <4> QED BY <4>1, <4>2
    <3> QED BY <1>13, <2>1, <3>1, StaysPut
  <2> QED BY <2>2, <2>3
<1>18. ConnInv(c)'
  <2>1. AtHome(c)'
    <3> SUFFICES ASSUME NEW k \in Loops, NEW op \in Ops
                 PROVE  /\ Wait(k, op, c)' > 0 => /\ k = Home(op, c)'
                                                  /\ op = "connectEstablished"
                        /\ op \notin Functors => Num(queue'[k], op, c) = 0
      BY <1>14 DEF AtHome
    <3>1. Wait(k, op, c)' > 0 => k = m /\ op = "connectEstablished"
      BY <1>12
    <3>2. op = "connectEstablished" => Home(op, c)' = m /\ op \in Functors
      BY <1>14 DEF Home, Functors
    <3>3. op # "connectEstablished" => Num(queue'[k], op, c) = 0
      BY <1>12
    <3> QED BY <3>1, <3>2, <3>3
  <2>2. Traffic(c)'
    BY <1>4, <1>13 DEF ConnInv, Traffic, Closable
  <2>3. Closing(c)' = 0 /\ Leaving(c)' = 0
    <3>1. /\ Wait(m, "closeCallback", c)' = 0 /\ Wait(base, "removeConnectionInLoop", c)' = 0
          /\ Wait(m, "connectDestroyed", c)' = 0 /\ Wait(m, "channelRemove", c)' = 0
      BY <1>4, <1>12 DEF Ops, Owning, base
    <3> QED BY <1>14, <3>1 DEF Closing, Leaving, base
  <2>4. Owned(c)' /\ Released(c)'
    BY <1>2, <1>5, <1>13, <1>14, <2>3 DEF Owned, Released
  <2>5. Stage(c)'
    <3>1. Wait(m, "connectEstablished", c)' = 1
      BY <1>12 DEF Ops, Owning
    <3> QED BY <1>1, <1>5, <1>13, <1>14, <3>1 DEF Stage, base
  <2>6. Holding(c)'
    BY <1>5, <1>13 DEF Holding
  <2> QED BY <2>1, <2>2, <2>4, <2>5, <2>6 DEF ConnInv
<1>19. UNCHANGED <<threadVars, aborted, serverUp, numThreads_>>
  BY <1>2
<1> QED BY <1>11, <1>15, <1>16, <1>17, <1>18, <1>19, TokenStep

\* The work of ~TcpServer: connectDestroyed once for every connection it has.
LEMMA DestroyWorks ==
  ASSUME TcpInv, NEW work \in DestroyAll(connections_)
  PROVE  /\ work \in Seq(Work)
         /\ \A i \in DOMAIN work : work[i].op = "connectDestroyed" /\ work[i].conn \in connections_
         /\ \A i, j \in DOMAIN work : i # j => work[i].conn # work[j].conn
         /\ \A c \in connections_ : Num(work, "connectDestroyed", c) = 1
         /\ \A op, c : op # "connectDestroyed" \/ c \notin connections_ => Num(work, op, c) = 0
<1> DEFINE n == Cardinality(connections_)
<1>1. IsFiniteSet(connections_) /\ connections_ \subseteq Conns
  BY DEF TcpInv, ServerTypeOK
<1>2. n \in Nat
  BY <1>1, FS_CardinalityType
<1>10. PICK order \in SetToSeqs(connections_) :
         work = [i \in DOMAIN order |-> Do("connectDestroyed", order[i])]
  BY DEF DestroyAll
<1>3. order \in [1..n -> connections_] /\ \A i, j \in 1..n : i # j => order[i] # order[j]
  BY DEF SetToSeqs
<1> HIDE DEF n
<1>4. \A i \in 1..n : /\ Do("connectDestroyed", order[i]) \in Work
                      /\ Do("connectDestroyed", order[i]).op = "connectDestroyed"
                      /\ Do("connectDestroyed", order[i]).conn = order[i]
  BY <1>1, <1>3, DoWork DEF Ops, Owning
<1>5. work = [i \in 1..n |-> Do("connectDestroyed", order[i])]
  BY <1>3, <1>10
<1>6. /\ work \in Seq(Work) /\ DOMAIN work = 1..n
      /\ \A i \in 1..n : work[i].op = "connectDestroyed" /\ work[i].conn = order[i]
  BY <1>2, <1>4, <1>5
<1>7. \A c \in connections_ : \E i \in 1..n : order[i] = c
  <2>1. IsFiniteSet(1..n) /\ Cardinality(1..n) = n
    BY <1>2, FS_Interval
  <2>2. order \in Injection(1..n, connections_)
    BY <1>3 DEF Injection, IsInjective
  <2>3. order \in Surjection(1..n, connections_)
    BY <1>1, <2>1, <2>2, FS_Injection DEF n
  <2> QED BY <2>3 DEF Surjection
<1>8. ASSUME NEW c \in connections_ PROVE Num(work, "connectDestroyed", c) = 1
  <2>1. PICK i \in 1..n : order[i] = c
    BY <1>7
  <2>2. {j \in DOMAIN work : work[j].op = "connectDestroyed" /\ work[j].conn = c} = {i}
    BY <1>3, <1>6, <2>1
  <2> QED BY <2>2, FS_Singleton DEF Num
<1>9. ASSUME NEW op, NEW c, op # "connectDestroyed" \/ c \notin connections_
      PROVE  Num(work, op, c) = 0
  <2>1. \A i \in DOMAIN work : ~(work[i].op = op /\ work[i].conn = c)
    BY <1>3, <1>6, <1>9
  <2>2. \A s \in Seq(Work) :
          (\A i \in DOMAIN s : ~(s[i].op = op /\ s[i].conn = c)) => Num(s, op, c) = 0
    BY NumFacts
  <2> QED BY <1>6, <2>1, <2>2, Zenon
<1> QED BY <1>3, <1>6, <1>8, <1>9

\* A server without connections has nothing to destroy.
LEMMA DestroyNone ==
  ASSUME NEW work \in DestroyAll({})
  PROVE  work = <<>>
<1>1. PICK order \in SetToSeqs({}) : work = [i \in DOMAIN order |-> Do("connectDestroyed", order[i])]
  BY DEF DestroyAll
<1>2. Cardinality({}) = 0
  BY FS_EmptySet
<1>3. order \in [1..0 -> {}]
  BY <1>2 DEF SetToSeqs
<1>4. DOMAIN order = {}
  BY <1>3
<1> QED BY <1>1, <1>4

\* So it queues nothing.
LEMMA QueuesKept ==
  ASSUME TcpInv, DeleteServer, numThreads_ # 0, connections_ = {}
  PROVE  queue' = queue /\ todo' = todo
<1>1. PICK work \in [Loops -> UNION {DestroyAll(S) : S \in SUBSET connections_}] :
        /\ \A l \in Loops : work[l] \in DestroyAll({c \in connections_ : loop_[c] = l})
        /\ queue' = [l \in Loops |-> queue[l] \o work[l]]
  BY DEF DeleteServer
<1>2. ASSUME NEW l \in Loops PROVE queue[l] \o work[l] = queue[l]
  <2>1. {c \in connections_ : loop_[c] = l} = {}
    OBVIOUS
  <2>2. work[l] = <<>>
    BY <1>1, <2>1, DestroyNone
  <2>3. queue[l] \in Seq(Work)
    BY Typed
  <2> QED BY <2>2, <2>3
<1>3. queue = [l \in Loops |-> queue[l]]
  BY Typed
<1> QED BY <1>1, <1>2, <1>3 DEF DeleteServer

\* ~TcpServer of a server that has a pool, after its last connection is gone.
LEMMA DeletePooledServerStep ==
  ASSUME TcpInv, DeleteServer, QuietEnough, numThreads_ # 0
  PROVE  TcpInv'
<1>1. numThreads_ > 0
  BY DEF TcpInv, ServerTypeOK
<1>2. connections_ = {}
  BY <1>1 DEF QuietEnough, TcpInv, ConnInv, Owned, ServerTypeOK
<1>3. queue' = queue
  BY <1>2, QueuesKept
<1>4. /\ UNCHANGED <<object, state_, reading_, outputBuffer_, events, added, finSent, ups, downs,
                     loop_, timers, todo, tpc, held, late, calls, aborted, numThreads_,
                     connections_, next_, ended>>
      /\ serverUp' = FALSE /\ hasty' = FALSE
  BY <1>2 DEF DeleteServer, connVars, threadVars
<1>5. ServerTypeOK' /\ Calm' /\ IsFiniteSet(connections_)'
  BY <1>3, <1>4 DEF TcpInv, ServerTypeOK, TypeOK, Calm
<1>6. \A t \in Threads : ThreadInv(t)'
  BY <1>4 DEF TcpInv, ThreadInv
<1>7. ASSUME NEW k \in Loops PROVE LoopInv(k)'
  <2>1. Order(queue'[k]) /\ todo'[k] = todo[k]
    BY <1>3, <1>4 DEF TcpInv, LoopInv
  <2> QED BY <1>4, <2>1, StaysPut
<1>8. ASSUME NEW d \in Conns PROVE ConnInv(d)'
  <2>1. SameCounts(d) /\ SameState(d) /\ SameOwners(d)
    BY <1>2, <1>3, <1>4 DEF SameCounts, SameState, SameOwners
  <2> QED BY <2>1, Unconcerned
<1> QED BY <1>5, <1>6, <1>7, <1>8 DEF TcpInv

\* ~TcpServer of a server without a pool, all of whose connections are connected.
LEMMA DeleteServerStep ==
  ASSUME TcpInv, DeleteServer, QuietEnough, numThreads_ = 0
  PROVE  TcpInv'
<1>2. /\ todo[base] = <<>>
      /\ \A c \in connections_ : state_[c] = "kConnected"
      /\ connections_' = {} /\ serverUp' = FALSE /\ hasty' = FALSE
      /\ UNCHANGED <<object, connVars, loop_, timers, queue, threadVars, calls, aborted,
                     numThreads_, next_, ended>>
  BY DEF DeleteServer, QuietEnough
<1>3. UNCHANGED <<object, state_, reading_, outputBuffer_, events, added, finSent, ups, downs,
                  loop_, timers, queue, tpc, held, late, calls, aborted, numThreads_, next_, ended>>
  BY <1>2 DEF connVars, threadVars
<1>4. base \in Loops
  BY Typed
<1>5. PICK work \in Seq(Work) :
        /\ Now(base, work)
        /\ \A i \in DOMAIN work : work[i].op = "connectDestroyed" /\ work[i].conn \in connections_
        /\ \A i, j \in DOMAIN work : i # j => work[i].conn # work[j].conn
        /\ \A c \in connections_ : Num(work, "connectDestroyed", c) = 1
        /\ \A op, c : op # "connectDestroyed" \/ c \notin connections_ => Num(work, op, c) = 0
  <2>1. PICK work \in DestroyAll(connections_) : Now(base, work)
    BY DEF DeleteServer
  <2>2. /\ work \in Seq(Work)
        /\ \A i \in DOMAIN work : work[i].op = "connectDestroyed" /\ work[i].conn \in connections_
        /\ \A i, j \in DOMAIN work : i # j => work[i].conn # work[j].conn
        /\ \A c \in connections_ : Num(work, "connectDestroyed", c) = 1
        /\ \A op, c : op # "connectDestroyed" \/ c \notin connections_ => Num(work, op, c) = 0
    BY DestroyWorks
  <2> QED BY <2>1, <2>2
<1>6. /\ todo' \in [Loops -> Seq(Work)] /\ todo'[base] = work \o todo[base]
      /\ \A k \in Loops : k # base => todo'[k] = todo[k]
      /\ \A op, d : Num(todo'[base], op, d) = Num(todo[base], op, d) + Num(work, op, d)
  BY <1>4, <1>5, NowCounts
<1>7. todo'[base] = work
  <2>1. work \o <<>> = work
    OBVIOUS
  <2> QED BY <1>2, <1>6, <2>1
<1>8. \A k \in Loops : \A op, d : Num(todo[k], op, d) \in Nat /\ Num(queue[k], op, d) \in Nat
  BY Typed
<1>9. ASSUME NEW d \in Conns, NEW k \in Loops, NEW op
      PROVE  /\ Num(queue'[k], op, d) = Num(queue[k], op, d)
             /\ k # base \/ op # "connectDestroyed" \/ d \notin connections_
                  => Num(todo'[k], op, d) = Num(todo[k], op, d)
  <2>1. CASE k # base
    BY <1>3, <1>6, <2>1
  <2>2. CASE k = base
    <3>1. Num(todo'[k], op, d) = Num(todo[k], op, d) + Num(work, op, d) /\ Num(todo[k], op, d) \in Nat
      BY <1>6, <1>8, <2>2
    <3>2. op # "connectDestroyed" \/ d \notin connections_ => Num(work, op, d) = 0
      BY <1>5
    <3> QED BY <1>3, <2>2, <3>1, <3>2
  <2> QED BY <2>1, <2>2
<1>10. ServerTypeOK' /\ IsFiniteSet(connections_)' /\ Calm'
  <2>1. IsFiniteSet({})
    BY FS_EmptySet
  <2> QED BY <1>2, <1>3, <1>6, <2>1 DEF TcpInv, ServerTypeOK, TypeOK, Calm
<1>11. \A t \in Threads : ThreadInv(t)'
  BY <1>3 DEF TcpInv, ThreadInv
<1>12. \A d \in Conns : SameState(d)
  BY <1>3 DEF SameState
<1>13. ASSUME NEW k \in Loops PROVE LoopInv(k)'
  <2>1. Order(queue'[k])
    BY <1>3 DEF TcpInv, LoopInv
  <2>2. CASE k # base
    BY <1>3, <1>6, <2>1, <2>2, StaysPut
  <2>3. CASE k = base
    <3>1. DOMAIN work = 1..Len(work) /\ Len(work) \in Nat /\ (work # <<>> => 1 \in DOMAIN work)
      OBVIOUS
    <3>2. Stack(work)
      BY <1>5, <3>1 DEF Stack, Above
    <3>3. DeletedUp(todo[k])'
      BY <1>2, <1>3, <1>5, <1>7, <2>3 DEF DeletedUp
    <3>4. Top(todo[k])'
      <4>1. work # <<>> => work[1].op = "connectDestroyed"
        BY <1>5, <3>1
      <4> QED BY <1>7, <2>3, <4>1 DEF Top, Spot
    <3> QED BY <1>7, <2>1, <2>3, <3>2, <3>3, <3>4 DEF LoopInv
  <2> QED BY <2>2, <2>3
<1>14. ASSUME NEW d \in Conns, d \notin connections_ PROVE ConnInv(d)'
  <2>1. SameCounts(d)
    BY <1>9, <1>14 DEF SameCounts
  <2>2. SameOwners(d)
    BY <1>2, <1>3, <1>14 DEF SameOwners
  <2> QED BY <1>12, <2>1, <2>2, Unconcerned
<1>15. ASSUME NEW c \in Conns, c \in connections_ PROVE ConnInv(c)'
  <2>1. /\ ConnInv(c) /\ object[c] = "live" /\ state_[c] = "kConnected" /\ loop_[c] = base
        /\ Leaving(c) = 0 /\ Closing(c) = 0
    <3>1. ConnInv(c)
      BY DEF TcpInv
    <3> QED BY <1>2, <1>15, <3>1 DEF ConnInv, Owned, Stage
  <2>2. loop_'[c] = base /\ object'[c] = "live" /\ state_'[c] = "kConnected"
    BY <1>3, <2>1
  <2>3. /\ \A op : Num(todo[base], op, c) = 0
        /\ \A op \in Raw : Num(queue[base], op, c) = 0
        /\ Num(queue[base], "connectDestroyed", c) = 0
        /\ Wait(base, "connectEstablished", c) = 0
    <3>1. <<>> \in Seq(Work)
      OBVIOUS
    <3>2. \A op : Num(todo[base], op, c) = 0
      BY <1>2, <3>1, NumFacts
    <3>3. ASSUME NEW op \in Raw PROVE Num(queue[base], op, c) = 0
      <4>1. queue[base] \in Seq(Work)
        BY <1>4, Typed
      <4>2. \A i \in DOMAIN queue[base] : ~(queue[base][i].op = op /\ queue[base][i].conn = c)
        BY <1>15 DEF QuietEnough, Range
      <4> HIDE DEF Raw
      <4> QED BY <4>1, <4>2, NumFacts
    <3>4. Num(queue[base], "connectDestroyed", c) \in Nat /\ Num(queue[base], "channelRemove", c) \in Nat
      BY <1>4, Typed
    <3>5. Num(queue[base], "connectDestroyed", c) = 0
      BY <2>1, <3>2, <3>4 DEF Leaving, Wait
    <3> QED BY <2>1, <3>2, <3>3, <3>5 DEF ConnInv, Stage
  <2>4. /\ \A op : Num(queue'[base], op, c) = Num(queue[base], op, c)
        /\ \A op : op # "connectDestroyed" => Num(todo'[base], op, c) = 0
        /\ Num(todo'[base], "connectDestroyed", c) = 1
    <3>1. Num(todo'[base], "connectDestroyed", c)
            = Num(todo[base], "connectDestroyed", c) + Num(work, "connectDestroyed", c)
      BY <1>6
    <3>2. Num(work, "connectDestroyed", c) = 1
      BY <1>5, <1>15
    <3>3. Num(todo'[base], "connectDestroyed", c) = 1
      BY <2>3, <3>1, <3>2
    <3> QED BY <1>4, <1>9, <2>3, <3>3
  <2>5. AtHome(c)'
    <3> SUFFICES ASSUME NEW k \in Loops, NEW op \in Ops
                 PROVE  /\ Wait(k, op, c)' > 0 => k = Home(op, c)'
                        /\ op \notin Functors => Num(queue'[k], op, c) = 0
      BY <2>2 DEF AtHome
    <3>1. Num(queue'[k], op, c) = Num(queue[k], op, c)
      BY <1>9
    <3>2. /\ Wait(k, op, c) > 0 => k = Home(op, c)
          /\ op \notin Functors => Num(queue[k], op, c) = 0
      BY <2>1 DEF ConnInv, AtHome
    <3>3. Home(op, c)' = Home(op, c)
      BY <1>3 DEF Home, base
    <3>4. CASE k = base /\ op = "connectDestroyed"
      BY <2>2, <3>4 DEF Home, Functors
    <3>5. CASE ~(k = base /\ op = "connectDestroyed")
      <4>1. Num(todo'[k], op, c) = Num(todo[k], op, c)
        BY <1>9, <3>5
      <4> QED BY <3>1, <3>2, <3>3, <4>1 DEF Wait
    <3> QED BY <3>4, <3>5
  <2>6. /\ Closing(c)' = 0 /\ Leaving(c)' = 1
        /\ \A op \in Notifications : Wait(base, op, c)' = 0
        /\ Wait(base, "connectEstablished", c)' = 0
    <3>1. /\ Wait(base, "closeCallback", c)' = Wait(base, "closeCallback", c)
          /\ Wait(base, "removeConnectionInLoop", c)' = Wait(base, "removeConnectionInLoop", c)
          /\ Wait(base, "channelRemove", c)' = Wait(base, "channelRemove", c)
          /\ Wait(base, "connectEstablished", c)' = Wait(base, "connectEstablished", c)
          /\ \A op \in Notifications : Wait(base, op, c)' = 0
          /\ Wait(base, "connectDestroyed", c)' = 1
      BY <2>3, <2>4 DEF Wait, Notifications, Raw, base
    <3>2. Wait(base, "channelRemove", c) = 0 /\ Closing(c)' = Closing(c)
      <4>1. /\ Num(queue[base], "connectDestroyed", c) \in Nat
            /\ Num(queue[base], "channelRemove", c) \in Nat
        BY <1>4, Typed
      <4> QED BY <2>1, <2>2, <2>3, <3>1, <4>1 DEF Leaving, Wait, Closing, base
    <3> QED BY <2>1, <2>2, <2>3, <3>1, <3>2 DEF Leaving, base
  <2>7. Traffic(c)'
    BY <1>3, <2>1 DEF ConnInv, Traffic, Closable
  <2>8. Owned(c)'
    BY <1>2 DEF Owned
  <2>9. Released(c)'
    BY <2>2, <2>3, <2>4, <2>6 DEF Released, Closable, base
  <2>10. Stage(c)'
    BY <2>2, <2>6 DEF Stage, base
  <2>11. Holding(c)'
    BY <1>3, <2>1, <2>2 DEF ConnInv, Holding
  <2> QED BY <2>5, <2>7, <2>8, <2>9, <2>10, <2>11 DEF ConnInv
<1> QED BY <1>10, <1>11, <1>13, <1>14, <1>15 DEF TcpInv

\* Nothing but sends of other threads waits for a connection that has no owner: the last
\* functor its loop queued with "this" ran before the last shared pointer went.
LEMMA NothingWaits ==
  ASSUME TcpInv, NEW c \in Conns, object[c] = "live", c \notin connections_, ~Shared(c)
  PROVE  /\ \A k \in Loops, op \in Ops \ {"sendInLoop"} :
              Num(todo[k], op, c) = 0 /\ Num(queue[k], op, c) = 0
         /\ state_[c] = "kDisconnected" /\ ~added[c]
<1>1. PICK l \in Loops : l = loop_[c]
  BY Typed
<1>2. ConnInv(c) /\ base \in Loops
  BY Typed DEF TcpInv
<1>4. ASSUME NEW k \in Loops
      PROVE  /\ \A i \in DOMAIN todo[k] : ~(todo[k][i].conn = c /\ todo[k][i].op \in Owning)
             /\ \A i \in DOMAIN queue[k] : ~(queue[k][i].conn = c /\ queue[k][i].op \in Owning)
  BY DEF Shared, Waiting, Range
<1>5. ASSUME NEW k \in Loops, NEW op \in Owning
      PROVE  Num(todo[k], op, c) = 0 /\ Num(queue[k], op, c) = 0
  <2>1. todo[k] \in Seq(Work) /\ queue[k] \in Seq(Work)
    BY Typed
  <2>2. /\ \A i \in DOMAIN todo[k] : ~(todo[k][i].op = op /\ todo[k][i].conn = c)
        /\ \A i \in DOMAIN queue[k] : ~(queue[k][i].op = op /\ queue[k][i].conn = c)
    BY <1>4
  <2> HIDE DEF Owning
  <2> QED BY <2>1, <2>2, NumFacts
<1>6. Leaving(c) = 0 /\ Num(todo[l], "connectDestroyed", c) = 0
  BY <1>1, <1>5 DEF Leaving, Wait, Owning
<1>7. /\ ~added[c] /\ ~Closable(c) /\ state_[c] # "kConnecting"
      /\ \A op \in Raw \ {"sendInLoop"} : Wait(l, op, c) = 0
  BY <1>1, <1>2, <1>6 DEF ConnInv, Released
<1>8. state_[c] = "kDisconnected"
  BY <1>7, Typed DEF Closable
<1>11. ASSUME NEW k \in Loops, NEW op \in Ops \ {"sendInLoop"}
       PROVE  Num(todo[k], op, c) = 0 /\ Num(queue[k], op, c) = 0
  <2>1. Num(todo[k], op, c) \in Nat /\ Num(queue[k], op, c) \in Nat
    BY Typed
  <2>2. CASE op \in Owning
    BY <1>5, <2>2
  <2>3. CASE op \in Raw /\ k # l
    <3>1. Home(op, c) = l
      BY <1>1, <2>3 DEF Home, Raw
    <3>2. ~(Wait(k, op, c) > 0)
      BY <1>2, <2>3, <3>1 DEF ConnInv, AtHome
    <3> QED BY <2>1, <3>2 DEF Wait
  <2>4. CASE op \in Raw /\ k = l
    <3>1. Wait(k, op, c) = 0
      BY <1>7, <2>4
    <3> QED BY <2>1, <3>1 DEF Wait
  <2> QED BY <2>2, <2>3, <2>4 DEF Ops
<1> QED BY <1>7, <1>8, <1>11

\* The destructor of TcpConnection.
LEMMA DestroyStep ==
  ASSUME TcpInv, NEW c \in Conns, UNCHANGED serverVars, Destroy(c, c \in connections_, TRUE)
  PROVE  TcpInv'
<1>1. /\ aborted = "no" /\ object[c] = "live" /\ c \notin connections_ /\ ~Shared(c)
      /\ object' = [object EXCEPT ![c] = IF aborted' = "no" THEN "freed" ELSE @]
      /\ aborted' = IF state_[c] # "kDisconnected" THEN "TcpConnection.cc:46"
                    ELSE IF added[c] THEN "Channel.cc:29" ELSE "no"
      /\ UNCHANGED <<connVars, loop_, timers, queue, todo, threadVars, calls>>
  BY DEF Destroy
<1>2. /\ \A k \in Loops, op \in Ops \ {"sendInLoop"} :
           Num(todo[k], op, c) = 0 /\ Num(queue[k], op, c) = 0
      /\ state_[c] = "kDisconnected" /\ ~added[c]
  BY <1>1, NothingWaits
<1>3. aborted' = aborted /\ aborted' = "no"
  BY <1>1, <1>2
<1>4. /\ UNCHANGED <<state_, outputBuffer_, events, added, finSent, ups, downs, loop_, queue, todo,
                     held, late, connections_, serverUp, numThreads_>>
      /\ object'[c] = "freed" /\ \A d \in Conns : d # c => object'[d] = object[d]
  BY <1>1, <1>3 DEF connVars, threadVars, serverVars, TcpInv, ServerTypeOK, TypeOK
<1>5. ServerTypeOK' /\ IsFiniteSet(connections_)'
  BY <1>1, <1>3 DEF TcpInv, ServerTypeOK, TypeOK, connVars, threadVars, serverVars
<1>6. \A k \in Loops : LoopInv(k)'
  <2> SUFFICES ASSUME NEW k \in Loops PROVE LoopInv(k)'
    OBVIOUS
  <2>1. Order(queue'[k]) /\ todo'[k] = todo[k]
    BY <1>4 DEF TcpInv, LoopInv
  <2> QED BY <1>4, <2>1, StaysPut
<1>7. \A d \in Conns : d # c => /\ SameCounts(d) /\ SameState(d)
                                /\ d \in connections_' <=> d \in connections_
  BY <1>4 DEF SameCounts, SameState
<1>8. ConnInv(c)'
  <2>1. ConnInv(c) /\ loop_[c] \in Loops /\ "sendInLoop" \in Ops
    BY Typed DEF TcpInv, Ops, Raw
  <2>2. AtHome(c)'
    <3>1. ASSUME NEW k \in Loops, NEW op \in Ops
          PROVE  /\ Wait(k, op, c)' = Wait(k, op, c) /\ Num(queue'[k], op, c) = Num(queue[k], op, c)
                 /\ Home(op, c)' = Home(op, c) /\ state_'[c] = state_[c]
                 /\ Wait(k, op, c)' > 0 => op = "sendInLoop"
      BY <1>2, <1>4 DEF Wait, Home, base
    <3> QED BY <2>1, <3>1 DEF ConnInv, AtHome
  <2>3. Traffic(c)'
    BY <1>4, <2>1 DEF ConnInv, Traffic, Closable
  <2>4. Owned(c)' /\ Released(c)' /\ Stage(c)'
    BY <1>1, <1>2, <1>4 DEF Owned, Released, Stage
  <2>5. Holding(c)'
    BY <1>1, <1>4 DEF Shared, Holding
  <2> QED BY <2>2, <2>3, <2>4, <2>5 DEF ConnInv
<1>9. UNCHANGED <<threadVars, aborted, serverUp, numThreads_>>
  BY <1>1, <1>3, <1>4
<1> QED BY <1>5, <1>6, <1>7, <1>8, <1>9, TokenStep

\* Stuttering.
LEMMA StutterStep ==
  ASSUME TcpInv, UNCHANGED allVars
  PROVE  TcpInv'
<1>1. UNCHANGED <<object, state_, reading_, outputBuffer_, events, added, finSent, ups, downs,
                  loop_, timers, queue, todo, tpc, held, late, calls, aborted,
                  numThreads_, connections_, next_, serverUp, ended, hasty>>
  BY DEF allVars, vars, connVars, threadVars, serverVars
<1>2. ServerTypeOK' /\ Calm' /\ IsFiniteSet(connections_)'
  BY <1>1 DEF TcpInv, ServerTypeOK, TypeOK, Calm
<1>3. \A t \in Threads : ThreadInv(t)'
  BY <1>1 DEF TcpInv, ThreadInv
<1>4. ASSUME NEW k \in Loops PROVE LoopInv(k)'
  <2>1. Order(queue'[k]) /\ todo'[k] = todo[k]
    BY <1>1 DEF TcpInv, LoopInv
  <2> QED BY <1>1, <2>1, StaysPut
<1>5. ASSUME NEW d \in Conns PROVE ConnInv(d)'
  <2>1. SameCounts(d) /\ SameState(d) /\ SameOwners(d)
    BY <1>1 DEF SameCounts, SameState, SameOwners
  <2> QED BY <2>1, Unconcerned
<1> QED BY <1>2, <1>3, <1>4, <1>5 DEF TcpInv

\* The server starts with no connection made.
LEMMA InitHolds ==
  ASSUME Init
  PROVE  TcpInv
<1>1. MaxThreads \in Nat /\ Loops = 0..MaxThreads /\ 0 \in Loops /\ MaxCalls \in Nat
  BY ServerAssumption, ConnectionAssumption
<1>2. ServerTypeOK
  <2>1. (CHOOSE l \in Loops : TRUE) \in Loops
    BY <1>1
  <2>2. <<>> \in Seq(Work)
    OBVIOUS
  <2>3. loop_ \in [Conns -> Loops]
    BY <2>1 DEF Init, ConnectionInit
  <2>4. queue \in [Loops -> Seq(Work)] /\ todo \in [Loops -> Seq(Work)]
    BY <2>2 DEF Init, ConnectionInit
  <2>5. tpc \in [Threads -> [at : {"idle", "tested", "stored"}, op : Calls \union {"none"},
                        conn : Conns \union {NoConn}]]
        /\ held \in [Threads -> SUBSET Conns] /\ late \subseteq Conns
    BY DEF Init, ConnectionInit, Idle
  <2>6. calls \in 0..MaxCalls
    BY <1>1 DEF Init, ConnectionInit
  <2>7. /\ object \in [Conns -> {"no", "live", "freed"}]
        /\ state_ \in [Conns -> {"kConnecting", "kConnected", "kDisconnecting", "kDisconnected"}]
        /\ reading_ \in [Conns -> BOOLEAN]
        /\ outputBuffer_ \in [Conns -> Nat]
        /\ events \in [Conns -> SUBSET {"read", "write"}]
        /\ added \in [Conns -> BOOLEAN]
        /\ finSent \in [Conns -> BOOLEAN]
        /\ timers \subseteq Conns
        /\ ups \in [Conns -> Nat] /\ downs \in [Conns -> Nat]
    BY DEF Init, ConnectionInit
  <2>8. TypeOK
    BY <2>3, <2>4, <2>5, <2>6, <2>7 DEF TypeOK
  <2> QED BY <1>1, <2>8 DEF Init, ServerTypeOK
<1>3. Calm /\ IsFiniteSet(connections_)
  BY FS_EmptySet DEF Init, ConnectionInit, Calm
<1>4. \A l \in Loops : todo[l] = <<>> /\ queue[l] = <<>>
  BY DEF Init, ConnectionInit
<1>5. ASSUME NEW l \in Loops PROVE LoopInv(l)
  <2>1. DOMAIN todo[l] = {} /\ DOMAIN queue[l] = {} /\ todo[l] = <<>>
    BY <1>4
  <2> QED BY <2>1 DEF LoopInv, Stack, DeletedUp, Top, Order
<1>6. \A l \in Loops : \A op, c : /\ Num(todo[l], op, c) = 0 /\ Num(queue[l], op, c) = 0
                                  /\ Wait(l, op, c) = 0
  <2>1. \A op, c : Num(<<>>, op, c) = 0
    <3>1. <<>> \in Seq(Work)
      OBVIOUS
    <3> QED BY <3>1, NumFacts
  <2> QED BY <1>4, <2>1 DEF Wait
<1>7. ASSUME NEW c \in Conns PROVE ConnInv(c)
  <2>1. /\ object[c] = "no" /\ state_[c] = "kConnecting" /\ outputBuffer_[c] = 0 /\ events[c] = {}
        /\ ~finSent[c] /\ ups[c] = 0 /\ downs[c] = 0 /\ c \notin connections_
        /\ \A t \in Threads : c \notin held[t]
    BY DEF Init, ConnectionInit
  <2>2. loop_[c] \in Loops
    BY <1>2 DEF ServerTypeOK, TypeOK
  <2>3. AtHome(c)
    BY <1>6 DEF AtHome
  <2>4. Traffic(c) /\ Owned(c) /\ Released(c) /\ Stage(c)
    BY <2>1 DEF Traffic, Closable, Owned, Released, Stage
  <2>5. Holding(c)
    BY <2>1 DEF Holding
  <2> QED BY <2>3, <2>4, <2>5 DEF ConnInv
<1>8. \A t \in Threads : ThreadInv(t)
  BY DEF Init, ConnectionInit, ThreadInv, Idle
<1> QED BY <1>2, <1>3, <1>5, <1>7, <1>8 DEF TcpInv

-----------------------------------------------------------------------------
(* The pool, and sends of other threads.                                   *)

\* A server with a pool that was deleted quietly has left no connection behind, so that
\* nobody asks for a loop that is gone.
PoolInv ==
  /\ ended # {} => ~serverUp
  /\ ~serverUp /\ numThreads_ > 0 => \A c \in Conns : object[c] # "live"

IsSend(w, c) == w.op = "sendInLoop" /\ w.conn = c
IsDestroy(w, c) == w.op = "connectDestroyed" /\ w.conn = c

\* A send queued while the server had the connection is in front of the functor that
\* takes the connection off its loop and keeps it alive until then.
SendInv ==
  \A c \in Conns :
    \/ c \in late \/ c \in connections_
    \/ \A l \in Loops :
         /\ \A j \in DOMAIN queue[l] : IsSend(queue[l][j], c) =>
              \E i \in DOMAIN queue[l] : j < i /\ IsDestroy(queue[l][i], c)
         /\ \A j \in DOMAIN todo[l] : IsSend(todo[l][j], c) =>
              \E i \in DOMAIN queue[l] : IsDestroy(queue[l][i], c)

\* Work without sends.
Sendless(s) == \A i \in DOMAIN s : s[i].op # "sendInLoop"

\* The loop is given work without sends.
Grows(l) == \E more \in Seq(Work) : Sendless(more) /\ queue'[l] = queue[l] \o more

\* It starts no send.
NoNewSend(l) ==
  \A j \in DOMAIN todo'[l] : todo'[l][j].op = "sendInLoop" =>
    \E i \in DOMAIN todo[l] : todo[l][i] = todo'[l][j]

\* A loop keeps its queue, its stack, or both.
LEMMA SameSends ==
  ASSUME TcpInv, NEW l \in Loops
  PROVE  /\ queue'[l] = queue[l] => Grows(l)
         /\ todo'[l] = todo[l] => NoNewSend(l)
<1>1. queue[l] \in Seq(Work) /\ <<>> \in Seq(Work)
  BY Typed
<1>2. queue[l] \o <<>> = queue[l]
  BY <1>1
<1>3. Sendless(<<>>)
  BY DEF Sendless
<1> QED BY <1>1, <1>2, <1>3 DEF Grows, NoNewSend

LEMMA ThenSends ==
  ASSUME TcpInv, NEW l \in Loops, todo[l] # <<>>, NEW work \in Seq(Work), Sendless(work),
         Then(l, work)
  PROVE  \A k \in Loops : NoNewSend(k)
<1>1. todo \in [Loops -> Seq(Work)] /\ todo[l] \in Seq(Work) /\ Tail(todo[l]) \in Seq(Work)
  BY Typed
<1>2. todo'[l] = work \o Tail(todo[l]) /\ \A k \in Loops : k # l => todo'[k] = todo[k]
  BY <1>1 DEF Then
<1>3. ASSUME NEW j \in DOMAIN todo'[l], todo'[l][j].op = "sendInLoop"
      PROVE  \E i \in DOMAIN todo[l] : todo[l][i] = todo'[l][j]
  <2>1. /\ DOMAIN todo'[l] = 1..(Len(work) + Len(todo[l]) - 1)
        /\ Len(work) \in Nat /\ Len(todo[l]) \in Nat \ {0} /\ DOMAIN todo[l] = 1..Len(todo[l])
        /\ DOMAIN work = 1..Len(work)
    BY <1>1, <1>2
  <2>2. CASE j <= Len(work)
    <3>1. todo'[l][j] = work[j] /\ j \in DOMAIN work
      BY <1>1, <1>2, <2>1, <2>2
    <3> QED BY <1>3, <3>1 DEF Sendless
  <2>3. CASE j > Len(work)
    <3>1. /\ j - Len(work) + 1 \in DOMAIN todo[l]
          /\ todo'[l][j] = todo[l][j - Len(work) + 1]
      BY <1>1, <1>2, <2>1, <2>3
    <3> QED BY <3>1
  <2> QED BY <2>1, <2>2, <2>3
<1>4. NoNewSend(l)
  BY <1>3 DEF NoNewSend
<1> QED BY <1>2, <1>4, SameSends

LEMMA NowSends ==
  ASSUME TcpInv, NEW l \in Loops, NEW work \in Seq(Work), Sendless(work), Now(l, work)
  PROVE  \A k \in Loops : NoNewSend(k)
<1>1. todo \in [Loops -> Seq(Work)] /\ todo[l] \in Seq(Work)
  BY Typed
<1>2. todo'[l] = work \o todo[l] /\ \A k \in Loops : k # l => todo'[k] = todo[k]
  BY <1>1 DEF Now
<1>3. ASSUME NEW j \in DOMAIN todo'[l], todo'[l][j].op = "sendInLoop"
      PROVE  \E i \in DOMAIN todo[l] : todo[l][i] = todo'[l][j]
  <2>1. /\ DOMAIN todo'[l] = 1..(Len(work) + Len(todo[l]))
        /\ Len(work) \in Nat /\ Len(todo[l]) \in Nat /\ DOMAIN todo[l] = 1..Len(todo[l])
        /\ DOMAIN work = 1..Len(work)
    BY <1>1, <1>2
  <2>2. CASE j <= Len(work)
    <3>1. todo'[l][j] = work[j] /\ j \in DOMAIN work
      BY <1>1, <1>2, <2>1, <2>2
    <3> QED BY <1>3, <3>1 DEF Sendless
  <2>3. CASE j > Len(work)
    <3>1. j - Len(work) \in DOMAIN todo[l] /\ todo'[l][j] = todo[l][j - Len(work)]
      BY <1>1, <1>2, <2>1, <2>3
    <3> QED BY <3>1
  <2> QED BY <2>1, <2>2, <2>3
<1>4. NoNewSend(l)
  BY <1>3 DEF NoNewSend
<1> QED BY <1>2, <1>4, SameSends

LEMMA QueuedSends ==
  ASSUME TcpInv, NEW l \in Loops, NEW more \in Seq(Work), Sendless(more),
         queue' = Queued(l, more)
  PROVE  \A k \in Loops : Grows(k)
<1>1. queue \in [Loops -> Seq(Work)]
  BY Typed
<1>2. queue'[l] = queue[l] \o more /\ \A k \in Loops : k # l => queue'[k] = queue[k]
  BY <1>1 DEF Queued
<1>3. Grows(l)
  BY <1>2 DEF Grows
<1> QED BY <1>2, <1>3, SameSends

\* A step that brings no send keeps the order of the sends that wait.
LEMMA SendsKept ==
  ASSUME TcpInv, SendInv, TcpInv', late \subseteq late', connections_ \subseteq connections_',
         \A l \in Loops : Grows(l) /\ NoNewSend(l)
  PROVE  SendInv'
<1> SUFFICES ASSUME NEW c \in Conns, c \notin late', c \notin connections_', NEW l \in Loops
             PROVE  /\ \A j \in DOMAIN queue'[l] : IsSend(queue'[l][j], c) =>
                         \E i \in DOMAIN queue'[l] : j < i /\ IsDestroy(queue'[l][i], c)
                    /\ \A j \in DOMAIN todo'[l] : IsSend(todo'[l][j], c) =>
                         \E i \in DOMAIN queue'[l] : IsDestroy(queue'[l][i], c)
  BY DEF SendInv, IsSend, IsDestroy
<1>1. /\ \A j \in DOMAIN queue[l] : IsSend(queue[l][j], c) =>
           \E i \in DOMAIN queue[l] : j < i /\ IsDestroy(queue[l][i], c)
      /\ \A j \in DOMAIN todo[l] : IsSend(todo[l][j], c) =>
           \E i \in DOMAIN queue[l] : IsDestroy(queue[l][i], c)
  BY DEF SendInv
<1>2. PICK more \in Seq(Work) : Sendless(more) /\ queue'[l] = queue[l] \o more
  BY DEF Grows
<1>3. queue[l] \in Seq(Work)
  BY Typed
<1>4. /\ DOMAIN queue'[l] = 1..(Len(queue[l]) + Len(more)) /\ DOMAIN queue[l] = 1..Len(queue[l])
      /\ Len(queue[l]) \in Nat /\ Len(more) \in Nat /\ DOMAIN more = 1..Len(more)
      /\ \A i \in DOMAIN queue[l] : i \in DOMAIN queue'[l] /\ queue'[l][i] = queue[l][i]
      /\ \A i \in DOMAIN queue'[l] : i \notin DOMAIN queue[l] =>
           i - Len(queue[l]) \in DOMAIN more /\ queue'[l][i] = more[i - Len(queue[l])]
  BY <1>2, <1>3
<1>5. ASSUME NEW j \in DOMAIN queue'[l], IsSend(queue'[l][j], c)
      PROVE  \E i \in DOMAIN queue'[l] : j < i /\ IsDestroy(queue'[l][i], c)
  <2>1. j \in DOMAIN queue[l]
    BY <1>2, <1>4, <1>5 DEF Sendless, IsSend
  <2>2. PICK i \in DOMAIN queue[l] : j < i /\ IsDestroy(queue[l][i], c)
    BY <1>1, <1>4, <1>5, <2>1
  <2> QED BY <1>4, <2>2
<1>6. ASSUME NEW j \in DOMAIN todo'[l], IsSend(todo'[l][j], c)
      PROVE  \E i \in DOMAIN queue'[l] : IsDestroy(queue'[l][i], c)
  <2>1. PICK k \in DOMAIN todo[l] : todo[l][k] = todo'[l][j]
    BY <1>6 DEF NoNewSend, IsSend
  <2>2. PICK i \in DOMAIN queue[l] : IsDestroy(queue[l][i], c)
    BY <1>1, <1>6, <2>1
  <2> QED BY <1>4, <2>2
<1> QED BY <1>5, <1>6

\* Two sequences with no send, one after the other.
LEMMA SendlessConcat ==
  ASSUME NEW s \in Seq(Work), NEW r \in Seq(Work), Sendless(s), Sendless(r)
  PROVE  s \o r \in Seq(Work) /\ Sendless(s \o r)
<1>1. /\ s \o r \in Seq(Work) /\ Len(s \o r) = Len(s) + Len(r)
      /\ \A i \in 1..Len(s) + Len(r) : (s \o r)[i] = IF i <= Len(s) THEN s[i] ELSE r[i - Len(s)]
  BY ConcatProperties
<1>2. ASSUME NEW i \in DOMAIN (s \o r) PROVE (s \o r)[i].op # "sendInLoop"
  <2>1. i \in 1..Len(s) + Len(r) /\ Len(s) \in Nat /\ Len(r) \in Nat
    BY <1>1
  <2>2. CASE i <= Len(s)
    <3>1. i \in DOMAIN s /\ (s \o r)[i] = s[i]
      BY <1>1, <2>1, <2>2
    <3> QED BY <3>1 DEF Sendless
  <2>3. CASE ~(i <= Len(s))
    <3>1. i - Len(s) \in DOMAIN r /\ (s \o r)[i] = r[i - Len(s)]
      BY <1>1, <2>1, <2>3
    <3> QED BY <3>1 DEF Sendless
  <2> QED BY <2>2, <2>3
<1> QED BY <1>1, <1>2 DEF Sendless

\* The work that is called or queued for a connection, sends apart.
LEMMA SendlessWork ==
  ASSUME NEW c \in Conns, NEW op \in Ops \ {"sendInLoop"}
  PROVE  /\ <<>> \in Seq(Work) /\ Sendless(<<>>)
         /\ <<Do(op, c)>> \in Seq(Work) /\ Sendless(<<Do(op, c)>>)
         /\ \A o \in Ops \ {"sendInLoop"} :
              <<Do(op, c), Do(o, c)>> \in Seq(Work) /\ Sendless(<<Do(op, c), Do(o, c)>>)
<1>1. Do(op, c) \in Work /\ Do(op, c).op = op
  BY DoWork
<1>2. ASSUME NEW o \in Ops \ {"sendInLoop"}
      PROVE  <<Do(op, c), Do(o, c)>> \in Seq(Work) /\ Sendless(<<Do(op, c), Do(o, c)>>)
  <2>1. Do(o, c) \in Work /\ Do(o, c).op = o
    BY DoWork
  <2> QED BY <1>1, <2>1 DEF Sendless
<1> QED BY <1>1, <1>2 DEF Sendless

\* The steps of a connection bring no send.
LEMMA ConnectionSends ==
  ASSUME TcpInv, NEW l \in Loops, NEW c \in Conns, ConnectionStep(l, c)
  PROVE  \A k \in Loops : Grows(k) /\ NoNewSend(k)
<1> DEFINE Plain == \E work \in Seq(Work), more \in Seq(Work) :
             /\ Sendless(work) /\ Then(l, work)
             /\ Sendless(more) /\ (queue' = queue \/ queue' = Queued(l, more))
<1>1. /\ "user" \in Ops \ {"sendInLoop"} /\ "channelRemove" \in Ops \ {"sendInLoop"}
      /\ "closeCallback" \in Ops \ {"sendInLoop"} /\ "handleClose" \in Ops \ {"sendInLoop"}
      /\ "writeCompleteCallback" \in Ops \ {"sendInLoop"}
      /\ "highWaterMarkCallback" \in Ops \ {"sendInLoop"}
      /\ "shutdownInLoop" \in Ops \ {"sendInLoop"}
  BY DEF Ops, Owning, Raw
<1> DEFINE Fine(s) == s \in Seq(Work) /\ Sendless(s)
<1>2. /\ Fine(<<>>) /\ Fine(<<Do("user", c)>>) /\ Fine(<<Do("channelRemove", c)>>)
      /\ Fine(<<Do("user", c), Do("channelRemove", c)>>)
      /\ Fine(<<Do("user", c), Do("closeCallback", c)>>)
      /\ Fine(<<Do("handleClose", c)>>) /\ Fine(<<Do("shutdownInLoop", c)>>)
      /\ Fine(<<Do("writeCompleteCallback", c)>>) /\ Fine(<<Do("highWaterMarkCallback", c)>>)
      /\ Fine(<<Do("writeCompleteCallback", c), Do("highWaterMarkCallback", c)>>)
  BY <1>1, SendlessWork
<1> HIDE DEF Fine
<1>3. ASSUME NEW work, Fine(work), Then(l, work), NEW more, Fine(more),
             queue' = queue \/ queue' = Queued(l, more)
      PROVE  Plain
  BY <1>3 DEF Fine
<1>4. Plain /\ (\E op : At(l, op, c))
  <2>1. CASE connectEstablished(l, c)
    BY <1>2, <1>3, <2>1 DEF connectEstablished, Runs
  <2>2. CASE connectDestroyed(l, c)
    <3>1. At(l, "connectDestroyed", c) /\ queue' = queue
      BY <2>2 DEF connectDestroyed, Runs
    <3>2. CASE state_[c] = "kConnected"
      BY <1>2, <1>3, <2>2, <3>1, <3>2 DEF connectDestroyed
    <3>3. CASE state_[c] # "kConnected"
      BY <1>2, <1>3, <2>2, <3>1, <3>3 DEF connectDestroyed
    <3> QED BY <3>2, <3>3
  <2>3. CASE channelRemove(l, c)
    BY <1>2, <1>3, <2>3 DEF channelRemove, Runs
  <2>4. CASE handleRead(l, c)
    BY <1>2, <1>3, <2>4 DEF handleRead, Runs
  <2>5. CASE handleClose(l, c)
    BY <1>2, <1>3, <2>5 DEF handleClose, Runs, CloseCallbacks
  <2>6. CASE EventEnd(l, c)
    BY <1>2, <1>3, <2>6 DEF EventEnd, Runs
  <2>7. ASSUME NEW n \in 0..outputBuffer_[c], handleWrite(l, c, n)
        PROVE  Plain /\ (\E op : At(l, op, c))
    <3>1. At(l, "handleWrite", c)
      BY <2>7 DEF handleWrite, Runs
    <3>2. CASE n > 0 /\ n = outputBuffer_[c]
      <4>1. Flushed(l, c)
        BY <2>7, <3>2 DEF handleWrite
      <4>2. Fine(LateShutdown(c))
        BY <1>2 DEF LateShutdown
      <4> QED BY <1>2, <1>3, <3>1, <4>1, <4>2 DEF Flushed
    <3>3. CASE ~(n > 0 /\ n = outputBuffer_[c])
      <4>1. Then(l, <<>>) /\ queue' = queue
        BY <2>7, <3>3 DEF handleWrite
      <4> QED BY <1>2, <1>3, <3>1, <4>1
    <3> QED BY <3>2, <3>3
  <2>8. ASSUME NEW len \in Lens, NEW gone \in BOOLEAN, NEW n \in 0..len, sendInLoop(l, c, n, gone)
        PROVE  Plain /\ (\E op : At(l, op, c))
    <3> DEFINE keep == ~gone /\ Keeps(c, Head(todo[l]).len - n)
               first == IF n = Head(todo[l]).len THEN <<Do("writeCompleteCallback", c)>> ELSE <<>>
               second == IF keep THEN <<Do("highWaterMarkCallback", c)>> ELSE <<>>
    <3>1. At(l, "sendInLoop", c) /\ Then(l, <<>>) /\ queue' = Queued(l, first \o second)
      BY <2>8 DEF sendInLoop, Runs
    <3>2. Fine(first \o second)
      <4>1. Fine(first) /\ Fine(second)
        BY <1>2
      <4> HIDE DEF first, second
      <4> QED BY <4>1, SendlessConcat DEF Fine
    <3> HIDE DEF first, second
    <3> QED BY <1>2, <1>3, <3>1, <3>2
  <2>9. CASE SendDisconnected(l, c)
    BY <1>2, <1>3, <2>9 DEF SendDisconnected, Runs
  <2>10. CASE shutdownInLoop(l, c)
    BY <1>2, <1>3, <2>10 DEF shutdownInLoop, Runs
  <2>11. CASE forceCloseInLoop(l, c)
    <3>1. Fine(IF Closable(c) THEN <<Do("handleClose", c)>> ELSE <<>>)
      BY <1>2
    <3> QED BY <1>2, <1>3, <2>11, <3>1 DEF forceCloseInLoop, Runs
  <2>12. CASE startReadInLoop(l, c)
    BY <1>2, <1>3, <2>12 DEF startReadInLoop, Runs
  <2>13. CASE stopReadInLoop(l, c)
    BY <1>2, <1>3, <2>13 DEF stopReadInLoop, Runs
  <2>14. CASE Notify(l, c)
    BY <1>2, <1>3, <2>14 DEF Notify, Runs
  <2>15. CASE UserReturns(l, c)
    BY <1>2, <1>3, <2>15 DEF UserReturns, Runs
  <2> QED BY <2>1, <2>2, <2>3, <2>4, <2>5, <2>6, <2>7, <2>8, <2>9, <2>10, <2>11, <2>12, <2>13,
             <2>14, <2>15 DEF ConnectionStep
<1>5. todo[l] # <<>>
  BY <1>4 DEF At
<1>6. PICK work \in Seq(Work), more \in Seq(Work) :
             /\ Sendless(work) /\ Then(l, work)
             /\ Sendless(more) /\ (queue' = queue \/ queue' = Queued(l, more))
  BY <1>4
<1>7. \A k \in Loops : NoNewSend(k)
  BY <1>5, <1>6, ThenSends
<1>8. \A k \in Loops : Grows(k)
  BY <1>6, QueuedSends, SameSends
<1> QED BY <1>7, <1>8

\* What callbacks call on the spot, a send apart, brings no send.
LEMMA UserSends ==
  ASSUME TcpInv, NEW l \in Loops, NEW c \in Conns,
         \/ UserShutdown(l, c) \/ UserForceClose(l, c) \/ UserForceCloseWithDelay(l, c)
         \/ \E call \in {"startRead", "stopRead"} : UserReadCall(l, c, call)
         \/ \E t \in Threads : HandOver(l, c, t)
  PROVE  \A k \in Loops : Grows(k) /\ NoNewSend(k)
<1>1. /\ "shutdownInLoop" \in Ops \ {"sendInLoop"} /\ "forceCloseInLoop" \in Ops \ {"sendInLoop"}
      /\ "startReadInLoop" \in Ops \ {"sendInLoop"} /\ "stopReadInLoop" \in Ops \ {"sendInLoop"}
  BY DEF Ops, Owning, Raw
<1>2. CASE UserShutdown(l, c)
  <2>1. Now(l, <<Do("shutdownInLoop", c)>>) /\ queue' = queue
    BY <1>2 DEF UserShutdown
  <2> QED BY <1>1, <2>1, SendlessWork, NowSends, SameSends
<1>3. CASE UserForceClose(l, c)
  <2>1. queue' = Queued(l, <<Do("forceCloseInLoop", c)>>) /\ todo' = todo
    BY <1>3 DEF UserForceClose
  <2> QED BY <1>1, <2>1, SendlessWork, QueuedSends, SameSends
<1>4. CASE UserForceCloseWithDelay(l, c)
  BY <1>4, SameSends DEF UserForceCloseWithDelay
<1>5. ASSUME NEW call \in {"startRead", "stopRead"}, UserReadCall(l, c, call)
      PROVE  \A k \in Loops : Grows(k) /\ NoNewSend(k)
  <2>1. PICK op \in Ops \ {"sendInLoop"} : Now(l, <<Do(op, c)>>) /\ queue' = queue
    BY <1>1, <1>5 DEF UserReadCall
  <2> QED BY <2>1, SendlessWork, NowSends, SameSends
<1>6. ASSUME NEW t \in Threads, HandOver(l, c, t)
      PROVE  \A k \in Loops : Grows(k) /\ NoNewSend(k)
  BY <1>6, SameSends DEF HandOver
<1> QED BY <1>2, <1>3, <1>4, <1>5, <1>6

\* send() in a callback: the connection is up, so the server has it.
LEMMA UserSendSends ==
  ASSUME TcpInv, SendInv, TcpInv', NEW l \in Loops, NEW c \in Conns, NEW len \in Lens,
         UserSend(l, c, len), UNCHANGED serverVars
  PROVE  SendInv'
<1>1. /\ At(l, "user", c) /\ state_[c] = "kConnected" /\ todo' = [todo EXCEPT ![l] = <<Send(c, len)>> \o @]
      /\ queue' = queue /\ late' = late /\ connections_' = connections_
  BY DEF UserSend, UserCalling, Now, threadVars, serverVars
<1>2. c \in connections_
  <2>1. todo[l] # <<>> /\ todo[l][1].op = "user" /\ todo[l][1].conn = c
    BY <1>1, AtTop
  <2> QED BY <1>1, <2>1, UpIsOwned DEF Closable
<1>3. /\ todo \in [Loops -> Seq(Work)] /\ todo[l] \in Seq(Work)
      /\ Send(c, len).op = "sendInLoop" /\ Send(c, len).conn = c
  BY Typed DEF Send
<1>4. ASSUME NEW d \in Conns, d # c, NEW k \in Loops, NEW j \in DOMAIN todo'[k],
             IsSend(todo'[k][j], d)
      PROVE  \E i \in DOMAIN todo[k] : IsSend(todo[k][i], d)
  <2>1. CASE k # l
    BY <1>1, <1>3, <1>4, <2>1
  <2>2. CASE k = l
    <3>1. todo'[l] = <<Send(c, len)>> \o todo[l]
      BY <1>1, <1>3
    <3>2. /\ DOMAIN todo[l] = 1..Len(todo[l]) /\ Len(todo[l]) \in Nat
          /\ DOMAIN todo'[l] = 1..(Len(todo[l]) + 1)
          /\ todo'[l][1] = Send(c, len)
          /\ \A i \in 1..Len(todo[l]) : todo'[l][i + 1] = todo[l][i]
      BY <1>3, <3>1
    <3>3. j # 1
      BY <1>3, <1>4, <2>2, <3>2 DEF IsSend
    <3>4. j - 1 \in DOMAIN todo[l] /\ todo'[l][j] = todo[l][j - 1]
      BY <2>2, <3>2, <3>3
    <3> QED BY <1>4, <2>2, <3>4
  <2> QED BY <2>1, <2>2
<1> SUFFICES ASSUME NEW d \in Conns, d \notin late', d \notin connections_', NEW k \in Loops
             PROVE  /\ \A j \in DOMAIN queue'[k] : IsSend(queue'[k][j], d) =>
                         \E i \in DOMAIN queue'[k] : j < i /\ IsDestroy(queue'[k][i], d)
                    /\ \A j \in DOMAIN todo'[k] : IsSend(todo'[k][j], d) =>
                         \E i \in DOMAIN queue'[k] : IsDestroy(queue'[k][i], d)
  BY DEF SendInv, IsSend, IsDestroy
<1>5. /\ \A j \in DOMAIN queue[k] : IsSend(queue[k][j], d) =>
           \E i \in DOMAIN queue[k] : j < i /\ IsDestroy(queue[k][i], d)
      /\ \A j \in DOMAIN todo[k] : IsSend(todo[k][j], d) =>
           \E i \in DOMAIN queue[k] : IsDestroy(queue[k][i], d)
  BY <1>1 DEF SendInv
<1>6. d # c
  BY <1>1, <1>2
<1> QED BY <1>1, <1>4, <1>5, <1>6

\* send() of another thread: the server has the connection, or the thread was late.
LEMMA ThreadSendSends ==
  ASSUME TcpInv, SendInv, TcpInv', NEW t \in Threads, NEW len \in Lens, NEW c \in Conns,
         tpc[t].conn = c, ThreadSend(t, len, c \in connections_, TRUE), UNCHANGED serverVars
  PROVE  SendInv'
<1> DEFINE w == Send(c, len)
<1>1. /\ queue' = [queue EXCEPT ![loop_[c]] = @ \o <<w>>] /\ todo' = todo
      /\ connections_' = connections_
      /\ late' = IF c \in connections_ \/ w.op \in Owning THEN late ELSE late \union {c}
  BY DEF ThreadSend, ThreadQueue, Queued, Send, serverVars
<1>2. w.op = "sendInLoop" /\ w.conn = c /\ w.op \notin Owning
  BY DEF Send, Owning
<1>3. c \in late' \/ c \in connections_'
  BY <1>1, <1>2
<1>4. queue \in [Loops -> Seq(Work)] /\ loop_[c] \in Loops /\ w \in Work
  BY Typed DEF Send, Work, Raw
<1> HIDE DEF w
<1> SUFFICES ASSUME NEW d \in Conns, d \notin late', d \notin connections_', NEW k \in Loops
             PROVE  /\ \A j \in DOMAIN queue'[k] : IsSend(queue'[k][j], d) =>
                         \E i \in DOMAIN queue'[k] : j < i /\ IsDestroy(queue'[k][i], d)
                    /\ \A j \in DOMAIN todo'[k] : IsSend(todo'[k][j], d) =>
                         \E i \in DOMAIN queue'[k] : IsDestroy(queue'[k][i], d)
  BY DEF SendInv, IsSend, IsDestroy
<1>5. /\ \A j \in DOMAIN queue[k] : IsSend(queue[k][j], d) =>
           \E i \in DOMAIN queue[k] : j < i /\ IsDestroy(queue[k][i], d)
      /\ \A j \in DOMAIN todo[k] : IsSend(todo[k][j], d) =>
           \E i \in DOMAIN queue[k] : IsDestroy(queue[k][i], d)
  <2>1. d \notin late /\ d \notin connections_
    BY <1>1
  <2> QED BY <2>1 DEF SendInv
<1>6. d # c
  BY <1>3
<1>7. CASE k # loop_[c]
  BY <1>1, <1>4, <1>5, <1>7
<1>8. CASE k = loop_[c]
  <2>1. /\ queue'[k] = queue[k] \o <<w>> /\ queue[k] \in Seq(Work)
    BY <1>1, <1>4, <1>8
  <2>2. /\ DOMAIN queue[k] = 1..Len(queue[k]) /\ Len(queue[k]) \in Nat
        /\ DOMAIN queue'[k] = 1..(Len(queue[k]) + 1)
        /\ queue'[k][Len(queue[k]) + 1] = w
        /\ \A i \in DOMAIN queue[k] : i \in DOMAIN queue'[k] /\ queue'[k][i] = queue[k][i]
    BY <1>4, <2>1
  <2>3. ASSUME NEW j \in DOMAIN queue'[k], IsSend(queue'[k][j], d)
        PROVE  j \in DOMAIN queue[k]
    <3>1. j # Len(queue[k]) + 1
      BY <1>2, <1>6, <2>2, <2>3 DEF IsSend
    <3> QED BY <2>2, <3>1
  <2> QED BY <1>1, <1>5, <2>2, <2>3
<1> QED BY <1>7, <1>8

\* The functor at the head of a queue is started: what is behind stays behind.
LEMMA RunFunctorSends ==
  ASSUME TcpInv, SendInv, TcpInv', NEW l \in Loops, RunFunctor(l), UNCHANGED serverVars
  PROVE  SendInv'
<1>1. /\ todo[l] = <<>> /\ queue[l] # <<>>
      /\ todo' = [todo EXCEPT ![l] = <<Head(queue[l])>>] /\ queue' = [queue EXCEPT ![l] = Tail(@)]
      /\ late' = late /\ connections_' = connections_
  BY DEF RunFunctor, threadVars, serverVars
<1>2. todo \in [Loops -> Seq(Work)] /\ queue \in [Loops -> Seq(Work)] /\ queue[l] \in Seq(Work)
  BY Typed
<1> SUFFICES ASSUME NEW d \in Conns, d \notin late', d \notin connections_', NEW k \in Loops
             PROVE  /\ \A j \in DOMAIN queue'[k] : IsSend(queue'[k][j], d) =>
                         \E i \in DOMAIN queue'[k] : j < i /\ IsDestroy(queue'[k][i], d)
                    /\ \A j \in DOMAIN todo'[k] : IsSend(todo'[k][j], d) =>
                         \E i \in DOMAIN queue'[k] : IsDestroy(queue'[k][i], d)
  BY DEF SendInv, IsSend, IsDestroy
<1>3. /\ \A j \in DOMAIN queue[k] : IsSend(queue[k][j], d) =>
           \E i \in DOMAIN queue[k] : j < i /\ IsDestroy(queue[k][i], d)
      /\ \A j \in DOMAIN todo[k] : IsSend(todo[k][j], d) =>
           \E i \in DOMAIN queue[k] : IsDestroy(queue[k][i], d)
  BY <1>1 DEF SendInv
<1>4. CASE k # l
  BY <1>1, <1>2, <1>3, <1>4
<1>5. CASE k = l
  <2>1. /\ queue'[l] = Tail(queue[l]) /\ todo'[l] = <<queue[l][1]>>
        /\ DOMAIN queue[l] = 1..Len(queue[l]) /\ Len(queue[l]) \in Nat \ {0}
        /\ DOMAIN queue'[l] = 1..(Len(queue[l]) - 1)
        /\ DOMAIN todo'[l] = {1} /\ todo'[l][1] = queue[l][1]
        /\ \A i \in 1..(Len(queue[l]) - 1) : queue'[l][i] = queue[l][i + 1]
    BY <1>1, <1>2
  <2>2. ASSUME NEW i \in DOMAIN queue[l], 1 < i
        PROVE  i - 1 \in DOMAIN queue'[l] /\ queue'[l][i - 1] = queue[l][i]
    BY <2>1, <2>2
  <2>3. ASSUME NEW j \in DOMAIN queue'[l], IsSend(queue'[l][j], d)
        PROVE  \E i \in DOMAIN queue'[l] : j < i /\ IsDestroy(queue'[l][i], d)
    <3>1. j + 1 \in DOMAIN queue[l] /\ queue[l][j + 1] = queue'[l][j] /\ j \in Nat \ {0}
      BY <2>1
    <3>2. PICK i \in DOMAIN queue[l] : j + 1 < i /\ IsDestroy(queue[l][i], d)
      BY <1>3, <1>5, <2>3, <3>1
    <3>3. i \in Nat /\ 1 < i /\ j < i - 1
      BY <2>1, <3>1, <3>2
    <3> QED BY <2>2, <3>2, <3>3
  <2>4. ASSUME IsSend(todo'[l][1], d)
        PROVE  \E i \in DOMAIN queue'[l] : IsDestroy(queue'[l][i], d)
    <3>1. 1 \in DOMAIN queue[l]
      BY <2>1
    <3>2. PICK i \in DOMAIN queue[l] : 1 < i /\ IsDestroy(queue[l][i], d)
      BY <1>3, <1>5, <2>1, <2>4, <3>1
    <3> QED BY <2>2, <3>2
  <2> QED BY <1>5, <2>1, <2>3, <2>4
<1> QED BY <1>4, <1>5

\* The server lets go of a connection: connectDestroyed comes behind all that waits.
LEMMA RemoveConnectionInLoopSends ==
  ASSUME TcpInv, SendInv, TcpInv', NEW c \in Conns, removeConnectionInLoop(c)
  PROVE  SendInv'
<1> DEFINE w == Do("connectDestroyed", c)
           m == loop_[c]
<1>1. /\ At(base, "removeConnectionInLoop", c) /\ connections_' = connections_ \ {c}
      /\ queue' = Queued(m, <<w>>) /\ Then(base, <<>>) /\ late' = late
  BY DEF removeConnectionInLoop, Runs, QueueDestroy, DestroyWork, threadVars
<1>2. /\ w \in Work /\ w.op = "connectDestroyed" /\ w.conn = c
      /\ <<w>> \in Seq(Work) /\ Sendless(<<w>>) /\ <<>> \in Seq(Work) /\ Sendless(<<>>)
  BY DoWork, SendlessWork DEF Ops, Owning
<1>3. base \in Loops /\ m \in Loops /\ queue \in [Loops -> Seq(Work)]
  BY Typed
<1> HIDE DEF w, m
<1>4. \A k \in Loops : NoNewSend(k)
  <2>1. todo[base] # <<>>
    BY <1>1, <1>3 DEF At
  <2> QED BY <1>1, <1>2, <1>3, <2>1, ThenSends
<1>5. /\ queue'[m] = queue[m] \o <<w>> /\ queue[m] \in Seq(Work)
      /\ \A k \in Loops : k # m => queue'[k] = queue[k]
  BY <1>1, <1>3 DEF Queued
<1>6. /\ DOMAIN queue[m] = 1..Len(queue[m]) /\ Len(queue[m]) \in Nat
      /\ DOMAIN queue'[m] = 1..(Len(queue[m]) + 1)
      /\ queue'[m][Len(queue[m]) + 1] = w
      /\ \A i \in DOMAIN queue[m] : i \in DOMAIN queue'[m] /\ queue'[m][i] = queue[m][i]
  BY <1>2, <1>5
<1> SUFFICES ASSUME NEW d \in Conns, d \notin late', d \notin connections_', NEW k \in Loops
             PROVE  /\ \A j \in DOMAIN queue'[k] : IsSend(queue'[k][j], d) =>
                         \E i \in DOMAIN queue'[k] : j < i /\ IsDestroy(queue'[k][i], d)
                    /\ \A j \in DOMAIN todo'[k] : IsSend(todo'[k][j], d) =>
                         \E i \in DOMAIN queue'[k] : IsDestroy(queue'[k][i], d)
  BY DEF SendInv, IsSend, IsDestroy
<1>7. CASE d = c
  <2>1. ASSUME k # m
        PROVE  /\ \A j \in DOMAIN queue[k] : ~IsSend(queue[k][j], c)
               /\ \A j \in DOMAIN todo[k] : ~IsSend(todo[k][j], c)
    <3>1. \A j \in DOMAIN queue[k] : queue[k][j].op = "sendInLoop" => k = loop_[queue[k][j].conn]
      BY FoundQueued DEF Home
    <3>2. \A j \in DOMAIN todo[k] : todo[k][j].op = "sendInLoop" => k = loop_[todo[k][j].conn]
      BY Found DEF Home
    <3> QED BY <2>1, <3>1, <3>2 DEF IsSend, m
  <2>2. CASE k # m
    <3>1. \A j \in DOMAIN todo'[k] : ~IsSend(todo'[k][j], c)
      BY <1>4, <2>1, <2>2 DEF NoNewSend, IsSend
    <3> QED BY <1>5, <1>7, <2>1, <2>2, <3>1
  <2>3. CASE k = m
    <3>1. Len(queue[m]) + 1 \in DOMAIN queue'[m] /\ IsDestroy(queue'[m][Len(queue[m]) + 1], c)
      BY <1>2, <1>6 DEF IsDestroy
    <3>2. ASSUME NEW j \in DOMAIN queue'[m], IsSend(queue'[m][j], c)
          PROVE  j < Len(queue[m]) + 1
      <4>1. j # Len(queue[m]) + 1
        BY <1>2, <1>6, <3>2 DEF IsSend
      <4> QED BY <1>6, <4>1
    <3> QED BY <1>7, <2>3, <3>1, <3>2
  <2> QED BY <2>2, <2>3
<1>8. CASE d # c
  <2>1. /\ \A j \in DOMAIN queue[k] : IsSend(queue[k][j], d) =>
             \E i \in DOMAIN queue[k] : j < i /\ IsDestroy(queue[k][i], d)
        /\ \A j \in DOMAIN todo[k] : IsSend(todo[k][j], d) =>
             \E i \in DOMAIN queue[k] : IsDestroy(queue[k][i], d)
    <3>1. d \notin late /\ d \notin connections_
      BY <1>1, <1>8
    <3> QED BY <3>1 DEF SendInv
  <2>2. \A i \in DOMAIN queue[k] : i \in DOMAIN queue'[k] /\ queue'[k][i] = queue[k][i]
    BY <1>5, <1>6
  <2>3. ASSUME NEW j \in DOMAIN queue'[k], IsSend(queue'[k][j], d) PROVE j \in DOMAIN queue[k]
    <3>1. CASE k # m
      BY <1>5, <2>3, <3>1
    <3>2. CASE k = m
      <4>1. j # Len(queue[m]) + 1
        BY <1>2, <1>6, <2>3, <3>2 DEF IsSend
      <4> QED BY <1>6, <2>3, <3>2, <4>1
    <3> QED BY <3>1, <3>2
  <2>4. ASSUME NEW j \in DOMAIN todo'[k], IsSend(todo'[k][j], d)
        PROVE  \E i \in DOMAIN todo[k] : IsSend(todo[k][i], d)
    BY <1>4, <2>4 DEF NoNewSend, IsSend
  <2> QED BY <2>1, <2>2, <2>3, <2>4
<1> QED BY <1>7, <1>8

\* Other steps that bring no send.
LEMMA OtherSends ==
  ASSUME TcpInv, NEW l \in Loops, NEW c \in Conns,
         \/ removeConnection(l, c) \/ newConnection(c)
         \/ \E revents \in Events : HandleEvent(l, c, revents)
         \/ TimerFires(l, c, c \in connections_)
         \/ \E t \in Threads : ThreadTest(t, c, "send") \/ Drop(t, c)
  PROVE  \A k \in Loops : Grows(k) /\ NoNewSend(k)
<1>1. /\ "removeConnectionInLoop" \in Ops \ {"sendInLoop"}
      /\ "connectEstablished" \in Ops \ {"sendInLoop"} /\ "forceCloseInLoop" \in Ops \ {"sendInLoop"}
  BY DEF Ops, Owning, Raw
<1>2. base \in Loops /\ <<>> \in Seq(Work) /\ Sendless(<<>>)
  BY <1>1, SendlessWork, Typed
<1>3. CASE removeConnection(l, c)
  <2>1. todo[l] # <<>>
    BY <1>3 DEF removeConnection, Runs, At
  <2>2. CASE l = base
    <3>1. Then(l, <<Do("removeConnectionInLoop", c)>>) /\ queue' = queue
      BY <1>3, <2>2 DEF removeConnection
    <3> QED BY <1>1, <2>1, <3>1, SendlessWork, ThenSends, SameSends
  <2>3. CASE l # base
    <3>1. Then(l, <<>>) /\ queue' = Queued(base, <<Do("removeConnectionInLoop", c)>>)
      BY <1>3, <2>3 DEF removeConnection
    <3> QED BY <1>1, <1>2, <2>1, <3>1, SendlessWork, ThenSends, QueuedSends
  <2> QED BY <2>2, <2>3
<1>4. CASE newConnection(c)
  <2>1. PICK m \in Loops : RunInLoop(base, m, <<Do("connectEstablished", c)>>)
    BY <1>4, NextLoop DEF newConnection
  <2>2. CASE m = base
    <3>1. Now(m, <<Do("connectEstablished", c)>>) /\ queue' = queue
      BY <2>1, <2>2 DEF RunInLoop
    <3> QED BY <1>1, <3>1, SendlessWork, NowSends, SameSends
  <2>3. CASE m # base
    <3>1. todo' = todo /\ queue' = Queued(m, <<Do("connectEstablished", c)>>)
      BY <2>1, <2>3 DEF RunInLoop
    <3> QED BY <1>1, <3>1, SendlessWork, QueuedSends, SameSends
  <2> QED BY <2>2, <2>3
<1>5. ASSUME NEW revents \in Events, HandleEvent(l, c, revents)
      PROVE  \A k \in Loops : Grows(k) /\ NoNewSend(k)
  <2>1. PICK s \in Seq(Work) : /\ todo' = [todo EXCEPT ![l] = s]
                               /\ \A i \in DOMAIN s : s[i].op \in Handlers
    BY <1>5, EventTodo
  <2>2. todo'[l] = s /\ (\A k \in Loops : k # l => todo'[k] = todo[k]) /\ queue' = queue
    BY <1>5, <2>1, Typed DEF HandleEvent
  <2>3. NoNewSend(l)
    BY <2>1, <2>2 DEF NoNewSend, Handlers
  <2> QED BY <2>2, <2>3, SameSends
<1>6. CASE TimerFires(l, c, c \in connections_)
  <2>1. todo' = todo /\ (queue' = queue \/ queue' = Queued(l, <<Do("forceCloseInLoop", c)>>))
    BY <1>6 DEF TimerFires
  <2> QED BY <1>1, <2>1, SendlessWork, QueuedSends, SameSends
<1>7. ASSUME NEW t \in Threads, ThreadTest(t, c, "send") \/ Drop(t, c)
      PROVE  \A k \in Loops : Grows(k) /\ NoNewSend(k)
  <2>1. todo' = todo /\ queue' = queue
    BY <1>7 DEF ThreadTest, Drop
  <2> QED BY <2>1, SameSends
<1> QED BY <1>3, <1>4, <1>5, <1>6, <1>7

\* No send waits for a connection that is gone, unless a thread was late.
LEMMA NoSendForGone ==
  ASSUME TcpInv, SendInv, NEW c \in Conns, c \notin late, object[c] # "live", NEW l \in Loops
  PROVE  /\ \A j \in DOMAIN queue[l] : ~IsSend(queue[l][j], c)
         /\ \A j \in DOMAIN todo[l] : ~IsSend(todo[l][j], c)
<1>1. c \notin connections_
  BY DEF TcpInv, ConnInv, Owned
<1>2. \A i \in DOMAIN queue[l] : ~IsDestroy(queue[l][i], c)
  BY FoundQueued DEF IsDestroy
<1> QED BY <1>1, <1>2 DEF SendInv

\* ~TcpServer, in a quiet state.
LEMMA DeleteServerSends ==
  ASSUME TcpInv, SendInv, TcpInv', DeleteServer, QuietEnough
  PROVE  SendInv'
<1>1. connections_' = {} /\ late' = late /\ base \in Loops
  BY Typed DEF DeleteServer, threadVars
<1>2. CASE numThreads_ # 0
  <2>1. connections_ = {}
    <3>1. numThreads_ > 0
      BY <1>2 DEF TcpInv, ServerTypeOK
    <3> QED BY <3>1 DEF QuietEnough, TcpInv, ConnInv, Owned, ServerTypeOK
  <2>2. todo' = todo /\ queue' = queue
    BY <1>2, <2>1, QueuesKept
  <2> QED BY <1>1, <2>1, <2>2, SendsKept, SameSends
<1>3. CASE numThreads_ = 0
  <2>1. PICK work \in DestroyAll(connections_) : Now(base, work)
    BY <1>3 DEF DeleteServer
  <2>2. work \in Seq(Work) /\ Sendless(work) /\ queue' = queue
    BY <1>3, DestroyWorks DEF DeleteServer, Sendless
  <2>3. \A k \in Loops : NoNewSend(k)
    BY <1>1, <2>1, <2>2, NowSends
  <2>4. ASSUME NEW d \in connections_, NEW k \in Loops
        PROVE  /\ \A j \in DOMAIN queue[k] : ~IsSend(queue[k][j], d)
               /\ \A j \in DOMAIN todo[k] : ~IsSend(todo[k][j], d)
    <3>1. d \in Conns
      BY DEF TcpInv, ServerTypeOK
    <3>2. loop_[d] = base
      BY <1>3, <3>1 DEF TcpInv, ConnInv, Owned, Stage
    <3>3. CASE k # base
      <4>1. \A j \in DOMAIN queue[k] : queue[k][j].op = "sendInLoop" => k = loop_[queue[k][j].conn]
        BY FoundQueued DEF Home
      <4>2. \A j \in DOMAIN todo[k] : todo[k][j].op = "sendInLoop" => k = loop_[todo[k][j].conn]
        BY Found DEF Home
      <4> QED BY <3>2, <3>3, <4>1, <4>2 DEF IsSend
    <3>4. CASE k = base
      <4>1. todo[base] = <<>>
        BY DEF QuietEnough
      <4>2. \A j \in DOMAIN queue[base] : ~IsSend(queue[base][j], d)
        BY DEF QuietEnough, Range, Raw, IsSend
      <4> QED BY <3>4, <4>1, <4>2
    <3> QED BY <3>3, <3>4
  <2> SUFFICES ASSUME NEW d \in Conns, d \notin late', NEW k \in Loops
               PROVE  /\ \A j \in DOMAIN queue'[k] : IsSend(queue'[k][j], d) =>
                           \E i \in DOMAIN queue'[k] : j < i /\ IsDestroy(queue'[k][i], d)
                      /\ \A j \in DOMAIN todo'[k] : IsSend(todo'[k][j], d) =>
                           \E i \in DOMAIN queue'[k] : IsDestroy(queue'[k][i], d)
    BY DEF SendInv, IsSend, IsDestroy
  <2>5. ASSUME NEW j \in DOMAIN todo'[k], IsSend(todo'[k][j], d)
        PROVE  \E i \in DOMAIN todo[k] : IsSend(todo[k][i], d)
    BY <2>3, <2>5 DEF NoNewSend, IsSend
  <2>6. CASE d \in connections_
    BY <2>2, <2>4, <2>5, <2>6
  <2>7. CASE d \notin connections_
    <3>1. /\ \A j \in DOMAIN queue[k] : IsSend(queue[k][j], d) =>
               \E i \in DOMAIN queue[k] : j < i /\ IsDestroy(queue[k][i], d)
          /\ \A j \in DOMAIN todo[k] : IsSend(todo[k][j], d) =>
               \E i \in DOMAIN queue[k] : IsDestroy(queue[k][i], d)
      BY <1>1, <2>7 DEF SendInv
    <3> QED BY <2>2, <2>5, <3>1
  <2> QED BY <2>6, <2>7
<1> QED BY <1>2, <1>3

\* A loop of the pool ends after the last connection is gone; what is thrown away with
\* its queue are late sends.
LEMMA EndLoopStep ==
  ASSUME TcpInv, SendInv, PoolInv, NEW l \in Loops, EndLoop(l)
  PROVE  TcpInv' /\ SendInv'
<1>1. /\ ~serverUp /\ l \in 1..numThreads_ /\ todo[l] = <<>>
      /\ ended' = ended \union {l} /\ queue' = [queue EXCEPT ![l] = <<>>]
      /\ UNCHANGED <<object, state_, reading_, outputBuffer_, events, added, finSent, ups, downs,
                     loop_, timers, todo, tpc, held, late, calls, aborted, numThreads_,
                     connections_, next_, serverUp, hasty>>
  BY DEF EndLoop, Joining, connVars, threadVars
<1>2. \A c \in Conns : object[c] # "live"
  <2>1. numThreads_ > 0
    BY <1>1 DEF TcpInv, ServerTypeOK
  <2> QED BY <1>1, <2>1 DEF PoolInv
<1>3. /\ queue' \in [Loops -> Seq(Work)] /\ queue'[l] = <<>>
      /\ \A k \in Loops : k # l => queue'[k] = queue[k]
  <2>1. <<>> \in Seq(Work)
    OBVIOUS
  <2> QED BY <1>1, <2>1, Typed
<1>4. ServerTypeOK' /\ Calm' /\ IsFiniteSet(connections_)'
  BY <1>1, <1>3 DEF TcpInv, ServerTypeOK, TypeOK, Calm
<1>5. \A t \in Threads : ThreadInv(t)'
  BY <1>1 DEF TcpInv, ThreadInv
<1>6. ASSUME NEW k \in Loops PROVE LoopInv(k)'
  <2>1. Order(queue[k]) /\ Order(<<>>)
    BY DEF TcpInv, LoopInv, Order
  <2>2. Order(queue'[k]) /\ todo'[k] = todo[k]
    BY <1>1, <1>3, <2>1
  <2> QED BY <1>1, <2>2, StaysPut
<1>7. ASSUME NEW c \in Conns PROVE ConnInv(c)'
  <2>1. ConnInv(c) /\ object'[c] # "live" /\ c \notin connections_'
    BY <1>1, <1>2 DEF TcpInv, ConnInv, Owned
  <2>2. ASSUME NEW k \in Loops, NEW op \in Ops
        PROVE  /\ Num(todo'[k], op, c) = Num(todo[k], op, c) /\ Num(todo[k], op, c) \in Nat
               /\ Num(queue'[k], op, c) \in {0, Num(queue[k], op, c)} /\ Num(queue[k], op, c) \in Nat
    <3>1. Num(<<>>, op, c) = 0
      <4>1. <<>> \in Seq(Work)
        OBVIOUS
      <4> QED BY <4>1, NumFacts
    <3> QED BY <1>1, <1>3, <3>1, Typed
  <2>3. AtHome(c)'
    <3> SUFFICES ASSUME NEW k \in Loops, NEW op \in Ops
                 PROVE  /\ Wait(k, op, c)' > 0 =>
                             /\ k = Home(op, c)' /\ (object'[c] = "live" \/ op = "sendInLoop")
                             /\ op # "connectEstablished" => state_'[c] # "kConnecting"
                        /\ op \notin Functors => Num(queue'[k], op, c) = 0
      BY DEF AtHome
    <3>1. Wait(k, op, c)' > 0 => Wait(k, op, c) > 0
      BY <2>2 DEF Wait
    <3>2. Home(op, c)' = Home(op, c) /\ state_' = state_ /\ object' = object
      BY <1>1 DEF Home, base
    <3> QED BY <2>1, <2>2, <3>1, <3>2 DEF ConnInv, AtHome
  <2>4. Traffic(c)'
    BY <1>1, <2>1 DEF ConnInv, Traffic, Closable
  <2>5. Owned(c)' /\ Released(c)'
    BY <2>1 DEF Owned, Released
  <2>6. Stage(c)' /\ Holding(c)'
    BY <1>1, <1>2, <2>1 DEF ConnInv, Stage, Holding
  <2> QED BY <2>3, <2>4, <2>5, <2>6 DEF ConnInv
<1>8. TcpInv'
  BY <1>4, <1>5, <1>6, <1>7 DEF TcpInv
<1>9. SendInv'
  <2> SUFFICES ASSUME NEW c \in Conns, c \notin late', NEW k \in Loops
               PROVE  /\ \A j \in DOMAIN queue'[k] : ~IsSend(queue'[k][j], c)
                      /\ \A j \in DOMAIN todo'[k] : ~IsSend(todo'[k][j], c)
    BY DEF SendInv, IsSend, IsDestroy
  <2>1. /\ \A j \in DOMAIN queue[k] : ~IsSend(queue[k][j], c)
        /\ \A j \in DOMAIN todo[k] : ~IsSend(todo[k][j], c)
    BY <1>1, <1>2, NoSendForGone
  <2>2. queue'[k] = <<>> \/ queue'[k] = queue[k]
    BY <1>3
  <2> QED BY <1>1, <2>1, <2>2
<1> QED BY <1>8, <1>9

-----------------------------------------------------------------------------
(* The theorems.                                                           *)

\* The properties in a state that the invariant describes.
LEMMA Consequences ==
  ASSUME TcpInv, SendInv
  PROVE  WritingIffBuffered /\ ShutdownAfterFlush /\ UpThenDown /\ NoDanglingFunctor
<1>1. WritingIffBuffered
  <2> SUFFICES ASSUME NEW c \in Conns, object[c] = "live", state_[c] # "kDisconnected"
               PROVE  "write" \in events[c] <=> outputBuffer_[c] > 0
    BY DEF WritingIffBuffered
  <2>1. Traffic(c)
    BY DEF TcpInv, ConnInv
  <2>2. CASE Closable(c)
    BY <2>1, <2>2 DEF Traffic
  <2>3. CASE ~Closable(c)
    <3>1. state_[c] = "kConnecting"
      BY <2>3, Typed DEF Closable
    <3> QED BY <2>1, <2>3, <3>1 DEF Traffic
  <2> QED BY <2>2, <2>3
<1>2. ShutdownAfterFlush
  BY DEF TcpInv, ConnInv, Traffic, ShutdownAfterFlush
<1>3. UpThenDown
  <2> SUFFICES ASSUME NEW c \in Conns
               PROVE  /\ ups[c] <= 1 /\ downs[c] <= ups[c]
                      /\ downs[c] = 1 <=> ups[c] = 1 /\ state_[c] = "kDisconnected"
                      /\ object[c] = "freed" => downs[c] = 1
    BY DEF UpThenDown
  <2>1. /\ ups[c] = IF state_[c] = "kConnecting" THEN 0 ELSE 1
        /\ downs[c] = IF state_[c] = "kDisconnected" THEN 1 ELSE 0
        /\ object[c] = "freed" => state_[c] = "kDisconnected"
    BY DEF TcpInv, ConnInv, Traffic, Stage
  <2> QED BY <2>1
<1>4. NoDanglingFunctor
  <2> SUFFICES ASSUME NEW l \in Loops, NEW w \in Waiting(l), object[w.conn] # "live"
               PROVE  w.conn \in late
    BY DEF NoDanglingFunctor
  <2>1. CASE \E i \in DOMAIN todo[l] : w = todo[l][i]
    <3>1. w.conn \in Conns /\ IsSend(w, w.conn)
      BY <2>1, Found DEF IsSend
    <3> QED BY <2>1, <3>1, NoSendForGone
  <2>2. CASE \E i \in DOMAIN queue[l] : w = queue[l][i]
    <3>1. w.conn \in Conns /\ IsSend(w, w.conn)
      BY <2>2, FoundQueued DEF IsSend
    <3> QED BY <2>2, <3>1, NoSendForGone
  <2> QED BY <2>1, <2>2 DEF Waiting, Range
<1> QED BY <1>1, <1>2, <1>3, <1>4

\* As long as no late functor has run, after a quiet deletion too.
Sound == TcpInv /\ SendInv /\ PoolInv /\ ~hasty

\* A late functor has found its connection freed, and the program ended.
Burnt ==
  /\ aborted = "UseAfterFree" /\ \E c \in late : object[c] = "freed"
  /\ WritingIffBuffered /\ ShutdownAfterFlush /\ UpThenDown /\ NoDanglingFunctor

\* The server was deleted in a state that is not quiet.
Forfeited == hasty /\ ~serverUp

ServerInv == Sound \/ Burnt \/ Forfeited

\* The loop of a connection is there.
LEMMA NobodyEnded ==
  ASSUME Sound, NEW c \in Conns, object[c] = "live"
  PROVE  ended = {}
<1>1. ended # {} => numThreads_ > 0
  <2>1. numThreads_ \in Nat /\ ended \subseteq 1..numThreads_
    BY ServerAssumption DEF Sound, TcpInv, ServerTypeOK
  <2>2. ASSUME NEW l \in ended PROVE numThreads_ > 0
    <3>1. l \in 1..numThreads_
      BY <2>1
    <3> QED BY <2>1, <3>1
  <2> QED BY <2>2
<1> QED BY <1>1 DEF Sound, PoolInv

\* A functor finds its connection freed: some thread was late.
LEMMA RunFreedStep ==
  ASSUME Sound, NEW l \in Loops, RunFreed(l), UNCHANGED serverVars
  PROVE  Burnt'
<1>1. /\ todo[l] # <<>> /\ object[Head(todo[l]).conn] = "freed"
      /\ aborted' = "UseAfterFree"
      /\ UNCHANGED <<object, state_, outputBuffer_, events, finSent, ups, downs, queue, todo, late,
                     hasty>>
  BY DEF RunFreed, Asserts, connVars, threadVars, serverVars
<1>2. Head(todo[l]) = todo[l][1] /\ 1 \in DOMAIN todo[l]
  <2>1. todo[l] \in Seq(Work)
    BY Typed DEF Sound
  <2>2. todo[l] # <<>>
    BY <1>1
  <2> QED BY <2>1, <2>2
<1>3. todo[l][1].conn \in Conns /\ IsSend(todo[l][1], todo[l][1].conn)
  BY <1>1, <1>2, Found DEF Sound, IsSend
<1>4. todo[l][1].conn \in late
  BY <1>1, <1>2, <1>3, NoSendForGone DEF Sound
<1>5. WritingIffBuffered /\ ShutdownAfterFlush /\ UpThenDown /\ NoDanglingFunctor
  BY Consequences DEF Sound
<1>6. WritingIffBuffered' /\ ShutdownAfterFlush' /\ UpThenDown'
  BY <1>1, <1>5 DEF WritingIffBuffered, ShutdownAfterFlush, UpThenDown
<1>7. NoDanglingFunctor'
  BY <1>1, <1>5 DEF NoDanglingFunctor, Waiting
<1> QED BY <1>1, <1>2, <1>4, <1>6, <1>7 DEF Burnt

\* Connections are made only while the server is up, and it is deleted with a pool
\* quietly only after the last is gone.
LEMMA PoolStep ==
  ASSUME Sound, Next, ~hasty'
  PROVE  PoolInv'
<1>1. PoolInv /\ numThreads_ \in 0..MaxThreads /\ ended \subseteq 1..numThreads_
      /\ object \in [Conns -> {"no", "live", "freed"}]
  BY DEF Sound, TcpInv, ServerTypeOK, TypeOK
<1>2. ASSUME UNCHANGED <<object, serverVars>> PROVE PoolInv'
  BY <1>1, <1>2 DEF PoolInv, serverVars
<1>3. ASSUME NEW l \in Loops, LoopStep(l) PROVE PoolInv'
  <2>1. CASE Functor(l) \/ (RunFreed(l) /\ UNCHANGED serverVars)
    BY <1>2, <2>1 DEF Functor, RunFunctor, RunFreed
  <2>2. ASSUME NEW c \in Conns, ConnectionStep(l, c), UNCHANGED serverVars PROVE PoolInv'
    <3>1. object' = object
      BY <2>2 DEF ConnectionStep, connectEstablished, connectDestroyed, channelRemove, handleRead,
                  handleClose, EventEnd, handleWrite, sendInLoop, SendDisconnected, shutdownInLoop,
                  forceCloseInLoop, startReadInLoop, stopReadInLoop, Notify, UserReturns, Runs
    <3> QED BY <1>2, <2>2, <3>1
  <2>3. ASSUME NEW c \in Conns, removeConnection(l, c) PROVE PoolInv'
    BY <1>2, <2>3 DEF removeConnection, Runs
  <2>4. ASSUME NEW c \in Conns, removeConnectionInLoop(c) PROVE PoolInv'
    BY <1>1, <2>4 DEF removeConnectionInLoop, Runs, PoolInv
  <2> QED BY <1>3, <2>1, <2>2, <2>3, <2>4 DEF LoopStep
<1>4. ASSUME LetGo PROVE PoolInv'
  <2>1. PICK c \in Conns : /\ object' = [object EXCEPT ![c] = IF aborted' = "no" THEN "freed" ELSE @]
                           /\ UNCHANGED serverVars
    BY <1>4 DEF LetGo, Destroy
  <2>2. \A d \in Conns : object'[d] = "live" => object[d] = "live"
    BY <1>1, <2>1
  <2> QED BY <1>1, <2>1, <2>2 DEF PoolInv, serverVars
<1>5. ASSUME EnvironmentStep, UNCHANGED serverVars PROVE PoolInv'
  <2>1. object' = object
    <3>1. ASSUME NEW l \in Loops, NEW c \in Conns, NEW revents \in Events,
                 HandleEvent(l, c, revents)
          PROVE  object' = object
      BY <3>1 DEF HandleEvent
    <3>2. ASSUME NEW l \in Loops, NEW c \in Conns, UserNext(l, c) PROVE object' = object
      BY <3>2 DEF UserNext, UserSend, UserShutdown, UserForceClose, UserForceCloseWithDelay,
                  UserReadCall, UserCalling, HandOver
    <3>3. ASSUME NEW l \in Loops, NEW c \in Conns, TimerFires(l, c, c \in connections_)
          PROVE  object' = object
      BY <3>3 DEF TimerFires
    <3>4. ASSUME NEW t \in Threads, NEW c \in Conns,
                 ThreadNext(t, c, c \in connections_, loop_[c] \notin ended)
          PROVE  object' = object
      BY <3>4 DEF ThreadNext, ThreadTest, Drop, ThreadSend, ThreadQueue
    <3> QED BY <1>5, <3>1, <3>2, <3>3, <3>4 DEF EnvironmentStep
  <2> QED BY <1>2, <1>5, <2>1
<1>6. ASSUME NEW c \in Conns, newConnection(c) PROVE PoolInv'
  BY <1>1, <1>6 DEF newConnection, PoolInv
<1>7. ASSUME DeleteServer PROVE PoolInv'
  <2>1. QuietEnough /\ object' = object /\ numThreads_' = numThreads_ /\ ended' = ended
        /\ serverUp' = FALSE
    BY <1>7 DEF DeleteServer
  <2> QED BY <1>1, <2>1 DEF PoolInv, QuietEnough
<1>8. ASSUME NEW l \in Loops, EndLoop(l) PROVE PoolInv'
  BY <1>1, <1>8 DEF EndLoop, Joining, PoolInv
<1> QED BY <1>3, <1>4, <1>5, <1>6, <1>7, <1>8 DEF Next

\* Every step of the loop threads, of other threads, of the network and of the owner
\* of the server keeps the invariant, unless a functor finds its connection freed or
\* the server is deleted in a state that is not quiet.
LEMMA NextHolds ==
  ASSUME Sound, Next, ~hasty', \A l \in Loops : ~(RunFreed(l) /\ UNCHANGED serverVars)
  PROVE  TcpInv' /\ SendInv'
<1> USE DEF Sound
<1>0. ASSUME TcpInv', \A k \in Loops : Grows(k) /\ NoNewSend(k), late' = late,
             connections_ \subseteq connections_'
      PROVE  TcpInv' /\ SendInv'
  BY <1>0, SendsKept
<1>1. ASSUME NEW l \in Loops, LoopStep(l) PROVE TcpInv' /\ SendInv'
  <2>1. CASE Functor(l)
    BY <2>1, RunFunctorStep, RunFunctorSends DEF Functor
  <2>2. ASSUME NEW c \in Conns, ConnectionStep(l, c), UNCHANGED serverVars
        PROVE  TcpInv' /\ SendInv'
    <3>1. ASSUME connectEstablished(l, c) PROVE TcpInv'
      BY <2>2, <3>1, ConnectEstablishedStep
    <3>2. ASSUME connectDestroyed(l, c) PROVE TcpInv'
      BY <2>2, <3>2, ConnectDestroyedStep
    <3>3. ASSUME channelRemove(l, c) PROVE TcpInv'
      BY <2>2, <3>3, ChannelRemoveStep
    <3>4. ASSUME \/ EventEnd(l, c) \/ handleRead(l, c) \/ SendDisconnected(l, c)
                 \/ forceCloseInLoop(l, c) \/ Notify(l, c) \/ UserReturns(l, c)
          PROVE  TcpInv'
      BY <2>2, <3>4, QuietSteps
    <3>5. ASSUME handleClose(l, c) PROVE TcpInv'
      BY <2>2, <3>5, HandleCloseStep
    <3>6. ASSUME \E n \in 0..outputBuffer_[c] : handleWrite(l, c, n) PROVE TcpInv'
      BY <2>2, <3>6, HandleWriteStep
    <3>7. ASSUME \E len \in Lens, gone \in BOOLEAN : \E n \in 0..len : sendInLoop(l, c, n, gone)
          PROVE  TcpInv'
      BY <2>2, <3>7, SendInLoopStep
    <3>8. ASSUME shutdownInLoop(l, c) PROVE TcpInv'
      BY <2>2, <3>8, ShutdownInLoopStep
    <3>9. ASSUME startReadInLoop(l, c) PROVE TcpInv'
      BY <2>2, <3>9, StartReadInLoopStep
    <3>10. ASSUME stopReadInLoop(l, c) PROVE TcpInv'
      BY <2>2, <3>10, StopReadInLoopStep
    <3>11. TcpInv'
      BY <2>2, <3>1, <3>2, <3>3, <3>4, <3>5, <3>6, <3>7, <3>8, <3>9, <3>10 DEF ConnectionStep
    <3>12. late' = late
      BY <2>2 DEF ConnectionStep, connectEstablished, connectDestroyed, channelRemove, handleRead,
                  handleClose, EventEnd, handleWrite, sendInLoop, SendDisconnected, shutdownInLoop,
                  forceCloseInLoop, startReadInLoop, stopReadInLoop, Notify, UserReturns, Runs,
                  threadVars
    <3>13. connections_' = connections_
      BY <2>2 DEF serverVars
    <3> QED BY <1>0, <2>2, <3>11, <3>12, <3>13, ConnectionSends
  <2>3. ASSUME NEW c \in Conns, removeConnection(l, c) PROVE TcpInv' /\ SendInv'
    <3>1. TcpInv' /\ late' = late /\ connections_' = connections_
      BY <2>3, RemoveConnectionStep DEF removeConnection, Runs, threadVars, serverVars
    <3> QED BY <1>0, <2>3, <3>1, OtherSends
  <2>4. ASSUME NEW c \in Conns, removeConnectionInLoop(c) PROVE TcpInv' /\ SendInv'
    BY <2>4, RemoveConnectionInLoopStep, RemoveConnectionInLoopSends
  <2> QED BY <1>1, <2>1, <2>2, <2>3, <2>4 DEF LoopStep
<1>2. ASSUME LetGo PROVE TcpInv' /\ SendInv'
  <2>1. PICK c \in Conns : /\ Destroy(c, c \in connections_, loop_[c] \notin ended)
                           /\ UNCHANGED serverVars
    BY <1>2 DEF LetGo
  <2>2. object[c] = "live" /\ todo' = todo /\ queue' = queue /\ late' = late
    BY <2>1 DEF Destroy, threadVars
  <2>3. ended = {}
    BY <2>2, NobodyEnded
  <2>4. Destroy(c, c \in connections_, TRUE)
    BY <2>1, <2>3
  <2>5. TcpInv' /\ connections_' = connections_
    BY <2>1, <2>4, DestroyStep DEF serverVars
  <2> QED BY <1>0, <2>2, <2>5, SameSends
<1>3. ASSUME EnvironmentStep, UNCHANGED serverVars PROVE TcpInv' /\ SendInv'
  <2>0. connections_' = connections_
    BY <1>3 DEF serverVars
  <2>1. ASSUME NEW l \in Loops, NEW c \in Conns, NEW revents \in Events, HandleEvent(l, c, revents)
        PROVE  TcpInv' /\ SendInv'
    <3>1. TcpInv' /\ late' = late
      BY <1>3, <2>1, HandleEventStep DEF HandleEvent, threadVars
    <3> QED BY <1>0, <2>0, <2>1, <3>1, OtherSends
  <2>2. ASSUME NEW l \in Loops, NEW c \in Conns, UserNext(l, c) PROVE TcpInv' /\ SendInv'
    <3>1. CASE \E len \in Lens : UserSend(l, c, len)
      <4>1. TcpInv'
        BY <1>3, <3>1, UserSpotSteps
      <4> QED BY <1>3, <3>1, <4>1, UserSendSends
    <3>2. CASE UserShutdown(l, c) \/ \E call \in {"startRead", "stopRead"} : UserReadCall(l, c, call)
      <4>1. TcpInv' /\ late' = late
        BY <1>3, <3>2, UserSpotSteps DEF UserShutdown, UserReadCall, UserCalling, threadVars
      <4> QED BY <1>0, <2>0, <3>2, <4>1, UserSends
    <3>3. CASE UserForceClose(l, c) \/ UserForceCloseWithDelay(l, c)
      <4>1. TcpInv' /\ late' = late
        BY <1>3, <3>3, UserForceCloseStep
           DEF UserForceClose, UserForceCloseWithDelay, UserCalling, threadVars
      <4> QED BY <1>0, <2>0, <3>3, <4>1, UserSends
    <3>4. CASE \E t \in Threads : HandOver(l, c, t)
      <4>1. TcpInv' /\ late' = late
        BY <1>3, <3>4, HandOverStep DEF HandOver
      <4> QED BY <1>0, <2>0, <3>4, <4>1, UserSends
    <3> QED BY <2>2, <3>1, <3>2, <3>3, <3>4 DEF UserNext
  <2>3. ASSUME NEW l \in Loops, NEW c \in Conns, TimerFires(l, c, c \in connections_)
        PROVE  TcpInv' /\ SendInv'
    <3>1. TcpInv' /\ late' = late
      BY <1>3, <2>3, TimerFiresStep DEF TimerFires, threadVars
    <3> QED BY <1>0, <2>0, <2>3, <3>1, OtherSends
  <2>4. ASSUME NEW t \in Threads, NEW c \in Conns,
               ThreadNext(t, c, c \in connections_, loop_[c] \notin ended)
        PROVE  TcpInv' /\ SendInv'
    <3>1. CASE ThreadTest(t, c, "send") \/ Drop(t, c)
      <4>1. TcpInv' /\ late' = late
        BY <1>3, <3>1, ThreadTestStep, DropStep DEF ThreadTest, Drop
      <4>2. base \in Loops
        BY Typed
      <4> QED BY <1>0, <2>0, <3>1, <4>1, <4>2, OtherSends
    <3>2. ASSUME NEW len \in Lens, tpc[t].conn = c,
                 ThreadSend(t, len, c \in connections_, loop_[c] \notin ended)
          PROVE  TcpInv' /\ SendInv'
      <4>1. object[c] = "live"
        BY <3>2 DEF ThreadSend, TcpInv, ThreadInv, ConnInv, Holding
      <4>2. ThreadSend(t, len, c \in connections_, TRUE)
        BY <3>2, <4>1, NobodyEnded
      <4>3. TcpInv'
        BY <1>3, <4>2, ThreadSendStep
      <4> QED BY <1>3, <3>2, <4>2, <4>3, ThreadSendSends
    <3> QED BY <2>4, <3>1, <3>2 DEF ThreadNext
  <2> QED BY <1>3, <2>1, <2>2, <2>3, <2>4 DEF EnvironmentStep
<1>4. ASSUME NEW c \in Conns, newConnection(c) PROVE TcpInv' /\ SendInv'
  <2>1. TcpInv' /\ late' = late /\ connections_ \subseteq connections_' /\ base \in Loops
    BY <1>4, NewConnectionStep, Typed DEF newConnection, threadVars
  <2> QED BY <1>0, <1>4, <2>1, OtherSends
<1>5. ASSUME DeleteServer PROVE TcpInv' /\ SendInv'
  <2>1. QuietEnough
    BY <1>5 DEF DeleteServer
  <2>2. TcpInv'
    BY <1>5, <2>1, DeletePooledServerStep, DeleteServerStep
  <2> QED BY <1>5, <2>1, <2>2, DeleteServerSends
<1>6. ASSUME NEW l \in Loops, EndLoop(l) PROVE TcpInv' /\ SendInv'
  BY <1>6, EndLoopStep
<1> QED BY <1>1, <1>2, <1>3, <1>4, <1>5, <1>6 DEF Next

\* A server that was deleted is not deleted again.
LEMMA StaysForfeited ==
  ASSUME Forfeited, [Next]_allVars
  PROVE  Forfeited'
<1>1. CASE UNCHANGED serverVars
  BY <1>1 DEF Forfeited, serverVars
<1>2. ASSUME NEW c \in Conns, removeConnectionInLoop(c) PROVE Forfeited'
  BY <1>2 DEF removeConnectionInLoop, Forfeited
<1>3. ASSUME NEW l \in Loops, EndLoop(l) PROVE Forfeited'
  BY <1>3 DEF EndLoop, Forfeited
<1>4. ASSUME DeleteServer \/ \E c \in Conns : newConnection(c) PROVE FALSE
  BY <1>4 DEF DeleteServer, newConnection, Forfeited
<1>5. ASSUME NEW l \in Loops, LoopStep(l) PROVE Forfeited'
  <2>1. ASSUME NEW c \in Conns, removeConnection(l, c) PROVE UNCHANGED serverVars
    BY <2>1 DEF removeConnection
  <2> QED BY <1>1, <1>2, <1>5, <2>1 DEF LoopStep, Functor
<1> QED BY <1>1, <1>3, <1>4, <1>5 DEF Next, LetGo, allVars

\* Nothing moves once the program has ended.
LEMMA Ends ==
  ASSUME aborted # "no", Next
  PROVE  FALSE
<1>1. ASSUME NEW l \in Loops, LoopStep(l) PROVE FALSE
  <2>1. ASSUME NEW c \in Conns, ConnectionStep(l, c) PROVE FALSE
    BY <2>1 DEF ConnectionStep, connectEstablished, connectDestroyed, channelRemove, handleRead,
                handleClose, EventEnd, handleWrite, sendInLoop, SendDisconnected, shutdownInLoop,
                forceCloseInLoop, startReadInLoop, stopReadInLoop, Notify, UserReturns, Runs, At
  <2>2. ASSUME Functor(l) \/ RunFreed(l) PROVE FALSE
    BY <2>2 DEF Functor, RunFunctor, RunFreed
  <2>3. ASSUME NEW c \in Conns, removeConnection(l, c) \/ removeConnectionInLoop(c) PROVE FALSE
    BY <2>3 DEF removeConnection, removeConnectionInLoop, Runs, At
  <2> QED BY <1>1, <2>1, <2>2, <2>3 DEF LoopStep
<1>2. ASSUME EnvironmentStep PROVE FALSE
  <2>1. ASSUME NEW l \in Loops, NEW c \in Conns, NEW revents \in Events,
               HandleEvent(l, c, revents)
        PROVE  FALSE
    BY <2>1 DEF HandleEvent
  <2>2. ASSUME NEW l \in Loops, NEW c \in Conns, UserNext(l, c) PROVE FALSE
    BY <2>2 DEF UserNext, UserSend, UserShutdown, UserForceClose, UserForceCloseWithDelay,
                UserReadCall, UserCalling, HandOver, At
  <2>3. ASSUME NEW l \in Loops, NEW c \in Conns, TimerFires(l, c, c \in connections_)
        PROVE  FALSE
    BY <2>3 DEF TimerFires
  <2>4. ASSUME NEW t \in Threads, NEW c \in Conns,
               ThreadNext(t, c, c \in connections_, loop_[c] \notin ended)
        PROVE  FALSE
    BY <2>4 DEF ThreadNext, ThreadTest, Drop, ThreadSend, ThreadQueue
  <2> QED BY <1>2, <2>1, <2>2, <2>3, <2>4 DEF EnvironmentStep
<1> QED BY <1>1, <1>2 DEF Next, LetGo, Destroy, newConnection, DeleteServer, EndLoop

\* The inductive invariant of the server, its connections, its loops and the threads
\* that hold connections.
THEOREM TcpServerInvariant == Spec => []ServerInv
<1>1. Init => ServerInv
  <2> SUFFICES ASSUME Init PROVE Sound
    BY DEF ServerInv
  <2>1. TcpInv
    BY InitHolds
  <2>2. SendInv
    <3>1. \A l \in Loops : todo[l] = <<>> /\ queue[l] = <<>>
      BY DEF Init, ConnectionInit
    <3> QED BY <3>1 DEF SendInv
  <2> QED BY <2>1, <2>2 DEF Sound, PoolInv, Init
<1>2. ServerInv /\ [Next]_allVars => ServerInv'
  <2> SUFFICES ASSUME ServerInv, [Next]_allVars PROVE ServerInv'
    OBVIOUS
  <2>1. CASE UNCHANGED allVars
    <3>1. UNCHANGED <<object, state_, outputBuffer_, events, finSent, ups, downs, queue, todo, late,
                      aborted, hasty, serverUp, connections_, ended, numThreads_>>
      BY <2>1 DEF allVars, vars, connVars, threadVars, serverVars
    <3>2. CASE Sound
      <4>1. TcpInv'
        BY <2>1, <3>2, StutterStep DEF Sound
      <4>2. SendInv'
        BY <3>1, <3>2 DEF Sound, SendInv
      <4> QED BY <3>1, <3>2, <4>1, <4>2 DEF Sound, PoolInv, ServerInv
    <3>3. CASE Burnt
      <4>1. WritingIffBuffered' /\ ShutdownAfterFlush' /\ UpThenDown'
        BY <3>1, <3>3 DEF Burnt, WritingIffBuffered, ShutdownAfterFlush, UpThenDown
      <4>2. NoDanglingFunctor'
        BY <3>1, <3>3 DEF Burnt, NoDanglingFunctor, Waiting
      <4> QED BY <3>1, <3>3, <4>1, <4>2 DEF Burnt, ServerInv
    <3>4. CASE Forfeited
      BY <3>1, <3>4 DEF Forfeited, ServerInv
    <3> QED BY <3>2, <3>3, <3>4 DEF ServerInv
  <2>2. CASE Sound /\ Next
    <3>1. ASSUME hasty' PROVE ServerInv'
      <4>1. CASE DeleteServer
        BY <3>1, <4>1 DEF DeleteServer, Forfeited, ServerInv
      <4>2. CASE ~DeleteServer
        <5>1. hasty' = hasty
          BY <2>2, <4>2 DEF Next, LoopStep, Functor, LetGo, removeConnection, removeConnectionInLoop,
                            newConnection, EndLoop, serverVars
        <5> QED BY <2>2, <3>1, <5>1 DEF Sound
      <4> QED BY <4>1, <4>2
    <3>2. ASSUME NEW l \in Loops, RunFreed(l), UNCHANGED serverVars PROVE ServerInv'
      BY <2>2, <3>2, RunFreedStep DEF ServerInv
    <3>3. ASSUME ~hasty', \A l \in Loops : ~(RunFreed(l) /\ UNCHANGED serverVars)
          PROVE  ServerInv'
      BY <2>2, <3>3, NextHolds, PoolStep DEF Sound, ServerInv
    <3> QED BY <3>1, <3>2, <3>3
  <2>3. CASE Burnt /\ Next
    BY <2>3, Ends DEF Burnt
  <2>4. CASE Forfeited /\ Next
    BY <2>4, StaysForfeited DEF ServerInv
  <2> QED BY <2>1, <2>2, <2>3, <2>4 DEF ServerInv
<1> QED BY <1>1, <1>2, PTL DEF Spec

\* However callbacks, sends of other threads, closes and the destructor of the server
\* interleave, an assert of TcpConnection.cc, Channel.cc or TcpServer.cc fails, or something
\* that is gone is used, only after the server was deleted in a state that is not quiet
\* or for a connection to which some thread sent late.
THEOREM ServerAsserts == Spec => []NoAssertFails
<1>1. ServerInv => NoAssertFails
  BY DEF ServerInv, Sound, TcpInv, Calm, Burnt, Forfeited, NoAssertFails
<1> QED BY <1>1, TcpServerInvariant, PTL

\* sendInLoop and handleWrite keep POLLOUT in step with the output buffer: it is asked
\* for exactly while bytes wait, unless the server was deleted hastily.
THEOREM PollOutFollowsBuffer == Spec => [](hasty \/ WritingIffBuffered)
<1>1. ServerInv => hasty \/ WritingIffBuffered
  BY Consequences DEF ServerInv, Sound, Burnt, Forfeited
<1> QED BY <1>1, TcpServerInvariant, PTL

\* shutdownInLoop leaves the shutdown to handleWrite while bytes are buffered, and
\* sendInLoop buffers nothing once the write half is shut: no byte is cut off, unless the
\* server was deleted hastily.
THEOREM FlushBeforeShutdown == Spec => [](hasty \/ ShutdownAfterFlush)
<1>1. ServerInv => hasty \/ ShutdownAfterFlush
  BY Consequences DEF ServerInv, Sound, Burnt, Forfeited
<1> QED BY <1>1, TcpServerInvariant, PTL

\* connectionCallback_ is called once when connectEstablished has set the connection up
\* and once when handleClose or connectDestroyed takes it down, before the object goes,
\* unless the server was deleted hastily.
THEOREM CallbacksInOrder == Spec => [](hasty \/ UpThenDown)
<1>1. ServerInv => hasty \/ UpThenDown
  BY Consequences DEF ServerInv, Sound, Burnt, Forfeited
<1> QED BY <1>1, TcpServerInvariant, PTL

\* The functors that capture "this" (sendInLoop, shutdownInLoop, the callbacks queued by
\* handleWrite and sendInLoop) find their connection alive if the loop queued them, or
\* another thread while the server had the connection, though neither keeps a pointer:
\* connectDestroyed, which has one, is queued behind them.
THEOREM FunctorsFindConnection == Spec => []NoDanglingFunctor
<1>1. ServerInv => NoDanglingFunctor
  BY Consequences DEF ServerInv, Sound, Burnt, Forfeited, NoDanglingFunctor
<1> QED BY <1>1, TcpServerInvariant, PTL
=============================================================================
