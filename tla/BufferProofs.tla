---------------------------- MODULE BufferProofs ----------------------------
(***************************************************************************)
(* A dws::net::Buffer implements the queue of bytes, for every size of the *)
(* vector, of the bytes kept free at its front, of extrabuf and of the     *)
(* integers.  The lemmas say what each member function does to the bytes   *)
(* between peek() and beginWrite(), and that it keeps the two indices in   *)
(* order inside the vector; the refinement then takes one step per call.   *)
(***************************************************************************)
EXTENDS Buffer, SequenceTheorems, WellFoundedInduction, TLAPS

Byte == 0..255

\* The class invariant of Buffer: 0 <= readerIndex_ <= writerIndex_ <= size(), and the
\* vector never becomes shorter than the bytes kept free at its front, where
\* retrieveAll() puts both indices.
Sound(b) ==
  /\ b \in [buffer_ : Seq(Byte), readerIndex_ : Nat, writerIndex_ : Nat]
  /\ b.readerIndex_ <= b.writerIndex_
  /\ b.writerIndex_ <= Len(b.buffer_)
  /\ kCheapPrepend <= Len(b.buffer_)

-----------------------------------------------------------------------------
(* Sequences of bytes.                                                     *)

\* Two sequences of bytes that agree at every place are equal.
LEMMA BytesEqual ==
  ASSUME NEW s \in Seq(Byte), NEW t \in Seq(Byte),
         Len(s) = Len(t), \A i \in 1..Len(s) : s[i] = t[i]
  PROVE  s = t
BY SeqEqual

\* A part of a sequence of bytes that begins and ends inside it.
LEMMA Part ==
  ASSUME NEW s \in Seq(Byte), NEW m \in Nat, NEW n \in Nat, m <= n, n <= Len(s)
  PROVE  /\ SubSeq(s, m + 1, n) \in Seq(Byte)
         /\ Len(SubSeq(s, m + 1, n)) = n - m
         /\ \A i \in 1..(n - m) : SubSeq(s, m + 1, n)[i] = s[m + i]
<1>1. \A i \in (m + 1)..n : s[i] \in Byte
  BY ElementOfSeq
<1>2. /\ SubSeq(s, m + 1, n) \in Seq(Byte)
      /\ Len(SubSeq(s, m + 1, n)) = IF m + 1 <= n THEN n - (m + 1) + 1 ELSE 0
      /\ \A i \in 1..(n - (m + 1) + 1) : SubSeq(s, m + 1, n)[i] = s[(m + 1) + i - 1]
  BY <1>1, SubSeqProperties
<1>3. \A i \in 1..(n - m) : SubSeq(s, m + 1, n)[i] = s[m + i]
  BY <1>2
<1> QED BY <1>2, <1>3

\* std::copy over a part of the vector: its size stays, the data stands where it was
\* copied to, and the other bytes stay.
LEMMA CopiedBytes ==
  ASSUME NEW v \in Seq(Byte), NEW at \in Nat, NEW d \in Seq(Byte)
  PROVE  /\ Copied(v, at, d) \in Seq(Byte)
         /\ Len(Copied(v, at, d)) = Len(v)
         /\ \A i \in 1..Len(v) :
              Copied(v, at, d)[i] = IF at < i /\ i <= at + Len(d) THEN d[i - at] ELSE v[i]
<1>1. Len(v) \in Nat /\ DOMAIN v = 1..Len(v) /\ Len(d) \in Nat /\ DOMAIN d = 1..Len(d)
  BY LenProperties
<1>2. \A i \in 1..Len(v) : i - at \in DOMAIN d <=> at < i /\ i <= at + Len(d)
  BY <1>1
<1>3. \A i \in 1..Len(v) : v[i] \in Byte
  BY ElementOfSeq
<1>4. \A i \in 1..Len(v) : i - at \in DOMAIN d => d[i - at] \in Byte
  BY <1>1, ElementOfSeq
<1>5. Copied(v, at, d) = [i \in 1..Len(v) |-> IF i - at \in DOMAIN d THEN d[i - at] ELSE v[i]]
  BY <1>1 DEF Copied
<1>6. Copied(v, at, d) \in [1..Len(v) -> Byte]
  BY <1>3, <1>4, <1>5
<1>7. Copied(v, at, d) \in Seq(Byte)
  BY <1>1, <1>6, SeqDef
<1>8. Len(Copied(v, at, d)) = Len(v)
  BY <1>1, <1>6, <1>7, LenProperties
<1> QED BY <1>2, <1>5, <1>7, <1>8

\* vector::resize to a size that is not smaller: what was there stays.
LEMMA ResizedBytes ==
  ASSUME NEW v \in Seq(Byte), NEW n \in Nat
  PROVE  /\ Resized(v, n) \in Seq(Byte)
         /\ Len(Resized(v, n)) = n
         /\ \A i \in 1..n : i <= Len(v) => Resized(v, n)[i] = v[i]
<1>1. Len(v) \in Nat /\ DOMAIN v = 1..Len(v)
  BY LenProperties
<1>2. \A i \in 1..Len(v) : v[i] \in Byte
  BY ElementOfSeq
<1>3. Resized(v, n) \in [1..n -> Byte]
  BY <1>1, <1>2 DEF Resized, Byte
<1>4. Resized(v, n) \in Seq(Byte)
  BY <1>3, SeqDef
<1>5. Len(Resized(v, n)) = n
  BY <1>3, <1>4, LenProperties
<1>6. \A i \in 1..n : i <= Len(v) => Resized(v, n)[i] = v[i]
  BY <1>1 DEF Resized
<1> QED BY <1>4, <1>5, <1>6

\* The bytes from peek() to beginWrite().
LEMMA ReadableBytes ==
  ASSUME NEW b, Sound(b)
  PROVE  /\ Readable(b) \in Seq(Byte)
         /\ Len(Readable(b)) = readableBytes(b)
         /\ readableBytes(b) \in Nat
         /\ \A i \in 1..readableBytes(b) : Readable(b)[i] = b.buffer_[b.readerIndex_ + i]
BY Part DEF Sound, Readable, readableBytes

-----------------------------------------------------------------------------
(* Making room.                                                            *)

\* A new buffer is empty.
LEMMA NewBufferSound ==
  ASSUME NEW n \in Nat
  PROVE  /\ Sound(NewBuffer(n)) /\ Readable(NewBuffer(n)) = <<>>
         /\ NewBuffer(n).readerIndex_ = kCheapPrepend
         /\ NewBuffer(n).writerIndex_ = kCheapPrepend
         /\ writableBytes(NewBuffer(n)) = n
<1>1. <<>> \in Seq(Byte) /\ kCheapPrepend + n \in Nat /\ kCheapPrepend \in Nat
  BY BufferAssumption
<1>2. /\ Resized(<<>>, kCheapPrepend + n) \in Seq(Byte)
      /\ Len(Resized(<<>>, kCheapPrepend + n)) = kCheapPrepend + n
  BY <1>1, ResizedBytes
<1>3. Sound(NewBuffer(n))
  BY <1>1, <1>2 DEF Sound, NewBuffer
<1>4. Readable(NewBuffer(n)) = <<>>
  BY <1>1, SubSeqEmpty DEF Readable, NewBuffer
<1> QED BY <1>1, <1>2, <1>3, <1>4 DEF NewBuffer, writableBytes

\* Moving the readable bytes to the front keeps them.
LEMMA MovedSound ==
  ASSUME NEW b, Sound(b), NEW len \in Nat, MustMove(b, len)
  PROVE  /\ Sound(Moved(b)) /\ Readable(Moved(b)) = Readable(b)
         /\ writableBytes(Moved(b)) >= len
<1> DEFINE n == readableBytes(b)  c == Copied(b.buffer_, kCheapPrepend, Readable(b))
<1>1. /\ b.buffer_ \in Seq(Byte) /\ b.readerIndex_ \in Nat /\ b.writerIndex_ \in Nat
      /\ b.readerIndex_ <= b.writerIndex_ /\ b.writerIndex_ <= Len(b.buffer_)
      /\ Len(b.buffer_) \in Nat /\ kCheapPrepend \in Nat
  BY LenProperties, BufferAssumption DEF Sound
<1>2. /\ Readable(b) \in Seq(Byte) /\ Len(Readable(b)) = n /\ n \in Nat
      /\ \A i \in 1..n : Readable(b)[i] = b.buffer_[b.readerIndex_ + i]
  BY ReadableBytes
<1>3. kCheapPrepend + n + len <= Len(b.buffer_)
  BY <1>1 DEF MustMove, writableBytes, prependableBytes, readableBytes
<1>4. /\ c \in Seq(Byte) /\ Len(c) = Len(b.buffer_)
      /\ \A i \in 1..Len(b.buffer_) :
           c[i] = IF kCheapPrepend < i /\ i <= kCheapPrepend + n
                  THEN Readable(b)[i - kCheapPrepend] ELSE b.buffer_[i]
  BY <1>1, <1>2, CopiedBytes
<1>5. /\ Moved(b) = [buffer_ |-> c, readerIndex_ |-> kCheapPrepend,
                     writerIndex_ |-> kCheapPrepend + n]
      /\ Moved(b).buffer_ = c /\ Moved(b).readerIndex_ = kCheapPrepend
      /\ Moved(b).writerIndex_ = kCheapPrepend + n
  BY DEF Moved
<1> HIDE DEF n, c
<1>6. Sound(Moved(b))
  BY <1>1, <1>2, <1>3, <1>4, <1>5 DEF Sound
<1>7. readableBytes(Moved(b)) = n
  BY <1>1, <1>2, <1>5 DEF readableBytes
<1>8. /\ Readable(Moved(b)) \in Seq(Byte) /\ Len(Readable(Moved(b))) = n
      /\ \A i \in 1..n : Readable(Moved(b))[i] = c[kCheapPrepend + i]
  BY <1>5, <1>6, <1>7, ReadableBytes
<1>9. \A i \in 1..n : c[kCheapPrepend + i] = Readable(b)[i]
  BY <1>1, <1>2, <1>3, <1>4
<1>10. Readable(Moved(b)) = Readable(b)
  BY <1>2, <1>8, <1>9, BytesEqual
<1> QED BY <1>1, <1>2, <1>3, <1>4, <1>5, <1>6, <1>10 DEF writableBytes

\* Growing the vector keeps the readable bytes.
LEMMA GrownSound ==
  ASSUME NEW b, Sound(b), NEW len \in Nat, writableBytes(b) < len,
         NEW g, g = [b EXCEPT !.buffer_ = Resized(@, b.writerIndex_ + len)]
  PROVE  Sound(g) /\ Readable(g) = Readable(b) /\ writableBytes(g) >= len
<1> DEFINE r == Resized(b.buffer_, b.writerIndex_ + len)
<1>1. /\ b \in [buffer_ : Seq(Byte), readerIndex_ : Nat, writerIndex_ : Nat]
      /\ b.buffer_ \in Seq(Byte) /\ b.readerIndex_ \in Nat /\ b.writerIndex_ \in Nat
      /\ b.readerIndex_ <= b.writerIndex_ /\ b.writerIndex_ <= Len(b.buffer_)
      /\ Len(b.buffer_) \in Nat /\ kCheapPrepend \in Nat /\ kCheapPrepend <= Len(b.buffer_)
  BY LenProperties, BufferAssumption DEF Sound
<1>2. Len(b.buffer_) < b.writerIndex_ + len
  BY <1>1 DEF writableBytes
<1>3. /\ r \in Seq(Byte) /\ Len(r) = b.writerIndex_ + len
      /\ \A i \in 1..(b.writerIndex_ + len) : i <= Len(b.buffer_) => r[i] = b.buffer_[i]
  <2>1. b.writerIndex_ + len \in Nat /\ b.buffer_ \in Seq(Byte)
    BY <1>1
  <2> QED BY <2>1, ResizedBytes
<1>4. /\ g.buffer_ = r /\ g.readerIndex_ = b.readerIndex_ /\ g.writerIndex_ = b.writerIndex_
      /\ g \in [buffer_ : Seq(Byte), readerIndex_ : Nat, writerIndex_ : Nat]
  BY <1>1, <1>3
<1> HIDE DEF r
<1>5. Sound(g)
  BY <1>1, <1>2, <1>3, <1>4 DEF Sound
<1>6. readableBytes(g) = readableBytes(b)
  BY <1>4 DEF readableBytes
<1>7. /\ Readable(g) \in Seq(Byte) /\ Len(Readable(g)) = readableBytes(b)
      /\ \A i \in 1..readableBytes(b) : Readable(g)[i] = r[b.readerIndex_ + i]
  BY <1>4, <1>5, <1>6, ReadableBytes
<1>8. /\ Readable(b) \in Seq(Byte) /\ Len(Readable(b)) = readableBytes(b)
      /\ \A i \in 1..readableBytes(b) : Readable(b)[i] = b.buffer_[b.readerIndex_ + i]
  BY ReadableBytes
<1>9. \A i \in 1..readableBytes(b) : r[b.readerIndex_ + i] = b.buffer_[b.readerIndex_ + i]
  BY <1>1, <1>3 DEF readableBytes
<1>10. Readable(g) = Readable(b)
  BY <1>7, <1>8, <1>9, BytesEqual
<1> QED BY <1>1, <1>3, <1>4, <1>5, <1>10 DEF writableBytes

\* ensureWritableBytes makes the room that was asked for, keeps the readable bytes, and
\* its assertion and that of makeSpace hold.
LEMMA RoomMade ==
  ASSUME NEW b, Sound(b), NEW len \in Nat
  PROVE  /\ Sound(ensureWritableBytes(b, len))
         /\ Readable(ensureWritableBytes(b, len)) = Readable(b)
         /\ writableBytes(ensureWritableBytes(b, len)) >= len
         /\ RoomFails(b, len) = FALSE
<1>1. /\ b.readerIndex_ \in Nat /\ b.writerIndex_ \in Nat /\ Len(b.buffer_) \in Nat
      /\ kCheapPrepend \in Nat
  BY LenProperties, BufferAssumption DEF Sound
<1>2. CASE writableBytes(b) < len /\ MustMove(b, len)
  <2>1. ensureWritableBytes(b, len) = Moved(b)
    BY <1>2 DEF ensureWritableBytes, makeSpace
  <2>2. b.readerIndex_ > kCheapPrepend
    BY <1>1, <1>2 DEF MustMove, writableBytes, prependableBytes
  <2>3. Sound(Moved(b)) /\ Readable(Moved(b)) = Readable(b) /\ writableBytes(Moved(b)) >= len
    BY <1>2, MovedSound
  <2>4. writableBytes(Moved(b)) \in Int
    BY <2>3, LenProperties DEF Sound, writableBytes
  <2> QED BY <1>1, <2>1, <2>2, <2>3, <2>4 DEF RoomFails
<1>3. CASE writableBytes(b) < len /\ ~MustMove(b, len)
  <2> DEFINE g == [b EXCEPT !.buffer_ = Resized(@, b.writerIndex_ + len)]
  <2>1. ensureWritableBytes(b, len) = g
    BY <1>3 DEF ensureWritableBytes, makeSpace
  <2> HIDE DEF g
  <2>2. Sound(g) /\ Readable(g) = Readable(b) /\ writableBytes(g) >= len
    BY <1>3, GrownSound DEF g
  <2>3. writableBytes(g) \in Int
    BY <2>2, LenProperties DEF Sound, writableBytes
  <2> QED BY <1>3, <2>1, <2>2, <2>3 DEF RoomFails
<1>4. CASE ~(writableBytes(b) < len)
  <2>1. ensureWritableBytes(b, len) = b
    BY <1>4 DEF ensureWritableBytes
  <2>2. writableBytes(b) \in Int
    BY <1>1 DEF writableBytes
  <2> QED BY <1>4, <2>1, <2>2 DEF RoomFails
<1> QED BY <1>2, <1>3, <1>4


-----------------------------------------------------------------------------
(* Bytes in and out.                                                       *)

\* Bytes that fit are written at beginWrite() and follow the readable bytes.
LEMMA PutBytes ==
  ASSUME NEW b, Sound(b), NEW d \in Seq(Byte), Len(d) <= writableBytes(b),
         NEW h, h = hasWritten(WrittenAt(b, d), Len(d))
  PROVE  Sound(h) /\ Readable(h) = Readable(b) \o d
<1> DEFINE c == Copied(b.buffer_, b.writerIndex_, d)  n == readableBytes(b)
<1>1. /\ b \in [buffer_ : Seq(Byte), readerIndex_ : Nat, writerIndex_ : Nat]
      /\ b.buffer_ \in Seq(Byte) /\ b.readerIndex_ \in Nat /\ b.writerIndex_ \in Nat
      /\ b.readerIndex_ <= b.writerIndex_ /\ b.writerIndex_ <= Len(b.buffer_)
      /\ Len(b.buffer_) \in Nat /\ kCheapPrepend \in Nat /\ kCheapPrepend <= Len(b.buffer_)
      /\ Len(d) \in Nat
  BY LenProperties, BufferAssumption DEF Sound
<1>2. b.writerIndex_ + Len(d) <= Len(b.buffer_)
  BY <1>1 DEF writableBytes
<1>3. /\ c \in Seq(Byte) /\ Len(c) = Len(b.buffer_)
      /\ \A i \in 1..Len(b.buffer_) :
           c[i] = IF b.writerIndex_ < i /\ i <= b.writerIndex_ + Len(d)
                  THEN d[i - b.writerIndex_] ELSE b.buffer_[i]
  BY <1>1, CopiedBytes
<1>4. /\ h.buffer_ = c /\ h.readerIndex_ = b.readerIndex_
      /\ h.writerIndex_ = b.writerIndex_ + Len(d)
      /\ h \in [buffer_ : Seq(Byte), readerIndex_ : Nat, writerIndex_ : Nat]
  <2>1. PICK w : w = WrittenAt(b, d)
    OBVIOUS
  <2>2. /\ w \in [buffer_ : Seq(Byte), readerIndex_ : Nat, writerIndex_ : Nat]
        /\ w.buffer_ = c /\ w.readerIndex_ = b.readerIndex_ /\ w.writerIndex_ = b.writerIndex_
    BY <1>1, <1>3, <2>1 DEF WrittenAt
  <2>3. h = [w EXCEPT !.writerIndex_ = @ + Len(d)] /\ Len(d) \in Nat
    BY <1>1, <2>1 DEF hasWritten
  <2>4. b.readerIndex_ \in Nat /\ b.writerIndex_ \in Nat
    BY <1>1
  <2> HIDE DEF c
  <2> QED BY <2>2, <2>3, <2>4
<1>5. /\ Readable(b) \in Seq(Byte) /\ Len(Readable(b)) = n /\ n \in Nat
      /\ \A i \in 1..n : Readable(b)[i] = b.buffer_[b.readerIndex_ + i]
  BY ReadableBytes
<1>6. n = b.writerIndex_ - b.readerIndex_
  BY DEF readableBytes
<1> HIDE DEF c, n
<1>7. Sound(h)
  BY <1>1, <1>2, <1>3, <1>4 DEF Sound
<1>8. readableBytes(h) = n + Len(d)
  BY <1>1, <1>4, <1>6 DEF readableBytes
<1>9. /\ Readable(h) \in Seq(Byte) /\ Len(Readable(h)) = n + Len(d)
      /\ \A i \in 1..(n + Len(d)) : Readable(h)[i] = c[b.readerIndex_ + i]
  BY <1>4, <1>7, <1>8, ReadableBytes
<1>10. /\ Readable(b) \o d \in Seq(Byte) /\ Len(Readable(b) \o d) = n + Len(d)
       /\ \A i \in 1..(n + Len(d)) :
            (Readable(b) \o d)[i] = IF i <= n THEN Readable(b)[i] ELSE d[i - n]
  BY <1>5, ConcatProperties
<1>11. ASSUME NEW i \in 1..(n + Len(d)) PROVE Readable(h)[i] = (Readable(b) \o d)[i]
  <2>1. PICK k : k = b.readerIndex_ + i
    OBVIOUS
  <2>2. /\ k \in 1..Len(b.buffer_) /\ k <= b.writerIndex_ + Len(d)
        /\ k - b.writerIndex_ = i - n
        /\ i <= n <=> ~(b.writerIndex_ < k)
    BY <1>1, <1>2, <1>5, <1>6, <2>1
  <2>3. c[k] = IF b.writerIndex_ < k /\ k <= b.writerIndex_ + Len(d)
               THEN d[k - b.writerIndex_] ELSE b.buffer_[k]
    BY <1>3, <2>2
  <2>4. c[k] = IF i <= n THEN b.buffer_[k] ELSE d[i - n]
    BY <2>2, <2>3
  <2>5. i <= n => i \in 1..n
    BY <1>5
  <2> QED BY <1>5, <1>9, <1>10, <2>1, <2>4, <2>5
<1>12. Readable(h) = Readable(b) \o d
  BY <1>9, <1>10, <1>11, BytesEqual
<1> QED BY <1>7, <1>12

\* append puts the bytes behind the readable ones, whether it moved them, grew the vector
\* or found room.
LEMMA Appended ==
  ASSUME NEW b, Sound(b), NEW d \in Seq(Byte)
  PROVE  Sound(append(b, d)) /\ Readable(append(b, d)) = Readable(b) \o d
<1>1. Len(d) \in Nat
  BY LenProperties
<1>2. PICK e : e = ensureWritableBytes(b, Len(d))
  OBVIOUS
<1>3. Sound(e) /\ Readable(e) = Readable(b) /\ writableBytes(e) >= Len(d)
  BY <1>1, <1>2, RoomMade
<1>4. Len(d) <= writableBytes(e)
  BY <1>1, <1>3, LenProperties DEF Sound, writableBytes
<1>5. PICK h : h = hasWritten(WrittenAt(e, d), Len(d))
  OBVIOUS
<1>6. Sound(h) /\ Readable(h) = Readable(e) \o d
  BY <1>3, <1>4, <1>5, PutBytes
<1>7. append(b, d) = h
  BY <1>2, <1>5 DEF append
<1> QED BY <1>3, <1>6, <1>7

\* retrieve takes bytes away at the front, and puts the indices back when it takes all.
LEMMA Retrieved ==
  ASSUME NEW b, Sound(b), NEW n \in Nat, n <= readableBytes(b)
  PROVE  /\ Sound(retrieve(b, n))
         /\ Readable(retrieve(b, n)) = SubSeq(Readable(b), n + 1, Len(Readable(b)))
<1>1. /\ b \in [buffer_ : Seq(Byte), readerIndex_ : Nat, writerIndex_ : Nat]
      /\ b.buffer_ \in Seq(Byte) /\ b.readerIndex_ \in Nat /\ b.writerIndex_ \in Nat
      /\ b.readerIndex_ <= b.writerIndex_ /\ b.writerIndex_ <= Len(b.buffer_)
      /\ Len(b.buffer_) \in Nat /\ kCheapPrepend \in Nat /\ kCheapPrepend <= Len(b.buffer_)
  BY LenProperties, BufferAssumption DEF Sound
<1>2. PICK m : m = readableBytes(b)
  OBVIOUS
<1>3. /\ Readable(b) \in Seq(Byte) /\ Len(Readable(b)) = m /\ m \in Nat
      /\ \A i \in 1..m : Readable(b)[i] = b.buffer_[b.readerIndex_ + i]
  BY <1>2, ReadableBytes
<1>4. m = b.writerIndex_ - b.readerIndex_ /\ n <= m
  BY <1>2 DEF readableBytes
<1>5. /\ SubSeq(Readable(b), n + 1, m) \in Seq(Byte)
      /\ Len(SubSeq(Readable(b), n + 1, m)) = m - n
      /\ \A i \in 1..(m - n) : SubSeq(Readable(b), n + 1, m)[i] = Readable(b)[n + i]
  BY <1>3, <1>4, Part
<1>6. PICK r : r = retrieve(b, n)
  OBVIOUS
<1>7. CASE n < m
  <2>1. /\ r.buffer_ = b.buffer_ /\ r.writerIndex_ = b.writerIndex_
        /\ r.readerIndex_ = b.readerIndex_ + n
        /\ r \in [buffer_ : Seq(Byte), readerIndex_ : Nat, writerIndex_ : Nat]
    BY <1>1, <1>2, <1>6, <1>7 DEF retrieve
  <2>2. Sound(r)
    BY <1>1, <1>4, <2>1 DEF Sound
  <2>3. readableBytes(r) = m - n
    BY <1>1, <1>4, <2>1 DEF readableBytes
  <2>4. /\ Readable(r) \in Seq(Byte) /\ Len(Readable(r)) = m - n
        /\ \A i \in 1..(m - n) : Readable(r)[i] = b.buffer_[b.readerIndex_ + n + i]
    BY <2>1, <2>2, <2>3, ReadableBytes
  <2>5. ASSUME NEW i \in 1..(m - n)
        PROVE  Readable(r)[i] = SubSeq(Readable(b), n + 1, m)[i]
    <3>1. n + i \in 1..m /\ b.readerIndex_ + n + i = b.readerIndex_ + (n + i)
      BY <1>1, <1>3
    <3> QED BY <1>3, <1>5, <2>4, <3>1
  <2>6. Readable(r) = SubSeq(Readable(b), n + 1, m)
    BY <1>5, <2>4, <2>5, BytesEqual
  <2> QED BY <1>3, <1>6, <2>2, <2>6
<1>8. CASE n = m
  <2>1. r = retrieveAll(b)
    BY <1>2, <1>3, <1>6, <1>8 DEF retrieve
  <2>2. /\ r.buffer_ = b.buffer_ /\ r.writerIndex_ = kCheapPrepend
        /\ r.readerIndex_ = kCheapPrepend
        /\ r \in [buffer_ : Seq(Byte), readerIndex_ : Nat, writerIndex_ : Nat]
    BY <1>1, <2>1 DEF retrieveAll
  <2>3. Sound(r)
    BY <1>1, <2>2 DEF Sound
  <2>4. Readable(r) = <<>>
    BY <1>1, <2>2, SubSeqEmpty DEF Readable
  <2>5. SubSeq(Readable(b), n + 1, m) = <<>>
    BY <1>3, <1>8, SubSeqEmpty
  <2> QED BY <1>3, <1>6, <2>3, <2>4, <2>5
<1> QED BY <1>3, <1>4, <1>7, <1>8

\* unwrite takes bytes away at the end.
LEMMA Unwritten ==
  ASSUME NEW b, Sound(b), NEW n \in Nat, n <= readableBytes(b)
  PROVE  /\ Sound(unwrite(b, n))
         /\ Readable(unwrite(b, n)) = SubSeq(Readable(b), 1, Len(Readable(b)) - n)
<1>1. /\ b \in [buffer_ : Seq(Byte), readerIndex_ : Nat, writerIndex_ : Nat]
      /\ b.buffer_ \in Seq(Byte) /\ b.readerIndex_ \in Nat /\ b.writerIndex_ \in Nat
      /\ b.readerIndex_ <= b.writerIndex_ /\ b.writerIndex_ <= Len(b.buffer_)
      /\ Len(b.buffer_) \in Nat /\ kCheapPrepend \in Nat /\ kCheapPrepend <= Len(b.buffer_)
  BY LenProperties, BufferAssumption DEF Sound
<1>2. PICK m : m = readableBytes(b)
  OBVIOUS
<1>3. /\ Readable(b) \in Seq(Byte) /\ Len(Readable(b)) = m /\ m \in Nat
      /\ \A i \in 1..m : Readable(b)[i] = b.buffer_[b.readerIndex_ + i]
  BY <1>2, ReadableBytes
<1>4. m = b.writerIndex_ - b.readerIndex_ /\ n <= m /\ m - n \in Nat
  BY <1>2, <1>3 DEF readableBytes
<1>5. /\ SubSeq(Readable(b), 0 + 1, m - n) \in Seq(Byte)
      /\ Len(SubSeq(Readable(b), 0 + 1, m - n)) = (m - n) - 0
      /\ \A i \in 1..((m - n) - 0) : SubSeq(Readable(b), 0 + 1, m - n)[i] = Readable(b)[0 + i]
  <2>1. 0 \in Nat /\ 0 <= m - n /\ m - n <= Len(Readable(b))
    BY <1>3, <1>4
  <2> QED BY <1>3, <1>4, <2>1, Part
<1>6. PICK r : r = unwrite(b, n)
  OBVIOUS
<1>7. /\ r.buffer_ = b.buffer_ /\ r.readerIndex_ = b.readerIndex_
      /\ r.writerIndex_ = b.writerIndex_ - n
      /\ r \in [buffer_ : Seq(Byte), readerIndex_ : Nat, writerIndex_ : Nat]
  BY <1>1, <1>4, <1>6 DEF unwrite
<1>8. Sound(r)
  BY <1>1, <1>4, <1>7 DEF Sound
<1>9. readableBytes(r) = m - n
  BY <1>1, <1>4, <1>7 DEF readableBytes
<1>10. /\ Readable(r) \in Seq(Byte) /\ Len(Readable(r)) = m - n
       /\ \A i \in 1..(m - n) : Readable(r)[i] = b.buffer_[b.readerIndex_ + i]
  BY <1>7, <1>8, <1>9, ReadableBytes
<1>11. /\ SubSeq(Readable(b), 1, m - n) \in Seq(Byte) /\ Len(SubSeq(Readable(b), 1, m - n)) = m - n
       /\ \A i \in 1..(m - n) : SubSeq(Readable(b), 1, m - n)[i] = Readable(b)[i]
  BY <1>4, <1>5
<1>12. \A i \in 1..(m - n) : Readable(r)[i] = SubSeq(Readable(b), 1, m - n)[i]
  <2>1. \A i \in 1..(m - n) : i \in 1..m
    BY <1>3, <1>4
  <2> QED BY <1>3, <1>10, <1>11, <2>1
<1>13. Readable(r) = SubSeq(Readable(b), 1, m - n)
  BY <1>10, <1>11, <1>12, BytesEqual
<1> QED BY <1>3, <1>6, <1>8, <1>13

\* prepend puts bytes that fit before the readable ones.
LEMMA Prepended ==
  ASSUME NEW b, Sound(b), NEW d \in Seq(Byte), Len(d) <= prependableBytes(b)
  PROVE  Sound(prepend(b, d)) /\ Readable(prepend(b, d)) = d \o Readable(b)
<1>1. /\ b \in [buffer_ : Seq(Byte), readerIndex_ : Nat, writerIndex_ : Nat]
      /\ b.buffer_ \in Seq(Byte) /\ b.readerIndex_ \in Nat /\ b.writerIndex_ \in Nat
      /\ b.readerIndex_ <= b.writerIndex_ /\ b.writerIndex_ <= Len(b.buffer_)
      /\ Len(b.buffer_) \in Nat /\ kCheapPrepend \in Nat /\ kCheapPrepend <= Len(b.buffer_)
      /\ Len(d) \in Nat
  BY LenProperties, BufferAssumption DEF Sound
<1>2. PICK at : at = b.readerIndex_ - Len(d)
  OBVIOUS
<1>3. at \in Nat /\ at + Len(d) = b.readerIndex_
  BY <1>1, <1>2 DEF prependableBytes
<1>4. PICK c : c = Copied(b.buffer_, at, d)
  OBVIOUS
<1>5. /\ c \in Seq(Byte) /\ Len(c) = Len(b.buffer_)
      /\ \A i \in 1..Len(b.buffer_) :
           c[i] = IF at < i /\ i <= at + Len(d) THEN d[i - at] ELSE b.buffer_[i]
  BY <1>1, <1>3, <1>4, CopiedBytes
<1>6. PICK r : r = prepend(b, d)
  OBVIOUS
<1>7. /\ r.buffer_ = c /\ r.readerIndex_ = at /\ r.writerIndex_ = b.writerIndex_
      /\ r \in [buffer_ : Seq(Byte), readerIndex_ : Nat, writerIndex_ : Nat]
  BY <1>1, <1>2, <1>3, <1>4, <1>5, <1>6 DEF prepend
<1>8. PICK m : m = readableBytes(b)
  OBVIOUS
<1>9. /\ Readable(b) \in Seq(Byte) /\ Len(Readable(b)) = m /\ m \in Nat
      /\ \A i \in 1..m : Readable(b)[i] = b.buffer_[b.readerIndex_ + i]
      /\ m = b.writerIndex_ - b.readerIndex_
  BY <1>8, ReadableBytes DEF readableBytes
<1>10. Sound(r)
  BY <1>1, <1>3, <1>5, <1>7 DEF Sound
<1>11. readableBytes(r) = Len(d) + m
  BY <1>1, <1>2, <1>7, <1>9 DEF readableBytes
<1>12. /\ Readable(r) \in Seq(Byte) /\ Len(Readable(r)) = Len(d) + m
       /\ \A i \in 1..(Len(d) + m) : Readable(r)[i] = c[at + i]
  BY <1>7, <1>10, <1>11, ReadableBytes
<1>13. /\ d \o Readable(b) \in Seq(Byte) /\ Len(d \o Readable(b)) = Len(d) + m
       /\ \A i \in 1..(Len(d) + m) :
            (d \o Readable(b))[i] = IF i <= Len(d) THEN d[i] ELSE Readable(b)[i - Len(d)]
  <2>1. d \in Seq(Byte) /\ Readable(b) \in Seq(Byte) /\ Len(Readable(b)) = m
    BY <1>9
  <2> QED BY ONLY <2>1, ConcatProperties
<1>14. ASSUME NEW i \in 1..(Len(d) + m) PROVE Readable(r)[i] = (d \o Readable(b))[i]
  <2>1. /\ at + i \in 1..Len(b.buffer_) /\ at < at + i /\ (at + i) - at = i
        /\ at + i <= at + Len(d) <=> i <= Len(d)
    BY <1>1, <1>3, <1>9
  <2>2. c[at + i] = IF i <= Len(d) THEN d[i] ELSE b.buffer_[at + i]
    BY <1>5, <2>1
  <2>3. ~(i <= Len(d)) => i - Len(d) \in 1..m /\ b.readerIndex_ + (i - Len(d)) = at + i
    BY <1>1, <1>3, <1>9
  <2> QED BY <1>9, <1>12, <1>13, <2>2, <2>3
<1>15. Readable(r) = d \o Readable(b)
  BY <1>12, <1>13, <1>14, BytesEqual
<1> QED BY <1>6, <1>10, <1>15

\* shrink copies the readable bytes to a new buffer.
LEMMA Shrunk ==
  ASSUME NEW b, Sound(b), NEW n \in Nat
  PROVE  Sound(shrink(b, n)) /\ Readable(shrink(b, n)) = Readable(b)
<1>1. kInitialSize \in Nat
  BY BufferAssumption
<1>2. Readable(b) \in Seq(Byte) /\ readableBytes(b) + n \in Nat
  BY ReadableBytes
<1>3. PICK o : o = NewBuffer(kInitialSize)
  OBVIOUS
<1>4. Sound(o) /\ Readable(o) = <<>>
  BY <1>1, <1>3, NewBufferSound
<1>5. PICK e : e = ensureWritableBytes(o, readableBytes(b) + n)
  OBVIOUS
<1>6. Sound(e) /\ Readable(e) = <<>>
  BY <1>2, <1>4, <1>5, RoomMade
<1>7. shrink(b, n) = append(e, Readable(b))
  BY <1>3, <1>5 DEF shrink
<1>8. Sound(append(e, Readable(b))) /\ Readable(append(e, Readable(b))) = <<>> \o Readable(b)
  BY <1>2, <1>6, Appended
<1>9. <<>> \o Readable(b) = Readable(b)
  BY <1>2, ConcatEmptySeq
<1> QED BY <1>7, <1>8, <1>9


-----------------------------------------------------------------------------
(* Numbers and lines.                                                      *)

\* A number that came in network order has, once its bytes are turned round, the value
\* in memory that its bytes have in network order.
LEMMA NumberReadBack ==
  ASSUME NEW s \in Seq(Byte)
  PROVE  HostNumber(networkToHost(s)) = Q!Number(s)
<1>1. Len(s) \in Nat
  BY LenProperties
<1>2. PICK r : r = networkToHost(s)
  OBVIOUS
<1>3. r = [i \in 1..Len(s) |-> s[(Len(s) - i) + 1]]
  BY <1>2 DEF networkToHost, Reverse
<1>4. r \in Seq(Byte)
  <2>1. \A i \in 1..Len(s) : (Len(s) - i) + 1 \in 1..Len(s)
    BY <1>1
  <2>2. \A i \in 1..Len(s) : s[(Len(s) - i) + 1] \in Byte
    BY <2>1, ElementOfSeq
  <2>3. r \in [1..Len(s) -> Byte]
    BY <1>3, <2>2
  <2> QED BY <1>1, <2>3, SeqDef
<1>5. Len(r) = Len(s)
  BY <1>1, <1>3, <1>4, LenProperties
<1>6. \A k \in 1..Len(s) : r[Len(r) - k + 1] = s[k]
  BY <1>1, <1>3, <1>5
<1>7. \A N : [k \in 0..Len(r) |-> IF k = 0 THEN 0 ELSE N[k - 1] * 256 + r[Len(r) - k + 1]]
             = [k \in 0..Len(s) |-> IF k = 0 THEN 0 ELSE N[k - 1] * 256 + s[k]]
  <2>1. \A k \in 0..Len(s) : k # 0 => r[Len(r) - k + 1] = s[k]
    BY <1>1, <1>6
  <2> QED BY <1>5, <2>1
<1>8. (CHOOSE N : N = [k \in 0..Len(r) |-> IF k = 0 THEN 0
                                           ELSE N[k - 1] * 256 + r[Len(r) - k + 1]])
      = (CHOOSE N : N = [k \in 0..Len(s) |-> IF k = 0 THEN 0 ELSE N[k - 1] * 256 + s[k]])
  BY <1>7
<1>9. HostNumber(r) = Q!Number(s)
  BY <1>5, <1>8 DEF HostNumber, Q!Number
<1> QED BY <1>2, <1>9

\* A set of numbers from 1 on that is not empty has a least one.
LEMMA Least ==
  ASSUME NEW T, T \subseteq Nat, T # {}
  PROVE  \E i \in T : \A j \in T : i <= j
<1> DEFINE R == OpToRel(<, Nat)
<1>1. IsWellFoundedOn(R, Nat)
  BY NatLessThanWellFounded
<1>2. \A x, y \in Nat : x < y => <<x, y>> \in R
  BY DEF OpToRel
<1> HIDE DEF R
<1>3. PICK x \in T : \A y \in T : ~ (<<y, x>> \in R)
  BY <1>1, WFMin
<1>4. ASSUME NEW j \in T PROVE x <= j
  <2>1. x \in Nat /\ j \in Nat /\ ~(j < x)
    BY <1>2, <1>3
  <2> QED BY <2>1
<1> QED BY <1>3, <1>4

\* The end of a line that findEOL finds is the first place of a line feed.
LEMMA EOLPlace == ASSUME NEW b, Sound(b) PROVE findEOL(b) = Q!FirstPlace(Readable(b), <<Q!LF>>, 1)
<1>1. PICK s : s = Readable(b)
  OBVIOUS
<1>2. s \in Seq(Byte) /\ Len(s) \in Nat
  BY <1>1, ReadableBytes
<1>3. Len(<<Q!LF>>) = 1
  OBVIOUS
<1>4. ASSUME NEW i \in 1..Len(s)
      PROVE  SubSeq(s, i, i + Len(<<Q!LF>>) - 1) = <<Q!LF>> <=> s[i] = Q!LF
  <2>1. \A k \in i..i : s[k] \in Byte
    BY ElementOfSeq, <1>2
  <2>2. /\ SubSeq(s, i, i) \in Seq(Byte) /\ Len(SubSeq(s, i, i)) = 1
        /\ SubSeq(s, i, i)[1] = s[i]
    <3>1. i \in Int /\ 1 \in 1..(i - i + 1) /\ i + 1 - 1 = i
      BY <1>2
    <3> QED BY <2>1, <3>1, SubSeqProperties
  <2>3. <<Q!LF>> \in Seq(Byte) /\ <<Q!LF>>[1] = Q!LF
    BY DEF Byte, Q!LF
  <2>5. SubSeq(s, i, i) = <<Q!LF>> <=> s[i] = Q!LF
    <3>1. ASSUME s[i] = Q!LF PROVE SubSeq(s, i, i) = <<Q!LF>>
      <4>1. \A k \in 1..Len(SubSeq(s, i, i)) : SubSeq(s, i, i)[k] = <<Q!LF>>[k]
        BY <2>2, <2>3, <3>1
      <4> QED BY <1>3, <2>2, <2>3, <4>1, BytesEqual
    <3> QED BY <2>2, <2>3, <3>1
  <2>4. i + Len(<<Q!LF>>) - 1 = i
    BY <1>2, <1>3
  <2> QED BY <2>4, <2>5
<1>5. {i \in 1..Len(s) : s[i] = Q!LF}
      = {i \in 1..(Len(s) - Len(<<Q!LF>>) + 1) : SubSeq(s, i, i + Len(<<Q!LF>>) - 1) = <<Q!LF>>}
  <2>1. Len(s) - Len(<<Q!LF>>) + 1 = Len(s)
    BY <1>2, <1>3
  <2> QED BY <1>4, <2>1
<1>6. PICK T : T = {i \in 1..Len(s) : s[i] = Q!LF}
  OBVIOUS
<1>7. findEOL(b) = IF T = {} THEN 0 ELSE CHOOSE i \in T : \A j \in T : i <= j
  BY <1>1, <1>6 DEF findEOL
<1>8. Q!FirstPlace(s, <<Q!LF>>, 1) = IF T = {} THEN 0 ELSE CHOOSE i \in T : \A j \in T : i <= j
  <2>1. T = {i \in 1..(Len(s) - Len(<<Q!LF>>) + 1) : SubSeq(s, i, i + Len(<<Q!LF>>) - 1) = <<Q!LF>>}
    BY <1>5, <1>6, Zenon
  <2> QED BY ONLY <2>1 DEF Q!FirstPlace
<1> QED BY <1>1, <1>7, <1>8

\* The end of a line that findCRLF finds is the first place of a CR and LF.
LEMMA CRLFPlace == ASSUME NEW b, Sound(b) PROVE findCRLF(b) = Q!FirstPlace(Readable(b), Q!kCRLF, 1)
<1>1. PICK s : s = Readable(b)
  OBVIOUS
<1>2. s \in Seq(Byte) /\ Len(s) \in Nat
  BY <1>1, ReadableBytes
<1>3. Len(Q!kCRLF) = 2 /\ Q!kCRLF = <<Q!CR, Q!LF>>
  BY DEF Q!kCRLF
<1>4. ASSUME NEW i \in 1..(Len(s) - 1)
      PROVE  SubSeq(s, i, i + Len(Q!kCRLF) - 1) = Q!kCRLF <=> s[i] = Q!CR /\ s[i + 1] = Q!LF
  <2>1. \A k \in i..(i + 1) : s[k] \in Byte
    BY ElementOfSeq, <1>2
  <2>2. /\ SubSeq(s, i, i + 1) \in Seq(Byte) /\ Len(SubSeq(s, i, i + 1)) = 2
        /\ SubSeq(s, i, i + 1)[1] = s[i] /\ SubSeq(s, i, i + 1)[2] = s[i + 1]
    <3>1. /\ i \in Int /\ i + 1 \in Int /\ (i + 1) - i + 1 = 2 /\ i <= i + 1
          /\ i + 1 - 1 = i /\ i + 2 - 1 = i + 1
      BY <1>2
    <3>2. /\ SubSeq(s, i, i + 1) \in Seq(Byte)
          /\ Len(SubSeq(s, i, i + 1)) = IF i <= i + 1 THEN (i + 1) - i + 1 ELSE 0
          /\ \A k \in 1..((i + 1) - i + 1) : SubSeq(s, i, i + 1)[k] = s[i + k - 1]
      BY <2>1, <3>1, SubSeqProperties
    <3>3. SubSeq(s, i, i + 1)[1] = s[i + 1 - 1] /\ SubSeq(s, i, i + 1)[2] = s[i + 2 - 1]
      BY <3>1, <3>2
    <3> QED BY <3>1, <3>2, <3>3
  <2>3. /\ Q!kCRLF \in Seq(Byte) /\ Q!kCRLF[1] = Q!CR /\ Q!kCRLF[2] = Q!LF
    BY DEF Byte, Q!LF, Q!CR, Q!kCRLF
  <2>5. SubSeq(s, i, i + 1) = Q!kCRLF <=> s[i] = Q!CR /\ s[i + 1] = Q!LF
    <3>1. ASSUME s[i] = Q!CR, s[i + 1] = Q!LF PROVE SubSeq(s, i, i + 1) = Q!kCRLF
      <4>1. \A k \in 1..2 : k = 1 \/ k = 2
        OBVIOUS
      <4>2. \A k \in 1..Len(SubSeq(s, i, i + 1)) : SubSeq(s, i, i + 1)[k] = Q!kCRLF[k]
        BY <2>2, <2>3, <3>1, <4>1
      <4> QED BY <1>3, <2>2, <2>3, <4>2, BytesEqual
    <3> QED BY <2>2, <2>3, <3>1
  <2>4. i + Len(Q!kCRLF) - 1 = i + 1
    BY <1>2, <1>3
  <2> QED BY <2>4, <2>5
<1>5. {i \in 1..(Len(s) - 1) : s[i] = Q!CR /\ s[i + 1] = Q!LF}
      = {i \in 1..(Len(s) - Len(Q!kCRLF) + 1) : SubSeq(s, i, i + Len(Q!kCRLF) - 1) = Q!kCRLF}
  <2>1. Len(s) - Len(Q!kCRLF) + 1 = Len(s) - 1
    BY <1>2, <1>3
  <2> QED BY <1>4, <2>1
<1>6. PICK T : T = {i \in 1..(Len(s) - 1) : s[i] = Q!CR /\ s[i + 1] = Q!LF}
  OBVIOUS
<1>7. findCRLF(b) = IF T = {} THEN 0 ELSE CHOOSE i \in T : \A j \in T : i <= j
  BY <1>1, <1>6 DEF findCRLF
<1>8. Q!FirstPlace(s, Q!kCRLF, 1) = IF T = {} THEN 0 ELSE CHOOSE i \in T : \A j \in T : i <= j
  <2>1. T = {i \in 1..(Len(s) - Len(Q!kCRLF) + 1) : SubSeq(s, i, i + Len(Q!kCRLF) - 1) = Q!kCRLF}
    BY <1>5, <1>6, Zenon
  <2> QED BY ONLY <2>1 DEF Q!FirstPlace
<1> QED BY <1>1, <1>7, <1>8

\* The place of a text, if it is there, leaves room for the text.
LEMMA PlaceInside ==
  ASSUME NEW s \in Seq(Byte), NEW text, Len(text) \in Nat,
         NEW at, at = Q!FirstPlace(s, text, 1), at # 0
  PROVE  at \in Nat \ {0} /\ at + Len(text) - 1 <= Len(s)
<1>1. Len(s) \in Nat
  BY LenProperties
<1>2. PICK T : T = {i \in 1..(Len(s) - Len(text) + 1) : SubSeq(s, i, i + Len(text) - 1) = text}
  OBVIOUS
<1>3. at = IF T = {} THEN 0 ELSE CHOOSE i \in T : \A j \in T : i <= j
  BY <1>2 DEF Q!FirstPlace
<1>4. T \subseteq 1..(Len(s) - Len(text) + 1)
  BY <1>2
<1>5. T # {} /\ T \subseteq Nat
  BY <1>1, <1>3, <1>4
<1>6. \E i \in T : \A j \in T : i <= j
  BY <1>5, Least
<1>7. at \in T
  BY <1>3, <1>5, <1>6
<1> QED BY <1>1, <1>4, <1>7


-----------------------------------------------------------------------------
(* The refinement.                                                         *)

BufferInv == Sound(buffer) /\ aborted = FALSE

\* What a caller writes is a sequence of bytes.
LEMMA DataBytes ==
  ASSUME NEW n, NEW data \in Data(n)
  PROVE  data \in Seq(Byte)
<1>1. PICK k \in 0..n : data \in [1..k -> Bytes]
  BY DEF Data
<1>2. data \in [1..k -> Byte]
  BY <1>1, BufferAssumption DEF Byte
<1>3. k \in Nat
  BY <1>1
<1> QED BY <1>2, <1>3, SeqDef

\* hostToNetwork of the bytes of a number.
LEMMA NetworkBytes == ASSUME NEW s \in Seq(Byte) PROVE hostToNetwork(s) \in Seq(Byte)
<1>1. Len(s) \in Nat
  BY LenProperties
<1>2. \A i \in 1..Len(s) : (Len(s) - i) + 1 \in 1..Len(s)
  BY <1>1
<1>3. \A i \in 1..Len(s) : s[(Len(s) - i) + 1] \in Byte
  BY <1>2, ElementOfSeq
<1>4. hostToNetwork(s) \in [1..Len(s) -> Byte]
  BY <1>3 DEF hostToNetwork, Reverse
<1> QED BY <1>1, <1>4, SeqDef

\* Bytes at the end of the readable ones are an append of the queue.
LEMMA QueueAppends ==
  ASSUME BufferInv, NEW d \in Seq(Byte), Sound(buffer'), aborted' = FALSE,
         Readable(buffer') = Readable(buffer) \o d, io' = Q!Call("append", d, 0, <<>>)
  PROVE  BufferInv' /\ Q!Next
<1>1. io'.data = d
  BY DEF Q!Call
<1>2. Q!AppendBytes
  BY <1>1 DEF Q!AppendBytes
<1> QED BY <1>2 DEF BufferInv, Q!Next

\* A call that keeps the readable bytes arranges them.
LEMMA QueueArranges ==
  ASSUME BufferInv, Sound(buffer'), aborted' = FALSE,
         Readable(buffer') = Readable(buffer), io' = Q!Call("arrange", <<>>, 0, <<>>)
  PROVE  BufferInv' /\ Q!Next
<1>1. Q!Arrange
  BY DEF Q!Arrange
<1> QED BY <1>1 DEF BufferInv, Q!Next

\* append and appendInt8 to appendInt64.
LEMMA AppendStep ==
  ASSUME BufferInv, NEW d \in Seq(Byte), AppendBytes(d)
  PROVE  BufferInv' /\ Q!Next
<1>1. Len(d) \in Nat
  BY LenProperties
<1>2. Sound(append(buffer, d)) /\ Readable(append(buffer, d)) = Readable(buffer) \o d
  BY Appended DEF BufferInv
<1>3. RoomFails(buffer, Len(d)) = FALSE
  BY <1>1, RoomMade DEF BufferInv
<1>4. /\ Sound(buffer') /\ aborted' = FALSE
      /\ Readable(buffer') = Readable(buffer) \o d /\ io' = Q!Call("append", d, 0, <<>>)
  BY <1>2, <1>3 DEF AppendBytes
<1> QED BY <1>4, QueueAppends

\* beginWrite and hasWritten.
LEMMA WriteStep ==
  ASSUME BufferInv, NEW d \in Seq(Byte), WriteInPlace(d)
  PROVE  BufferInv' /\ Q!Next
<1>1. /\ Len(d) <= writableBytes(buffer) /\ io' = Q!Call("append", d, 0, <<>>)
      /\ buffer' = hasWritten(WrittenAt(buffer, d), Len(d)) /\ aborted' = aborted
  BY DEF WriteInPlace
<1>2. PICK h : h = hasWritten(WrittenAt(buffer, d), Len(d))
  OBVIOUS
<1>3. Sound(h) /\ Readable(h) = Readable(buffer) \o d
  BY <1>1, <1>2, PutBytes DEF BufferInv
<1>4. Sound(buffer') /\ aborted' = FALSE /\ Readable(buffer') = Readable(buffer) \o d
  BY <1>1, <1>2, <1>3 DEF BufferInv
<1> QED BY <1>1, <1>4, QueueAppends

\* readFd: what readv() put in the vector and in extrabuf comes out as one piece.
LEMMA ReadFdStep ==
  ASSUME BufferInv, NEW d \in Seq(Byte), ReadFd(d)
  PROVE  BufferInv' /\ Q!Next
<1>1. PICK w : w = writableBytes(buffer)
  OBVIOUS
<1>2. w \in Nat /\ Len(d) \in Nat
  BY <1>1, LenProperties DEF BufferInv, Sound, writableBytes
<1>3. io' = Q!Call("append", d, 0, <<>>)
  BY DEF ReadFd
<1>4. CASE Len(d) <= w
  <2>1. buffer' = hasWritten(WrittenAt(buffer, d), Len(d)) /\ aborted' = aborted
    BY <1>1, <1>4 DEF ReadFd
  <2>2. PICK h : h = hasWritten(WrittenAt(buffer, d), Len(d))
    OBVIOUS
  <2>3. Sound(h) /\ Readable(h) = Readable(buffer) \o d
    BY <1>1, <1>4, <2>2, PutBytes DEF BufferInv
  <2>4. Sound(buffer') /\ aborted' = FALSE /\ Readable(buffer') = Readable(buffer) \o d
    BY <2>1, <2>2, <2>3 DEF BufferInv
  <2> QED BY <1>3, <2>4, QueueAppends
<1>5. CASE ~(Len(d) <= w)
  <2>1. PICK front : front = SubSeq(d, 1, w)
    OBVIOUS
  <2>2. PICK rest : rest = SubSeq(d, w + 1, Len(d))
    OBVIOUS
  <2>3. front \in Seq(Byte) /\ Len(front) = w
    <3>1. 0 \in Nat /\ 0 <= w /\ w <= Len(d) /\ 0 + 1 = 1 /\ w - 0 = w
      BY <1>2, <1>5
    <3>2. SubSeq(d, 0 + 1, w) \in Seq(Byte) /\ Len(SubSeq(d, 0 + 1, w)) = w - 0
      BY <1>2, <3>1, Part
    <3> QED BY <2>1, <3>1, <3>2
  <2>4. rest \in Seq(Byte) /\ Len(rest) \in Nat
    <3>1. w <= Len(d) /\ Len(d) <= Len(d)
      BY <1>2, <1>5
    <3>2. SubSeq(d, w + 1, Len(d)) \in Seq(Byte)
      BY <1>2, <3>1, Part
    <3> QED BY <2>2, <3>2, LenProperties
  <2>5. PICK full : full = hasWritten(WrittenAt(buffer, front), w)
    OBVIOUS
  <2>6. buffer' = append(full, rest) /\ aborted' = RoomFails(full, Len(rest))
    BY <1>1, <1>5, <2>1, <2>2, <2>5 DEF ReadFd
  <2>7. Sound(full) /\ Readable(full) = Readable(buffer) \o front
    <3>1. Len(front) <= writableBytes(buffer) /\ full = hasWritten(WrittenAt(buffer, front), Len(front))
      BY <1>1, <1>2, <2>3, <2>5
    <3> QED BY <2>3, <3>1, PutBytes DEF BufferInv
  <2>8. /\ Sound(append(full, rest)) /\ RoomFails(full, Len(rest)) = FALSE
        /\ Readable(append(full, rest)) = (Readable(buffer) \o front) \o rest
    BY <2>4, <2>7, Appended, RoomMade
  <2>9. (Readable(buffer) \o front) \o rest = Readable(buffer) \o (front \o rest)
    <3>1. Readable(buffer) \in Seq(Byte)
      BY ReadableBytes DEF BufferInv
    <3> QED BY <2>3, <2>4, <3>1, ConcatAssociative
  <2>10. front \o rest = d
    <3>1. 1 \in 1..(Len(d) + 1) /\ w \in (1 - 1)..Len(d) /\ Len(d) \in w..Len(d)
      BY <1>2, <1>5
    <3>2. SubSeq(d, 1, w) \o SubSeq(d, w + 1, Len(d)) = SubSeq(d, 1, Len(d))
      BY <3>1, ConcatAdjacentSubSeq
    <3>3. SubSeq(d, 1, Len(d)) = d
      BY SubSeqFull
    <3> QED BY <2>1, <2>2, <3>2, <3>3
  <2>11. Sound(buffer') /\ aborted' = FALSE /\ Readable(buffer') = Readable(buffer) \o d
    BY <2>6, <2>8, <2>9, <2>10
  <2> QED BY <1>3, <2>11, QueueAppends
<1> QED BY <1>4, <1>5

\* prepend and prependInt8 to prependInt64.
LEMMA PrependStep ==
  ASSUME BufferInv, NEW d \in Seq(Byte), PrependBytes(d)
  PROVE  BufferInv' /\ Q!Next
<1>1. /\ Len(d) <= prependableBytes(buffer) /\ buffer' = prepend(buffer, d)
      /\ io' = Q!Call("prepend", d, 0, <<>>) /\ aborted' = aborted
  BY DEF PrependBytes
<1>2. Sound(prepend(buffer, d)) /\ Readable(prepend(buffer, d)) = d \o Readable(buffer)
  BY <1>1, Prepended DEF BufferInv
<1>3. io'.data = d
  BY <1>1 DEF Q!Call
<1>4. Q!PrependBytes
  BY <1>1, <1>2, <1>3 DEF Q!PrependBytes
<1> QED BY <1>1, <1>2, <1>4 DEF BufferInv, Q!Next

\* retrieve takes the first bytes and gives them.
LEMMA RetrieveStep ==
  ASSUME BufferInv, NEW n \in Nat, Retrieve(n)
  PROVE  BufferInv' /\ Q!Next
<1>1. /\ n <= readableBytes(buffer) /\ buffer' = retrieve(buffer, n) /\ aborted' = aborted
      /\ io' = Q!Call("retrieve", <<>>, n, SubSeq(Readable(buffer), 1, n))
  BY DEF Retrieve
<1>2. /\ Sound(retrieve(buffer, n))
      /\ Readable(retrieve(buffer, n)) = SubSeq(Readable(buffer), n + 1, Len(Readable(buffer)))
  BY <1>1, Retrieved DEF BufferInv
<1>3. n \in 0..Len(Readable(buffer))
  BY <1>1, ReadableBytes DEF BufferInv
<1>4. Q!Retrieve(n)
  BY <1>1, <1>2 DEF Q!Retrieve, Q!First, Q!Without
<1> QED BY <1>1, <1>2, <1>3, <1>4 DEF BufferInv, Q!Next

\* readInt8 to readInt64: the value that the bytes have in network order.
LEMMA ReadIntStep ==
  ASSUME BufferInv, NEW n \in Nat, ReadInt(n)
  PROVE  BufferInv' /\ Q!Next
<1>1. PICK s : s = SubSeq(Readable(buffer), 1, n)
  OBVIOUS
<1>2. /\ n <= readableBytes(buffer) /\ buffer' = retrieve(buffer, n) /\ aborted' = aborted
      /\ io' = Q!Call("readInt", <<>>, n, <<HostNumber(networkToHost(s))>>)
  BY <1>1 DEF ReadInt
<1>3. /\ Sound(retrieve(buffer, n))
      /\ Readable(retrieve(buffer, n)) = SubSeq(Readable(buffer), n + 1, Len(Readable(buffer)))
  BY <1>2, Retrieved DEF BufferInv
<1>4. n \in 0..Len(Readable(buffer)) /\ Readable(buffer) \in Seq(Byte)
  BY <1>2, ReadableBytes DEF BufferInv
<1>5. s \in Seq(Byte)
  <2>1. 0 \in Nat /\ 0 <= n /\ n <= Len(Readable(buffer)) /\ 0 + 1 = 1
    BY <1>4, LenProperties
  <2>2. SubSeq(Readable(buffer), 0 + 1, n) \in Seq(Byte)
    BY <1>4, <2>1, Part
  <2> QED BY <1>1, <2>1, <2>2
<1>6. HostNumber(networkToHost(s)) = Q!Number(s)
  BY <1>5, NumberReadBack
<1>7. io'.op = "readInt" /\ io'.n = n /\ io' = Q!Call("readInt", <<>>, n, <<Q!Number(s)>>)
  BY <1>2, <1>6 DEF Q!Call
<1>8. Q!ReadInt(n)
  BY <1>1, <1>2, <1>3, <1>7 DEF Q!ReadInt, Q!First, Q!Without
<1> QED BY <1>2, <1>3, <1>4, <1>8 DEF BufferInv, Q!Next

\* unwrite takes the last bytes away.
LEMMA UnwriteStep ==
  ASSUME BufferInv, NEW n \in Nat, Unwrite(n)
  PROVE  BufferInv' /\ Q!Next
<1>1. /\ n <= readableBytes(buffer) /\ buffer' = unwrite(buffer, n) /\ aborted' = aborted
      /\ io' = Q!Call("unwrite", <<>>, n, <<>>)
  BY DEF Unwrite
<1>2. /\ Sound(unwrite(buffer, n))
      /\ Readable(unwrite(buffer, n)) = SubSeq(Readable(buffer), 1, Len(Readable(buffer)) - n)
  BY <1>1, Unwritten DEF BufferInv
<1>3. n \in 0..Len(Readable(buffer))
  BY <1>1, ReadableBytes DEF BufferInv
<1>4. Q!Unwrite(n)
  BY <1>1, <1>2 DEF Q!Unwrite, Q!First
<1> QED BY <1>1, <1>2, <1>3, <1>4 DEF BufferInv, Q!Next

\* A line that ends at the first terminator.
LEMMA ReadLineStep ==
  ASSUME BufferInv, NEW text, Len(text) \in Nat \ {0}, text = <<Q!LF>> \/ text = Q!kCRLF,
         NEW at, at = Q!FirstPlace(Readable(buffer), text, 1), ReadLine(at, text)
  PROVE  BufferInv' /\ Q!Next
<1>1. /\ Readable(buffer) \in Seq(Byte) /\ Len(Readable(buffer)) = readableBytes(buffer)
      /\ readableBytes(buffer) \in Nat
  BY ReadableBytes DEF BufferInv
<1>2. CASE at = 0
  <2>1. SubSeq(Readable(buffer), 1, 0) = <<>>
    BY SubSeqEmpty
  <2>2. buffer' = buffer /\ aborted' = aborted /\ io' = Q!Call("line", text, 0, <<>>)
    BY <1>2, <2>1 DEF ReadLine
  <2>3. Q!ReadLine(text)
    BY <1>2, <2>2 DEF Q!ReadLine
  <2> QED BY <2>2, <2>3 DEF BufferInv, Q!Next
<1>3. CASE at # 0
  <2>1. PICK n : n = at + Len(text) - 1
    OBVIOUS
  <2>2. n \in Nat /\ n <= readableBytes(buffer)
    BY <1>1, <1>3, <2>1, PlaceInside
  <2>3. /\ buffer' = retrieve(buffer, n) /\ aborted' = aborted
        /\ io' = Q!Call("line", text, n, SubSeq(Readable(buffer), 1, n))
    BY <1>3, <2>1 DEF ReadLine
  <2>4. /\ Sound(retrieve(buffer, n))
        /\ Readable(retrieve(buffer, n)) = SubSeq(Readable(buffer), n + 1, Len(Readable(buffer)))
    BY <2>2, Retrieved DEF BufferInv
  <2>5. Q!ReadLine(text)
    BY <1>3, <2>1, <2>3, <2>4 DEF Q!ReadLine, Q!First, Q!Without
  <2> QED BY <2>3, <2>4, <2>5 DEF BufferInv, Q!Next
<1> QED BY <1>2, <1>3

\* ensureWritableBytes and shrink only move bytes about.
LEMMA ArrangeStep ==
  ASSUME BufferInv, NEW n \in Nat, EnsureWritable(n) \/ Shrink(n)
  PROVE  BufferInv' /\ Q!Next
<1>1. CASE EnsureWritable(n)
  <2>1. /\ Sound(ensureWritableBytes(buffer, n)) /\ RoomFails(buffer, n) = FALSE
        /\ Readable(ensureWritableBytes(buffer, n)) = Readable(buffer)
    BY RoomMade DEF BufferInv
  <2>2. /\ Sound(buffer') /\ aborted' = FALSE /\ Readable(buffer') = Readable(buffer)
        /\ io' = Q!Call("arrange", <<>>, 0, <<>>)
    BY <1>1, <2>1 DEF EnsureWritable
  <2> QED BY <2>2, QueueArranges
<1>2. CASE Shrink(n)
  <2>1. Sound(shrink(buffer, n)) /\ Readable(shrink(buffer, n)) = Readable(buffer)
    BY Shrunk DEF BufferInv
  <2>2. /\ Sound(buffer') /\ aborted' = FALSE /\ Readable(buffer') = Readable(buffer)
        /\ io' = Q!Call("arrange", <<>>, 0, <<>>)
    BY <1>2, <2>1 DEF Shrink, BufferInv
  <2> QED BY <2>2, QueueArranges
<1> QED BY <1>1, <1>2

\* Every call keeps the class invariant and is a call on the queue.
LEMMA BufferStep ==
  ASSUME BufferInv, Next
  PROVE  BufferInv' /\ Q!Next
<1>1. ASSUME NEW data \in Data(MaxWrite),
             AppendBytes(data) \/ AppendInt(data) \/ WriteInPlace(data)
             \/ PrependBytes(data) \/ PrependInt(data)
      PROVE  BufferInv' /\ Q!Next
  <2>1. data \in Seq(Byte) /\ hostToNetwork(data) \in Seq(Byte)
    BY DataBytes, NetworkBytes
  <2>2. CASE AppendBytes(data)
    BY <2>1, <2>2, AppendStep
  <2>3. CASE AppendInt(data)
    BY <2>1, <2>3, AppendStep DEF AppendInt
  <2>4. CASE WriteInPlace(data)
    BY <2>1, <2>4, WriteStep
  <2>5. CASE PrependBytes(data)
    BY <2>1, <2>5, PrependStep
  <2>6. CASE PrependInt(data)
    BY <2>1, <2>6, PrependStep DEF PrependInt
  <2> QED BY <1>1, <2>2, <2>3, <2>4, <2>5, <2>6
<1>2. ASSUME NEW data \in Data(MaxSize), ReadFd(data) PROVE BufferInv' /\ Q!Next
  BY <1>2, DataBytes, ReadFdStep
<1>3. CASE ReadFdFails
  <2>1. /\ Sound(buffer') /\ aborted' = FALSE /\ Readable(buffer') = Readable(buffer)
        /\ io' = Q!Call("arrange", <<>>, 0, <<>>)
    BY <1>3 DEF ReadFdFails, BufferInv
  <2> QED BY <2>1, QueueArranges
<1>4. ASSUME NEW len \in 0..MaxSize, Retrieve(len) \/ Unwrite(len) \/ EnsureWritable(len) \/ Shrink(len)
      PROVE  BufferInv' /\ Q!Next
  <2>1. len \in Nat
    BY BufferAssumption
  <2> QED BY <1>4, <2>1, RetrieveStep, UnwriteStep, ArrangeStep
<1>5. ASSUME NEW size \in IntSizes, ReadInt(size) PROVE BufferInv' /\ Q!Next
  <2>1. size \in Nat
    BY BufferAssumption
  <2> QED BY <1>5, <2>1, ReadIntStep
<1>6. CASE ReadLine(findEOL(buffer), <<Q!LF>>)
  <2>1. findEOL(buffer) = Q!FirstPlace(Readable(buffer), <<Q!LF>>, 1) /\ Len(<<Q!LF>>) \in Nat \ {0}
    BY EOLPlace DEF BufferInv
  <2>2. PICK text : text = <<Q!LF>>
    OBVIOUS
  <2>3. PICK at : at = findEOL(buffer)
    OBVIOUS
  <2> QED BY <1>6, <2>1, <2>2, <2>3, ReadLineStep
<1>7. CASE ReadLine(findCRLF(buffer), Q!kCRLF)
  <2>1. findCRLF(buffer) = Q!FirstPlace(Readable(buffer), Q!kCRLF, 1) /\ Len(Q!kCRLF) \in Nat \ {0}
    BY CRLFPlace DEF BufferInv, Q!kCRLF
  <2>2. PICK text : text = Q!kCRLF
    OBVIOUS
  <2>3. PICK at : at = findCRLF(buffer)
    OBVIOUS
  <2> QED BY <1>7, <2>1, <2>2, <2>3, ReadLineStep
<1> QED BY <1>1, <1>2, <1>3, <1>4, <1>5, <1>6, <1>7 DEF Next

\* The class invariant of Buffer: the indices are in order inside the vector, and the
\* assertions of makeSpace and ensureWritableBytes (Buffer.h:141, 303) never fail.
THEOREM IndicesInOrder == Spec => []BufferInv
<1>1. Init => BufferInv
  BY NewBufferSound, BufferAssumption DEF Init, BufferInv
<1>2. BufferInv /\ [Next]_vars => BufferInv'
  <2>1. BufferInv /\ Next => BufferInv'
    BY BufferStep
  <2>2. BufferInv /\ UNCHANGED vars => BufferInv'
    BY DEF BufferInv, vars
  <2> QED BY <2>1, <2>2
<1> QED BY <1>1, <1>2, PTL DEF Spec

\* A Buffer is a queue of bytes with numbers and lines: every call does to the bytes
\* between peek() and beginWrite() what the queue says, for every vector, data and size.
THEOREM BufferRefinement == Spec => ImplementsByteQueue
<1>1. Init => Q!Init
  BY NewBufferSound, BufferAssumption DEF Init, Q!Init
<1>2. BufferInv /\ [Next]_vars => [Q!Next]_<<Readable(buffer), io, ~aborted>>
  <2>1. BufferInv /\ Next => Q!Next
    BY BufferStep
  <2>2. UNCHANGED vars => UNCHANGED <<Readable(buffer), io, ~aborted>>
    BY DEF vars
  <2> QED BY <2>1, <2>2
<1> QED BY <1>1, <1>2, IndicesInOrder, PTL DEF Spec, ImplementsByteQueue, Q!Spec
=============================================================================
