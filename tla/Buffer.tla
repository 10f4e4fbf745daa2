------------------------------- MODULE Buffer -------------------------------
(***************************************************************************)
(* dws::net::Buffer: a vector of bytes with a place to read from and a     *)
(* place to write to.  Bytes before the one and after the other are stale. *)
(* A Buffer is the record of its three members; indices count from 0.      *)
(***************************************************************************)
EXTENDS Integers, Sequences, SequencesExt

CONSTANTS
  kCheapPrepend, kInitialSize,
  ExtraSize,     \* sizeof(extrabuf) in readFd
  IntSizes,      \* the sizes of the integers: 1, 2, 4, 8
  Bytes,         \* the bytes that are written
  MaxWrite,      \* bytes of one append
  MaxSize        \* bytes of the vector

ASSUME BufferAssumption ==
  /\ kCheapPrepend \in Nat /\ kInitialSize \in Nat /\ ExtraSize \in Nat
  /\ MaxWrite \in Nat /\ MaxSize \in Nat
  /\ IntSizes \subseteq Nat \ {0} /\ Bytes \subseteq 0..255

VARIABLES
  buffer,    \* [buffer_, readerIndex_, writerIndex_]
  io,        \* the last call with its result
  aborted    \* an assertion of the class has failed

vars == <<buffer, io, aborted>>

readableBytes(b) == b.writerIndex_ - b.readerIndex_
writableBytes(b) == Len(b.buffer_) - b.writerIndex_
prependableBytes(b) == b.readerIndex_

\* The bytes from peek() to beginWrite().
Readable(b) == SubSeq(b.buffer_, b.readerIndex_ + 1, b.writerIndex_)

Q == INSTANCE ByteQueue WITH content <- Readable(buffer), alive <- ~aborted

\* The vector with data copied over it from index at on.
Copied(vector, at, data) ==
  [i \in DOMAIN vector |-> IF i - at \in DOMAIN data THEN data[i - at] ELSE vector[i]]

\* vector::resize: what is new is zero.
Resized(vector, size) == [i \in 1..size |-> IF i \in DOMAIN vector THEN vector[i] ELSE 0]

NewBuffer(initialSize) ==
  [buffer_ |-> Resized(<<>>, kCheapPrepend + initialSize),
   readerIndex_ |-> kCheapPrepend, writerIndex_ |-> kCheapPrepend]

Init ==
  /\ buffer = NewBuffer(kInitialSize)
  /\ io = Q!Call("none", <<>>, 0, <<>>)
  /\ aborted = FALSE

-----------------------------------------------------------------------------
(* Making room.                                                            *)

\* The readable bytes go to the front.
Moved(b) ==
  [buffer_ |-> Copied(b.buffer_, kCheapPrepend, Readable(b)),
   readerIndex_ |-> kCheapPrepend, writerIndex_ |-> kCheapPrepend + readableBytes(b)]

\* Mutant: the bytes kept free at the front count as room.
MovesTooEarly(b, len) == writableBytes(b) + prependableBytes(b) >= len

MustMove(b, len) == writableBytes(b) + prependableBytes(b) >= len + kCheapPrepend

makeSpace(b, len) ==
  IF MustMove(b, len) THEN Moved(b)
  ELSE [b EXCEPT !.buffer_ = Resized(@, b.writerIndex_ + len)]

ensureWritableBytes(b, len) == IF writableBytes(b) < len THEN makeSpace(b, len) ELSE b

\* The assertions of ensureWritableBytes and makeSpace.
RoomFails(b, len) ==
  \/ writableBytes(b) < len /\ MustMove(b, len) /\ b.readerIndex_ <= kCheapPrepend
  \/ writableBytes(ensureWritableBytes(b, len)) < len

hasWritten(b, len) == [b EXCEPT !.writerIndex_ = @ + len]

\* The bytes at beginWrite().
WrittenAt(b, data) == [b EXCEPT !.buffer_ = Copied(@, b.writerIndex_, data)]

append(b, data) ==
  hasWritten(WrittenAt(ensureWritableBytes(b, Len(data)), data), Len(data))

-----------------------------------------------------------------------------
(* Taking away.                                                            *)

retrieveAll(b) == [b EXCEPT !.readerIndex_ = kCheapPrepend, !.writerIndex_ = kCheapPrepend]

retrieve(b, len) ==
  IF len < readableBytes(b) THEN [b EXCEPT !.readerIndex_ = @ + len] ELSE retrieveAll(b)

unwrite(b, len) == [b EXCEPT !.writerIndex_ = @ - len]

prepend(b, data) ==
  LET at == b.readerIndex_ - Len(data)
  IN  [b EXCEPT !.readerIndex_ = at, !.buffer_ = Copied(@, at, data)]

shrink(b, reserve) ==
  append(ensureWritableBytes(NewBuffer(kInitialSize), readableBytes(b) + reserve), Readable(b))

\* findEOL and findCRLF: the place (from 1) among the readable bytes, or 0 for nullptr.
findEOL(b) ==
  LET s == Readable(b)
      ends == {i \in 1..Len(s) : s[i] = Q!LF}
  IN  IF ends = {} THEN 0 ELSE CHOOSE i \in ends : \A j \in ends : i <= j

findCRLF(b) ==
  LET s == Readable(b)
      starts == {i \in 1..(Len(s) - 1) : s[i] = Q!CR /\ s[i + 1] = Q!LF}
  IN  IF starts = {} THEN 0 ELSE CHOOSE i \in starts : \A j \in starts : i <= j

\* A host is little-endian: a number in memory has its last byte first.
hostToNetwork(bytes) == Reverse(bytes)
networkToHost(bytes) == Reverse(bytes)
HostNumber(bytes) ==
  LET N[k \in 0..Len(bytes)] ==   \* of the last k bytes
        IF k = 0 THEN 0 ELSE N[k - 1] * 256 + bytes[Len(bytes) - k + 1]
  IN  N[Len(bytes)]

-----------------------------------------------------------------------------
(* Calls.  The caller keeps to what the assertions ask of it.              *)

Data(n) == UNION {[1..k -> Bytes] : k \in 0..n}

AppendBytes(data) ==
  /\ Len(append(buffer, data).buffer_) <= MaxSize
  /\ buffer' = append(buffer, data)
  /\ aborted' = RoomFails(buffer, Len(data))
  /\ io' = Q!Call("append", data, 0, <<>>)

\* appendInt8, 16, 32, 64 of a number in memory.
AppendInt(host) ==
  /\ Len(host) \in IntSizes
  /\ AppendBytes(hostToNetwork(host))

\* The caller writes at beginWrite() and says so by hasWritten.
WriteInPlace(data) ==
  /\ Len(data) <= writableBytes(buffer)
  /\ buffer' = hasWritten(WrittenAt(buffer, data), Len(data))
  /\ io' = Q!Call("append", data, 0, <<>>)
  /\ UNCHANGED aborted

\* readFd: readv() fills the room there is, then extrabuf, which is appended.
ReadFd(data) ==
  LET writable == writableBytes(buffer)
      n == Len(data)
      full == hasWritten(WrittenAt(buffer, SubSeq(data, 1, writable)), writable)
      rest == SubSeq(data, writable + 1, n)
  IN  /\ n <= IF writable < ExtraSize THEN writable + ExtraSize ELSE writable
      /\ IF n <= writable
         THEN /\ buffer' = hasWritten(WrittenAt(buffer, data), n)
              /\ UNCHANGED aborted
         ELSE /\ Len(append(full, rest).buffer_) <= MaxSize
              /\ buffer' = append(full, rest)
              /\ aborted' = RoomFails(full, Len(rest))
      /\ io' = Q!Call("append", data, 0, <<>>)

\* readv() fails.
ReadFdFails ==
  /\ io' = Q!Call("arrange", <<>>, 0, <<>>)
  /\ UNCHANGED <<buffer, aborted>>

PrependBytes(data) ==
  /\ Len(data) <= prependableBytes(buffer)
  /\ buffer' = prepend(buffer, data)
  /\ io' = Q!Call("prepend", data, 0, <<>>)
  /\ UNCHANGED aborted

PrependInt(host) ==
  /\ Len(host) \in IntSizes
  /\ PrependBytes(hostToNetwork(host))

\* retrieve, retrieveUntil, retrieveAsString and retrieveAllAsString.
Retrieve(len) ==
  /\ len <= readableBytes(buffer)
  /\ buffer' = retrieve(buffer, len)
  /\ io' = Q!Call("retrieve", <<>>, len, SubSeq(Readable(buffer), 1, len))
  /\ UNCHANGED aborted

\* readInt8, 16, 32, 64: peekInt and retrieveInt.
ReadInt(size) ==
  /\ size <= readableBytes(buffer)
  /\ buffer' = retrieve(buffer, size)
  /\ io' = Q!Call("readInt", <<>>, size,
                  <<HostNumber(networkToHost(SubSeq(Readable(buffer), 1, size)))>>)
  /\ UNCHANGED aborted

\* A caller looks for the end of a line and retrieves the line.
ReadLine(at, terminator) ==
  LET len == IF at = 0 THEN 0 ELSE at + Len(terminator) - 1
  IN  /\ buffer' = IF at = 0 THEN buffer ELSE retrieve(buffer, len)
      /\ io' = Q!Call("line", terminator, len, SubSeq(Readable(buffer), 1, len))
      /\ UNCHANGED aborted

Unwrite(len) ==
  /\ len <= readableBytes(buffer)
  /\ buffer' = unwrite(buffer, len)
  /\ io' = Q!Call("unwrite", <<>>, len, <<>>)
  /\ UNCHANGED aborted

EnsureWritable(len) ==
  /\ Len(ensureWritableBytes(buffer, len).buffer_) <= MaxSize
  /\ buffer' = ensureWritableBytes(buffer, len)
  /\ aborted' = RoomFails(buffer, len)
  /\ io' = Q!Call("arrange", <<>>, 0, <<>>)

Shrink(reserve) ==
  /\ Len(shrink(buffer, reserve).buffer_) <= MaxSize
  /\ buffer' = shrink(buffer, reserve)
  /\ io' = Q!Call("arrange", <<>>, 0, <<>>)
  /\ UNCHANGED aborted

Next ==
  /\ ~aborted
  /\ \/ \E data \in Data(MaxWrite) :
          AppendBytes(data) \/ AppendInt(data) \/ WriteInPlace(data)
          \/ PrependBytes(data) \/ PrependInt(data)
     \/ \E data \in Data(MaxSize) : ReadFd(data)
     \/ ReadFdFails
     \/ \E len \in 0..MaxSize :
          Retrieve(len) \/ Unwrite(len) \/ EnsureWritable(len) \/ Shrink(len)
     \/ \E size \in IntSizes : ReadInt(size)
     \/ ReadLine(findEOL(buffer), <<Q!LF>>)
     \/ ReadLine(findCRLF(buffer), Q!kCRLF)

Spec == Init /\ [][Next]_vars

-----------------------------------------------------------------------------
\* A Buffer is a queue of bytes: whatever was written, moved to the front, grown, shrunk,
\* prepended or read past the end into extrabuf, each byte comes out once, in order, as
\* it went in, numbers have the value that was put in, lines end at the first
\* terminator, and no assertion of makeSpace or ensureWritableBytes fails
\* (Buffer.h:87-311, Buffer::readFd).
ImplementsByteQueue == Q!Spec
=============================================================================
