----------------------------- MODULE ByteQueue -----------------------------
(***************************************************************************)
(* What a dws::net::Buffer promises: a queue of bytes that is filled at    *)
(* both ends and emptied at both.  io is the last call with its result.    *)
(***************************************************************************)
EXTENDS Integers, Sequences, SequencesExt

VARIABLES
  content,   \* the bytes to be read
  io,        \* [op, data, n, result]
  alive      \* no assertion has ended the program

LF == 10
CR == 13
kCRLF == <<CR, LF>>

Call(op, data, n, result) == [op |-> op, data |-> data, n |-> n, result |-> result]

\* The number that bytes are in network order.
Number(bytes) ==
  LET N[k \in 0..Len(bytes)] ==   \* of the first k bytes
        IF k = 0 THEN 0 ELSE N[k - 1] * 256 + bytes[k]
  IN  N[Len(bytes)]

\* The first place at or after from where text stands in bytes, 0 if there is none.
FirstPlace(bytes, text, from) ==
  LET places == {i \in from..(Len(bytes) - Len(text) + 1) :
                   SubSeq(bytes, i, i + Len(text) - 1) = text}
  IN  IF places = {} THEN 0 ELSE CHOOSE i \in places : \A j \in places : i <= j

First(n) == SubSeq(content, 1, n)
Without(n) == SubSeq(content, n + 1, Len(content))

Init == content = <<>> /\ io = Call("none", <<>>, 0, <<>>) /\ alive = TRUE

AppendBytes == io' = Call("append", io'.data, 0, <<>>) /\ content' = content \o io'.data
PrependBytes == io' = Call("prepend", io'.data, 0, <<>>) /\ content' = io'.data \o content

Retrieve(n) == io' = Call("retrieve", <<>>, n, First(n)) /\ content' = Without(n)
Unwrite(n) == io' = Call("unwrite", <<>>, n, <<>>) /\ content' = First(Len(content) - n)
ReadInt(n) ==
  io'.op = "readInt" /\ io'.n = n /\ io' = Call("readInt", <<>>, n, <<Number(First(n))>>) /\ content' = Without(n)

\* A line is everything up to the first terminator, and the terminator.
ReadLine(terminator) ==
  LET at == FirstPlace(content, terminator, 1)
      n == at + Len(terminator) - 1
  IN  IF at = 0 THEN io' = Call("line", terminator, 0, <<>>) /\ content' = content
      ELSE io' = Call("line", terminator, n, First(n)) /\ content' = Without(n)

\* Calls that only move bytes about.
Arrange == io' = Call("arrange", <<>>, 0, <<>>) /\ content' = content

Next ==
  /\ alive' = alive
  /\ \/ AppendBytes \/ PrependBytes \/ Arrange
     \/ \E n \in 0..Len(content) : Retrieve(n) \/ Unwrite(n) \/ ReadInt(n)
     \/ ReadLine(<<LF>>) \/ ReadLine(kCRLF)

Spec == Init /\ [][Next]_<<content, io, alive>>
=============================================================================
