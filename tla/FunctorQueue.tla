---------------------------- MODULE FunctorQueue ----------------------------
(***************************************************************************)
(* What EventLoop promises to the threads that hand it functors: one queue *)
(* that keeps the order of arrival, from which functors are run one by one *)
(* and each at most once; a functor submitted by the loop thread itself    *)
(* through runInLoop is run on the spot, ahead of what is queued.          *)
(***************************************************************************)
EXTENDS Sequences, Functions

CONSTANT Functors

VARIABLES
  queue,    \* submitted and not yet started, in order of arrival
  ran       \* the functors started so far, in the order they started

vars == <<queue, ran>>

Seen == Range(queue) \union Range(ran)

Init == queue = <<>> /\ ran = <<>>

Enqueue(f) ==
  /\ f \notin Seen
  /\ queue' = Append(queue, f)
  /\ UNCHANGED ran

RunNow(f) ==
  /\ f \notin Seen
  /\ ran' = Append(ran, f)
  /\ UNCHANGED queue

RunHead ==
  /\ queue # <<>>
  /\ ran' = Append(ran, Head(queue))
  /\ queue' = Tail(queue)

Next == RunHead \/ \E f \in Functors : Enqueue(f) \/ RunNow(f)

Spec == Init /\ [][Next]_vars
=============================================================================
