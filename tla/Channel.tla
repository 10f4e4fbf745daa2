------------------------------ MODULE Channel ------------------------------
(***************************************************************************)
(* The channels of one loop, as its poller sees them: a Channel object per *)
(* open file descriptor, what it asks for (events_), the mark the poller   *)
(* leaves on it (index_), and the dispatch of one poll's active channels   *)
(* by EventLoop::loop.  PollPoller.tla and EPollPoller.tla add the poller. *)
(*                                                                         *)
(* An assert that fails ends the program: "aborted" then holds the place   *)
(* of that assert and nothing moves any more.                              *)
(***************************************************************************)
EXTENDS Integers, Sequences, FiniteSets

CONSTANT Fds   \* the descriptors channels are made for

ASSUME FdsAssumption == Fds \subseteq Nat \ {0}

VARIABLES
  exists,        \* descriptors that have a Channel object
  events_,       \* descriptor -> what its channel asks for
  index_,        \* descriptor -> index_ of its channel
  addedToLoop_,  \* descriptors whose channel has addedToLoop_ set
  channels_,     \* the poller's map; the channel is the one of its descriptor
  activeChannels_,
  handled,       \* those of them whose handleEvent has been called
  current,       \* currentActiveChannel_, or 0; non-zero means eventHandling_
  aborted        \* the failed assert, or "no"

chanVars == <<exists, events_, index_, addedToLoop_>>
loopVars == <<activeChannels_, handled, current>>

Events == {"read", "write"}
kNoneEvent == {}
NoChannel == 0

isNoneEvent(fd) == events_[fd] = kNoneEvent

ChannelTypeOK ==
  /\ exists \subseteq Fds
  /\ events_ \in [Fds -> SUBSET Events]
  /\ index_ \in [Fds -> Int]
  /\ addedToLoop_ \subseteq Fds
  /\ channels_ \subseteq Fds
  /\ activeChannels_ \subseteq Fds /\ handled \subseteq activeChannels_
  /\ current \in Fds \union {NoChannel}

ChannelInit ==
  /\ exists = {}
  /\ events_ = [fd \in Fds |-> kNoneEvent]
  /\ index_ = [fd \in Fds |-> -1]
  /\ addedToLoop_ = {}
  /\ channels_ = {}
  /\ activeChannels_ = {} /\ handled = {} /\ current = NoChannel
  /\ aborted = "no"

\* What enableReading, disableReading, enableWriting, disableWriting and
\* disableAll make of events_.
Requests(fd) ==
  {events_[fd] \union {e} : e \in Events} \union {events_[fd] \ {e} : e \in Events}
    \union {kNoneEvent}

\* Channel::Channel.
NewChannel(fd) ==
  /\ aborted = "no"
  /\ fd \notin exists
  /\ exists' = exists \union {fd}
  /\ events_' = [events_ EXCEPT ![fd] = kNoneEvent]
  /\ index_' = [index_ EXCEPT ![fd] = -1]
  /\ addedToLoop_' = addedToLoop_ \ {fd}
  /\ UNCHANGED <<channels_, loopVars, aborted>>

\* Channel::~Channel, on the loop thread, with its three asserts.
DeleteChannel(fd) ==
  /\ aborted = "no"
  /\ fd \in exists /\ fd \notin addedToLoop_
  /\ current # fd
  /\ exists' = exists \ {fd}
  /\ aborted' = IF fd \in channels_ THEN "Channel.cc:31" ELSE "no"
  /\ UNCHANGED <<events_, index_, addedToLoop_, channels_, loopVars>>

-----------------------------------------------------------------------------
(* EventLoop::loop, lines 84-96.                                           *)

\* A poll returns: the poller filled activeChannels_.
Dispatch(active) ==
  /\ current = NoChannel /\ handled = activeChannels_
  /\ activeChannels_' = active
  /\ handled' = {}
  /\ UNCHANGED current

HandleEvent(fd) ==
  /\ aborted = "no"
  /\ current = NoChannel
  /\ fd \in activeChannels_ \ handled
  /\ current' = fd
  /\ handled' = handled \union {fd}
  /\ UNCHANGED <<chanVars, channels_, activeChannels_, aborted>>

HandlerReturns ==
  /\ aborted = "no"
  /\ current # NoChannel
  /\ current' = NoChannel
  /\ UNCHANGED <<chanVars, channels_, activeChannels_, handled, aborted>>

\* User code runs: in a handler, or after all of them (doPendingFunctors).
InUserCode == current # NoChannel \/ handled = activeChannels_

\* Mutant: the rule is not kept.
MayRemoveAny(fd) == TRUE

\* The rule EventLoop::removeChannel asserts (EventLoop.cc:160-164) and users keep:
\* a handler removes its own channel, or one that is not active.
MayRemove(fd) == current # NoChannel => fd = current \/ fd \notin activeChannels_

-----------------------------------------------------------------------------
(* A property of both pollers.                                             *)

\* A handler that is still to be called belongs to a channel that exists: nobody
\* removes and deletes a channel that poll reported and the loop will touch.
ActiveChannelsExist ==
  \A fd \in (activeChannels_ \ handled) \union ({current} \ {NoChannel}) : fd \in exists
=============================================================================
