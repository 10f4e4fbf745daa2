--------------------------- MODULE PollPollerProofs ---------------------------
(***************************************************************************)
(* Safety of PollPoller for every set of descriptors and every initial     *)
(* size of the pollfd array: the channels' indices and the array agree     *)
(* after any sequence of updates and swapping removals, an assert of the   *)
(* poller fails for the two known causes only and none of Channel's        *)
(* destructor does, and no handler is called on a channel that is gone.    *)
(***************************************************************************)
EXTENDS PollPoller, FiniteSetTheorems, SequenceTheorems, TLAPS

Pollfd == [fd : Int, events : SUBSET Events]

-----------------------------------------------------------------------------
(* The inductive invariant.  IndexLeadsToEntry says nothing of the places  *)
(* no channel has: that each of them beyond the zeroed ones is some        *)
(* channel's is what makes the last entry a channel's when removeChannel   *)
(* swaps it, and what makes every descriptor poll reports a known one.     *)

\* The poller's map is the set of channels that believe they are added, as long as no
\* assert has failed.
MapIsAdded ==
  /\ aborted = "no" => channels_ = addedToLoop_
  /\ channels_ \subseteq exists
  /\ bare \subseteq channels_
  /\ IsFiniteSet(channels_)

\* The asserts that fail, and why.
Failures ==
  \/ aborted = "no"
  \/ aborted = "PollPoller.cc:92" /\ \E fd \in channels_ \ addedToLoop_ : fd \in bare
  \/ aborted = "PollPoller.cc:66" /\ \E fd \in addedToLoop_ \ channels_ : index_[fd] >= 0

\* Every registered channel has a place beyond the zeroed entries, and those are
\* all the places.
Places ==
  /\ Len(pollfds_) = kInitEventListSize + Cardinality(channels_)
  /\ \A fd \in channels_ : Place(fd) \in (kInitEventListSize + 1)..Len(pollfds_)
  /\ \A i \in (kInitEventListSize + 1)..Len(pollfds_) : \E fd \in channels_ : Place(fd) = i

ZeroedStay == \A i \in 1..kInitEventListSize : pollfds_[i] = Zeroed

\* A handler still to be called is that of a registered channel, the running one
\* that of an existing channel.
Dispatching ==
  /\ activeChannels_ \ handled \subseteq channels_
  /\ current # NoChannel => current \in handled /\ current \in exists

PollInv ==
  /\ TypeOK
  /\ Failures
  /\ MapIsAdded
  /\ Places
  /\ ZeroedStay
  /\ EntryMatchesChannel
  /\ Dispatching

-----------------------------------------------------------------------------
(* Lemmas about one state.                                                 *)

\* Descriptors are positive, so that a disabled entry (-fd-1) is told from an
\* enabled one and gives the descriptor back.
LEMMA IgnoredGivesBack ==
  ASSUME NEW fd \in Fds, NEW ev
  PROVE  /\ fd \in Nat \ {0} /\ Ignored(fd) \in Int /\ Ignored(fd) < 0
         /\ Descriptor([fd |-> Ignored(fd), events |-> ev]) = fd
         /\ Descriptor([fd |-> fd, events |-> ev]) = fd
<1>1. fd \in Nat \ {0}
  BY FdsAssumption
<1> QED BY <1>1 DEF Ignored, Descriptor

\* The entry of a registered channel stands for its descriptor.
LEMMA EntryOfChannel ==
  ASSUME TypeOK, EntryMatchesChannel, NEW fd \in channels_
  PROVE  Descriptor(pollfds_[Place(fd)]) = fd
<1>1. fd \in Fds
  BY DEF TypeOK, ChannelTypeOK
<1> QED BY <1>1, IgnoredGivesBack DEF EntryMatchesChannel

\* No two registered channels share a place.
LEMMA PlacesDiffer ==
  ASSUME TypeOK, EntryMatchesChannel, NEW a \in channels_, NEW b \in channels_,
         Place(a) = Place(b)
  PROVE  a = b
BY EntryOfChannel

\* What poll can report is registered.
LEMMA WatchedIsKnown ==
  ASSUME PollInv
  PROVE  Watched \subseteq channels_
<1> SUFFICES ASSUME NEW i \in 1..Len(pollfds_), pollfds_[i].fd \in Nat \ {0}
             PROVE  pollfds_[i].fd \in channels_
  BY DEF Watched
<1>1. Len(pollfds_) \in Nat /\ kInitEventListSize \in Nat
  BY PollPollerAssumption DEF PollInv, TypeOK
<1>2. i \notin 1..kInitEventListSize
  BY DEF PollInv, ZeroedStay, Zeroed
<1>3. i \in (kInitEventListSize + 1)..Len(pollfds_)
  BY <1>1, <1>2
<1>4. PICK fd \in channels_ : Place(fd) = i
  BY <1>3 DEF PollInv, Places
<1>5. pollfds_[i] = [fd |-> IF isNoneEvent(fd) /\ fd \notin bare THEN Ignored(fd) ELSE fd,
                     events |-> events_[fd]]
  BY <1>4 DEF PollInv, EntryMatchesChannel
<1>6. fd \in Fds /\ Ignored(fd) < 0
  BY IgnoredGivesBack DEF PollInv, TypeOK, ChannelTypeOK
<1>7. pollfds_[i].fd = Ignored(fd) \/ pollfds_[i].fd = fd
  BY <1>5
<1> QED BY <1>6, <1>7, IgnoredGivesBack

-----------------------------------------------------------------------------
(* One lemma per operation.                                                *)

\* The invariant holds at first.
LEMMA InitInv == Init => PollInv
<1> SUFFICES ASSUME Init PROVE PollInv
  OBVIOUS
<1>1. /\ channels_ = {} /\ addedToLoop_ = {} /\ exists = {} /\ bare = {} /\ aborted = "no"
      /\ activeChannels_ = {} /\ handled = {} /\ current = NoChannel
  BY DEF Init, ChannelInit
<1>2. kInitEventListSize \in Nat /\ Zeroed \in Pollfd
  BY PollPollerAssumption DEF Zeroed, Pollfd
<1>3. pollfds_ \in Seq(Pollfd) /\ Len(pollfds_) = kInitEventListSize
  BY <1>2 DEF Init
<1>4. TypeOK
  <2>1. events_ \in [Fds -> SUBSET Events] /\ index_ \in [Fds -> Int]
    BY DEF Init, ChannelInit, kNoneEvent
  <2> QED BY <1>1, <1>3, <2>1 DEF TypeOK, ChannelTypeOK, Pollfd
<1>5. MapIsAdded
  BY <1>1, FS_EmptySet DEF MapIsAdded
<1>6. Places
  BY <1>1, <1>2, <1>3, FS_EmptySet DEF Places
<1>7. ZeroedStay
  BY DEF Init, ZeroedStay
<1>8. EntryMatchesChannel /\ Dispatching
  BY <1>1 DEF EntryMatchesChannel, Dispatching
<1> QED BY <1>1, <1>4, <1>5, <1>6, <1>7, <1>8 DEF PollInv, Failures

\* Steps that leave the array and the registered channels alone.
LEMMA ArrayKept ==
  ASSUME PollInv, UNCHANGED <<channels_, arrayVars>>,
         \A fd \in channels_ : index_'[fd] = index_[fd] /\ events_'[fd] = events_[fd]
  PROVE  Places' /\ ZeroedStay' /\ EntryMatchesChannel'
<1>1. Places'
  BY DEF PollInv, Places, Place, arrayVars
<1>2. ZeroedStay'
  BY DEF PollInv, ZeroedStay, arrayVars
<1>3. EntryMatchesChannel'
  BY DEF PollInv, EntryMatchesChannel, Place, isNoneEvent, arrayVars
<1> QED BY <1>1, <1>2, <1>3

\* Channel::Channel.
LEMMA NewChannelStep ==
  ASSUME PollInv, NEW fd \in Fds, NewChannel(fd), UNCHANGED arrayVars
  PROVE  PollInv'
<1> USE DEF NewChannel, loopVars, arrayVars
<1>1. fd \notin channels_ /\ fd \notin addedToLoop_
  BY DEF PollInv, MapIsAdded
<1>2. TypeOK'
  BY DEF PollInv, TypeOK, ChannelTypeOK, kNoneEvent
<1>3. MapIsAdded'
  BY <1>1 DEF PollInv, MapIsAdded
<1>4. \A g \in channels_ : index_'[g] = index_[g] /\ events_'[g] = events_[g]
  BY <1>1 DEF PollInv, TypeOK, ChannelTypeOK
<1>5. Dispatching' /\ Failures'
  BY DEF PollInv, Dispatching, Failures
<1> QED BY <1>2, <1>3, <1>4, <1>5, ArrayKept DEF PollInv

\* Channel::~Channel: its assert that no poller knows the channel holds.
LEMMA DeleteChannelStep ==
  ASSUME PollInv, NEW fd \in Fds, DeleteChannel(fd), UNCHANGED arrayVars
  PROVE  PollInv'
<1> USE DEF DeleteChannel, loopVars, arrayVars
<1>1. fd \notin channels_
  BY DEF PollInv, MapIsAdded
<1>2. TypeOK' /\ aborted' = "no"
  BY <1>1 DEF PollInv, TypeOK, ChannelTypeOK
<1>3. MapIsAdded'
  BY <1>1 DEF PollInv, MapIsAdded
<1>4. Dispatching' /\ Failures'
  BY <1>2 DEF PollInv, Dispatching, Failures
<1> QED BY <1>2, <1>3, <1>4, ArrayKept DEF PollInv

\* The loop's own steps: calling a handler, its return, and the next poll.
LEMMA LoopStep ==
  ASSUME PollInv,
         \/ (\E fd \in Fds : HandleEvent(fd)) /\ UNCHANGED arrayVars
         \/ HandlerReturns /\ UNCHANGED arrayVars
         \/ \E reported \in SUBSET Watched : Poll(reported)
  PROVE  PollInv'
<1>1. CASE (\E fd \in Fds : HandleEvent(fd)) /\ UNCHANGED arrayVars
  <2>1. PICK fd \in Fds : HandleEvent(fd)
    BY <1>1
  <2> USE <1>1, <2>1 DEF HandleEvent, chanVars, arrayVars
  <2>2. TypeOK'
    BY DEF PollInv, TypeOK, ChannelTypeOK
  <2>3. MapIsAdded' /\ Dispatching' /\ Failures'
    BY DEF PollInv, MapIsAdded, Dispatching, Failures
  <2> QED BY <2>2, <2>3, ArrayKept DEF PollInv
<1>2. CASE HandlerReturns /\ UNCHANGED arrayVars
  <2> USE <1>2 DEF HandlerReturns, chanVars, arrayVars
  <2>1. TypeOK'
    BY DEF PollInv, TypeOK, ChannelTypeOK
  <2>2. MapIsAdded' /\ Dispatching' /\ Failures'
    BY DEF PollInv, MapIsAdded, Dispatching, Failures
  <2> QED BY <2>1, <2>2, ArrayKept DEF PollInv
<1>3. CASE \E reported \in SUBSET Watched : Poll(reported)
  <2>1. PICK reported \in SUBSET Watched : Poll(reported)
    BY <1>3
  <2>2. reported \subseteq channels_
    BY WatchedIsKnown
  <2> USE <2>1, <2>2 DEF Poll, Dispatch, chanVars, arrayVars
  <2>3. TypeOK' /\ aborted' = "no"
    BY DEF PollInv, TypeOK, ChannelTypeOK
  <2>4. MapIsAdded' /\ Dispatching' /\ Failures'
    BY <2>3 DEF PollInv, MapIsAdded, Dispatching, Failures
  <2> QED BY <2>3, <2>4, ArrayKept DEF PollInv
<1> QED BY <1>1, <1>2, <1>3

\* updateChannel of a channel without a place: the new last entry is its own, and
\* the assert of line 55 holds.
LEMMA AddStep ==
  ASSUME PollInv, NEW fd \in Fds, NEW ev \in Requests(fd), AddToPollfds(fd, ev)
  PROVE  PollInv'
<1> DEFINE k == kInitEventListSize
           n == Len(pollfds_)
           e == [fd |-> fd, events |-> ev]
<1>1. TypeOK /\ k \in Nat /\ n \in Nat /\ pollfds_ \in Seq(Pollfd)
  BY PollPollerAssumption DEF PollInv, TypeOK, Pollfd
<1>2. fd \notin channels_
  <2> SUFFICES ASSUME fd \in channels_ PROVE FALSE
    OBVIOUS
  <2>1. Place(fd) \in (k + 1)..n /\ index_[fd] \in Int
    BY <1>1 DEF PollInv, Places, TypeOK, ChannelTypeOK
  <2> QED BY <1>1, <2>1 DEF AddToPollfds, Place
<1>3. /\ events_' = [events_ EXCEPT ![fd] = ev]
      /\ addedToLoop_' = addedToLoop_ \union {fd}
      /\ pollfds_' = Append(pollfds_, e)
      /\ index_' = [index_ EXCEPT ![fd] = n]
      /\ channels_' = channels_ \union {fd}
      /\ bare' = (IF ev = kNoneEvent THEN bare \union {fd} ELSE bare)
      /\ fd \in exists /\ fd \notin bare /\ aborted = "no"
      /\ UNCHANGED <<aborted, exists, activeChannels_, handled, current>>
  BY <1>2 DEF AddToPollfds, Request, loopVars, PollInv, MapIsAdded
<1>4. ev \in SUBSET Events /\ e \in Pollfd
  <2>1. ev \in SUBSET Events
    BY <1>1 DEF Requests, TypeOK, ChannelTypeOK, Events, kNoneEvent
  <2>2. fd \in Int
    BY FdsAssumption
  <2> QED BY <2>1, <2>2 DEF Pollfd
<1>5. /\ pollfds_' \in Seq(Pollfd) /\ Len(pollfds_') = n + 1
      /\ \A i \in 1..n : pollfds_'[i] = pollfds_[i]
      /\ pollfds_'[n + 1] = e
  BY <1>1, <1>3, <1>4, AppendProperties
<1>6. /\ index_'[fd] = n /\ events_'[fd] = ev
      /\ \A g \in channels_ : index_'[g] = index_[g] /\ events_'[g] = events_[g]
  BY <1>1, <1>2, <1>3 DEF TypeOK, ChannelTypeOK
<1>7. TypeOK'
  BY <1>1, <1>3, <1>4, <1>5 DEF TypeOK, ChannelTypeOK, Pollfd
<1>8. MapIsAdded'
  BY <1>3, FS_AddElement DEF PollInv, MapIsAdded
<1>9. Places'
  <2>1. Len(pollfds_') = k + Cardinality(channels_')
    <3>1. IsFiniteSet(channels_) /\ n = k + Cardinality(channels_)
      BY DEF PollInv, MapIsAdded, Places
    <3>2. Cardinality(channels_) \in Nat
      BY <3>1, FS_CardinalityType
    <3>3. Cardinality(channels_') = Cardinality(channels_) + 1
      BY <1>2, <1>3, <3>1, FS_AddElement
    <3> QED BY <1>1, <1>5, <3>1, <3>2, <3>3
  <2>2. ASSUME NEW g \in channels_' PROVE Place(g)' \in (k + 1)..Len(pollfds_')
    <3>1. CASE g = fd
      <4>1. k <= n
        <5>1. IsFiniteSet(channels_) /\ n = k + Cardinality(channels_)
          BY DEF PollInv, MapIsAdded, Places
        <5> QED BY <1>1, <5>1, FS_CardinalityType
      <4> QED BY <1>1, <1>5, <1>6, <3>1, <4>1 DEF Place
    <3>2. CASE g \in channels_
      <4>1. Place(g) \in (k + 1)..n
        BY <3>2 DEF PollInv, Places
      <4> QED BY <1>1, <1>5, <1>6, <3>2, <4>1 DEF Place
    <3> QED BY <1>3, <3>1, <3>2
  <2>3. ASSUME NEW i \in (k + 1)..Len(pollfds_') PROVE \E g \in channels_' : Place(g)' = i
    <3>1. CASE i = n + 1
      BY <1>3, <1>6, <3>1 DEF Place
    <3>2. CASE i # n + 1
      <4>1. PICK g \in channels_ : Place(g) = i
        BY <1>1, <1>5, <3>2 DEF PollInv, Places
      <4> QED BY <1>3, <1>6, <4>1 DEF Place
    <3> QED BY <3>1, <3>2
  <2> QED BY <2>1, <2>2, <2>3 DEF Places
<1>10. ZeroedStay'
  <2>1. k <= n
    <3>1. IsFiniteSet(channels_) /\ n = k + Cardinality(channels_)
      BY DEF PollInv, MapIsAdded, Places
    <3> QED BY <1>1, <3>1, FS_CardinalityType
  <2> QED BY <1>1, <1>5, <2>1 DEF PollInv, ZeroedStay
<1>11. EntryMatchesChannel'
  <2> SUFFICES ASSUME NEW g \in channels_'
               PROVE  pollfds_'[index_'[g] + 1] =
                        [fd |-> IF events_'[g] = kNoneEvent /\ g \notin bare' THEN Ignored(g) ELSE g,
                         events |-> events_'[g]]
    BY DEF EntryMatchesChannel, Place, isNoneEvent
  <2>1. CASE g = fd
    BY <1>3, <1>5, <1>6, <2>1
  <2>2. CASE g \in channels_
    <3>1. Place(g) \in 1..n
      BY <1>1, <2>2 DEF PollInv, Places
    <3>2. pollfds_[Place(g)] = [fd |-> IF isNoneEvent(g) /\ g \notin bare THEN Ignored(g) ELSE g,
                                events |-> events_[g]]
      BY <2>2 DEF PollInv, EntryMatchesChannel
    <3>3. g \in bare' <=> g \in bare
      BY <1>2, <1>3, <2>2
    <3> QED BY <1>5, <1>6, <2>2, <3>1, <3>2, <3>3 DEF Place, isNoneEvent
  <2> QED BY <1>3, <2>1, <2>2
<1>12. Dispatching' /\ Failures'
  BY <1>3 DEF PollInv, Dispatching, Failures
<1> QED BY <1>7, <1>8, <1>9, <1>10, <1>11, <1>12 DEF PollInv

\* updateChannel of a channel that was removed: the assert of line 66 fails, and the
\* channel believes that it is added.
LEMMA UpdateRemovedStep ==
  ASSUME PollInv, NEW fd \in Fds, NEW ev \in Requests(fd), ModifyPollfd(fd, ev),
         fd \notin channels_
  PROVE  PollInv'
<1>1. /\ fd \in exists /\ index_[fd] >= 0
      /\ aborted' = "PollPoller.cc:66"
      /\ events_' = [events_ EXCEPT ![fd] = ev]
      /\ addedToLoop_' = addedToLoop_ \union {fd}
      /\ UNCHANGED <<index_, channels_, arrayVars, exists, activeChannels_, handled, current>>
  BY DEF ModifyPollfd, Request, loopVars
<1>2. TypeOK'
  <2>1. TypeOK /\ ev \in SUBSET Events
    BY DEF PollInv, Requests, TypeOK, ChannelTypeOK, Events, kNoneEvent
  <2> QED BY <1>1, <2>1 DEF TypeOK, ChannelTypeOK, arrayVars
<1>3. Failures'
  BY <1>1 DEF Failures
<1>4. MapIsAdded' /\ Dispatching'
  BY <1>1 DEF PollInv, MapIsAdded, Dispatching, arrayVars
<1>5. \A g \in channels_ : index_'[g] = index_[g] /\ events_'[g] = events_[g]
  BY <1>1 DEF PollInv, TypeOK, ChannelTypeOK
<1> QED BY <1>1, <1>2, <1>3, <1>4, <1>5, ArrayKept DEF PollInv

\* updateChannel of a registered channel: only its own entry is written.
LEMMA ModifyStep ==
  ASSUME PollInv, NEW fd \in Fds, NEW ev \in Requests(fd), ModifyPollfd(fd, ev),
         fd \in channels_
  PROVE  PollInv'
<1> DEFINE k == kInitEventListSize
           n == Len(pollfds_)
           e == [fd |-> IF ev = kNoneEvent THEN Ignored(fd) ELSE fd, events |-> ev]
<1>1. TypeOK /\ k \in Nat /\ n \in Nat /\ pollfds_ \in Seq(Pollfd)
  BY PollPollerAssumption DEF PollInv, TypeOK, Pollfd
<1>2. /\ fd \in channels_ /\ fd \in exists
      /\ events_' = [events_ EXCEPT ![fd] = ev]
      /\ addedToLoop_' = addedToLoop_ \union {fd}
      /\ pollfds_' = [pollfds_ EXCEPT ![Place(fd)] = e]
      /\ bare' = bare \ {fd} /\ aborted = "no"
      /\ UNCHANGED <<index_, channels_, aborted, exists, activeChannels_, handled, current>>
  BY DEF ModifyPollfd, Request, loopVars
<1>3. ev \in SUBSET Events /\ e \in Pollfd
  <2>1. ev \in SUBSET Events
    BY <1>1 DEF Requests, TypeOK, ChannelTypeOK, Events, kNoneEvent
  <2>2. fd \in Int /\ Ignored(fd) \in Int
    BY FdsAssumption DEF Ignored
  <2> QED BY <2>1, <2>2 DEF Pollfd
<1>4. Place(fd) \in (k + 1)..n
  BY <1>2 DEF PollInv, Places
<1>5. /\ pollfds_' \in Seq(Pollfd) /\ Len(pollfds_') = n
      /\ \A i \in 1..n : pollfds_'[i] = IF i = Place(fd) THEN e ELSE pollfds_[i]
  BY <1>1, <1>2, <1>3, <1>4, ExceptSeq
<1>6. TypeOK'
  BY <1>1, <1>2, <1>3, <1>5 DEF TypeOK, ChannelTypeOK, Pollfd
<1>7. MapIsAdded' /\ Dispatching' /\ Failures'
  BY <1>2 DEF PollInv, MapIsAdded, Dispatching, Failures
<1>8. Places'
  BY <1>2, <1>5 DEF PollInv, Places, Place
<1>9. ZeroedStay'
  BY <1>1, <1>4, <1>5 DEF PollInv, ZeroedStay
<1>10. EntryMatchesChannel'
  <2> SUFFICES ASSUME NEW g \in channels_
               PROVE  pollfds_'[Place(g)] =
                        [fd |-> IF events_'[g] = kNoneEvent /\ g \notin bare' THEN Ignored(g) ELSE g,
                         events |-> events_'[g]]
    BY <1>2 DEF EntryMatchesChannel, Place, isNoneEvent
  <2>1. Place(g) \in 1..n
    BY <1>1 DEF PollInv, Places
  <2>2. CASE g = fd
    BY <1>1, <1>2, <1>5, <2>1, <2>2 DEF TypeOK, ChannelTypeOK
  <2>3. CASE g # fd
    <3>1. Place(g) # Place(fd)
      BY <1>2, <2>3, PlacesDiffer DEF PollInv
    <3>2. events_'[g] = events_[g]
      BY <1>1, <1>2, <2>3 DEF TypeOK, ChannelTypeOK
    <3>3. pollfds_[Place(g)] = [fd |-> IF isNoneEvent(g) /\ g \notin bare THEN Ignored(g) ELSE g,
                                events |-> events_[g]]
      BY DEF PollInv, EntryMatchesChannel
    <3>4. g \in bare' <=> g \in bare
      BY <1>2, <2>3
    <3> QED BY <1>5, <2>1, <3>1, <3>2, <3>3, <3>4 DEF isNoneEvent
  <2> QED BY <2>2, <2>3
<1> QED BY <1>6, <1>7, <1>8, <1>9, <1>10 DEF PollInv

\* removeChannel of a channel whose one update was for nothing: the assert of line 92
\* fails, and the channel believes that it is removed.
LEMMA RemoveBareStep ==
  ASSUME PollInv, NEW fd \in Fds, RemoveFromPollfds(fd), fd \in bare
  PROVE  PollInv'
<1>1. /\ fd \in channels_ /\ aborted = "no"
      /\ addedToLoop_' = addedToLoop_ \ {fd}
      /\ UNCHANGED <<bare, exists, events_, activeChannels_, handled, current>>
  BY DEF RemoveFromPollfds, loopVars
<1>2. pollfds_[Place(fd)].fd = fd
  <2>1. pollfds_[Place(fd)] = [fd |-> fd, events |-> events_[fd]]
    BY <1>1 DEF PollInv, EntryMatchesChannel
  <2> QED BY <2>1
<1>3. fd # Ignored(fd)
  BY FdsAssumption DEF Ignored
<1>4. aborted' = "PollPoller.cc:92" /\ UNCHANGED <<channels_, pollfds_, bare, index_>>
  BY <1>1, <1>2, <1>3 DEF RemoveFromPollfds
<1>5. TypeOK'
  BY <1>1, <1>4 DEF PollInv, TypeOK, ChannelTypeOK
<1>6. Failures'
  BY <1>1, <1>4 DEF Failures
<1>7. MapIsAdded' /\ Dispatching'
  BY <1>1, <1>4 DEF PollInv, MapIsAdded, Dispatching
<1> QED BY <1>1, <1>4, <1>5, <1>6, <1>7, ArrayKept DEF PollInv, arrayVars

\* removeChannel: the channel of the last entry gets the removed one's place, and
\* the assert of line 92 holds.
LEMMA RemoveStep ==
  ASSUME PollInv, NEW fd \in Fds, RemoveFromPollfds(fd), fd \notin bare
  PROVE  PollInv'
<1> DEFINE k == kInitEventListSize
           n == Len(pollfds_)
           p == Place(fd)
<1>1. TypeOK /\ k \in Nat /\ n \in Nat /\ pollfds_ \in Seq(Pollfd)
  BY PollPollerAssumption DEF PollInv, TypeOK, Pollfd
<1>2. /\ fd \in channels_ /\ events_[fd] = kNoneEvent /\ InUserCode /\ MayRemove(fd)
      /\ aborted = "no"
  BY DEF RemoveFromPollfds, isNoneEvent
<1>3. p \in (k + 1)..n
  BY <1>2 DEF PollInv, Places
<1>4. pollfds_[p].fd = Ignored(fd) /\ pollfds_[p].events = events_[fd]
  <2>1. pollfds_[p] = [fd |-> IF isNoneEvent(fd) /\ fd \notin bare THEN Ignored(fd) ELSE fd,
                       events |-> events_[fd]]
    BY <1>2 DEF PollInv, EntryMatchesChannel
  <2>2. isNoneEvent(fd)
    BY <1>2 DEF isNoneEvent
  <2> QED BY <2>1, <2>2
<1>5. /\ addedToLoop_' = addedToLoop_ \ {fd}
      /\ channels_' = channels_ \ {fd}
      /\ index_' = Reindexed(fd)
      /\ pollfds_' = SubSeq([pollfds_ EXCEPT ![p] = pollfds_[n]], 1, n - 1)
      /\ UNCHANGED <<aborted, bare, exists, events_, activeChannels_, handled, current>>
  BY <1>4 DEF RemoveFromPollfds, loopVars
<1>6. PICK l \in channels_ : Place(l) = n
  BY <1>1, <1>3 DEF PollInv, Places
<1>7. Descriptor(pollfds_[n]) = l
  BY <1>1, <1>6, EntryOfChannel DEF PollInv
<1>8. index_' = IF p = n THEN index_ ELSE [index_ EXCEPT ![l] = index_[fd]]
  BY <1>5, <1>7 DEF Reindexed
<1>9. \A g \in channels_ : g \in Fds /\ Place(g) \in (k + 1)..n /\ index_[g] \in Int
  BY <1>1 DEF PollInv, Places, TypeOK, ChannelTypeOK
<1>10. /\ pollfds_' \in Seq(Pollfd) /\ Len(pollfds_') = n - 1
       /\ \A i \in 1..(n - 1) : pollfds_'[i] = IF i = p THEN pollfds_[n] ELSE pollfds_[i]
  <2> DEFINE q == [pollfds_ EXCEPT ![p] = pollfds_[n]]
  <2>1. pollfds_[n] \in Pollfd
    BY <1>1, <1>3
  <2>2. /\ q \in Seq(Pollfd) /\ Len(q) = n
        /\ \A i \in 1..n : q[i] = IF i = p THEN pollfds_[n] ELSE pollfds_[i]
    BY <1>1, <1>3, <2>1, ExceptSeq
  <2>3. \A i \in 1..(n - 1) : q[i] \in Pollfd
    BY <1>1, <2>2
  <2> HIDE DEF q
  <2>4. /\ SubSeq(q, 1, n - 1) \in Seq(Pollfd)
        /\ Len(SubSeq(q, 1, n - 1)) = n - 1
        /\ \A i \in 1..(n - 1) : SubSeq(q, 1, n - 1)[i] = q[i]
    BY <1>1, <1>3, <2>2, <2>3
  <2> QED BY <1>1, <1>5, <2>2, <2>4 DEF q
<1>11. TypeOK'
  <2>1. index_' \in [Fds -> Int]
    BY <1>1, <1>2, <1>8, <1>9 DEF TypeOK, ChannelTypeOK
  <2> QED BY <1>1, <1>5, <1>10, <2>1 DEF TypeOK, ChannelTypeOK, Pollfd
<1>12. MapIsAdded'
  BY <1>2, <1>5, FS_RemoveElement DEF PollInv, MapIsAdded
\* where each remaining channel's entry is now
<1>13. \A g \in channels_' : /\ g \in channels_ /\ g # fd
                             /\ Place(g)' = IF Place(g) = n THEN p ELSE Place(g)
  <2> SUFFICES ASSUME NEW g \in channels_, g # fd
               PROVE  Place(g)' = IF Place(g) = n THEN p ELSE Place(g)
    BY <1>5
  <2>1. Place(g) # p
    BY <1>2, PlacesDiffer DEF PollInv
  <2>2. CASE g = l
    BY <1>1, <1>6, <1>8, <1>9, <2>1, <2>2 DEF Place, TypeOK, ChannelTypeOK
  <2>3. CASE g # l
    <3>1. Place(g) # n
      BY <1>6, <2>3, PlacesDiffer DEF PollInv
    <3> QED BY <1>1, <1>8, <1>9, <2>3, <3>1 DEF Place, TypeOK, ChannelTypeOK
  <2> QED BY <2>2, <2>3
<1>14. Places'
  <2>1. Len(pollfds_') = k + Cardinality(channels_')
    <3>1. IsFiniteSet(channels_) /\ n = k + Cardinality(channels_)
      BY DEF PollInv, MapIsAdded, Places
    <3>2. Cardinality(channels_) \in Nat
      BY <3>1, FS_CardinalityType
    <3>3. Cardinality(channels_') = Cardinality(channels_) - 1
      BY <1>2, <1>5, <3>1, FS_RemoveElement
    <3> QED BY <1>1, <1>10, <3>1, <3>2, <3>3
  <2>2. ASSUME NEW g \in channels_' PROVE Place(g)' \in (k + 1)..Len(pollfds_')
    <3>1. Place(g) # p
      BY <1>2, <1>13, PlacesDiffer DEF PollInv
    <3> QED BY <1>1, <1>3, <1>9, <1>10, <1>13, <3>1
  <2>3. ASSUME NEW i \in (k + 1)..Len(pollfds_') PROVE \E g \in channels_' : Place(g)' = i
    <3>1. i \in (k + 1)..n /\ i # n
      BY <1>1, <1>10
    <3>2. CASE i = p
      <4>1. l # fd
        BY <1>6, <3>1, <3>2
      <4> QED BY <1>5, <1>6, <1>13, <3>2, <4>1
    <3>3. CASE i # p
      <4>1. PICK g \in channels_ : Place(g) = i
        BY <3>1 DEF PollInv, Places
      <4>2. g # fd
        BY <3>3, <4>1
      <4> QED BY <1>5, <1>13, <3>1, <4>1, <4>2
    <3> QED BY <3>2, <3>3
  <2> QED BY <2>1, <2>2, <2>3 DEF Places
<1>15. ZeroedStay'
  BY <1>1, <1>3, <1>10 DEF PollInv, ZeroedStay
<1>16. EntryMatchesChannel'
  <2> SUFFICES ASSUME NEW g \in channels_'
               PROVE  pollfds_'[Place(g)'] =
                        [fd |-> IF events_[g] = kNoneEvent /\ g \notin bare THEN Ignored(g) ELSE g,
                         events |-> events_[g]]
    BY <1>5 DEF EntryMatchesChannel, isNoneEvent
  <2>1. Place(g)' \in 1..(n - 1)
    BY <1>1, <1>10, <1>14 DEF Places
  <2>2. Place(g) # p
    BY <1>2, <1>13, PlacesDiffer DEF PollInv
  <2>3. pollfds_'[Place(g)'] = pollfds_[Place(g)]
    BY <1>10, <1>13, <2>1, <2>2
  <2>4. pollfds_[Place(g)] = [fd |-> IF isNoneEvent(g) /\ g \notin bare THEN Ignored(g) ELSE g,
                              events |-> events_[g]]
    BY <1>13 DEF PollInv, EntryMatchesChannel
  <2> QED BY <2>3, <2>4 DEF isNoneEvent
\* a handler that is still to be called keeps its channel
<1>17. Dispatching' /\ Failures'
  BY <1>2, <1>5 DEF PollInv, Dispatching, Failures, InUserCode, MayRemove
<1> QED BY <1>11, <1>12, <1>14, <1>15, <1>16, <1>17 DEF PollInv

-----------------------------------------------------------------------------
(* The theorems.                                                           *)

\* The inductive invariant holds in every reachable state.
THEOREM PollPollerInvariant == Spec => []PollInv
<1>1. PollInv /\ [Next]_vars => PollInv'
  <2> SUFFICES ASSUME PollInv, [Next]_vars PROVE PollInv'
    OBVIOUS
  <2>1. CASE \E fd \in Fds : (NewChannel(fd) \/ DeleteChannel(fd)) /\ UNCHANGED arrayVars
    BY <2>1, NewChannelStep, DeleteChannelStep
  <2>2. CASE \E fd \in Fds : \E ev \in Requests(fd) : AddToPollfds(fd, ev) \/ ModifyPollfd(fd, ev)
    BY <2>2, AddStep, ModifyStep, UpdateRemovedStep
  <2>3. CASE \E fd \in Fds : RemoveFromPollfds(fd)
    BY <2>3, RemoveStep, RemoveBareStep
  <2>4. CASE \/ (\E fd \in Fds : HandleEvent(fd)) /\ UNCHANGED arrayVars
             \/ HandlerReturns /\ UNCHANGED arrayVars
             \/ \E reported \in SUBSET Watched : Poll(reported)
    BY <2>4, LoopStep
  <2>5. CASE UNCHANGED vars
    BY <2>5 DEF vars, arrayVars, PollInv, Failures, TypeOK, ChannelTypeOK, MapIsAdded, Places,
       Place, ZeroedStay, EntryMatchesChannel, isNoneEvent, Dispatching
  <2> QED BY <2>1, <2>2, <2>3, <2>4, <2>5 DEF Next
<1> QED BY <1>1, InitInv, PTL DEF Spec

\* Every registered channel's index_ leads to its own entry and there is no entry
\* without a channel but the zeroed ones: removeChannel's swap keeps the array and the
\* indices in step for any number of channels and any order of removals.  The assert of
\* line 92 fails only for a channel whose one update was for nothing, that of line 66
\* only for one that was removed, and no other assert of PollPoller.cc or of Channel's
\* destructor ever does.
THEOREM IndicesCorrect == Spec => []IndexLeadsToEntry
<1>1. PollInv => IndexLeadsToEntry
  BY EntryOfChannel DEF PollInv, Failures, Places, IndexLeadsToEntry
<1> QED BY <1>1, PollPollerInvariant, PTL

\* The kernel is asked for exactly what each registered channel asks for, and a channel
\* that asks for nothing is not watched, unless it has asked for nothing from the first.
THEOREM KernelAsked == Spec => []EntryMatchesChannel
<1>1. PollInv => EntryMatchesChannel
  BY DEF PollInv
<1> QED BY <1>1, PollPollerInvariant, PTL

\* No handler is called, or running, on a channel that was deleted.
THEOREM HandlersAlive == Spec => []ActiveChannelsExist
<1>1. PollInv => ActiveChannelsExist
  BY DEF PollInv, Dispatching, MapIsAdded, ActiveChannelsExist
<1> QED BY <1>1, PollPollerInvariant, PTL
=============================================================================
