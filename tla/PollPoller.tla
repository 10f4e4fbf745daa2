----------------------------- MODULE PollPoller -----------------------------
(***************************************************************************)
(* dws::net::PollPoller, the poller used when DWS_USE_POLL is set: the     *)
(* pollfd array, a channel's index_ as its place in it, and removal by     *)
(* swapping with the last entry.  A disabled entry holds -fd-1.            *)
(*                                                                         *)
(* Two asserts of the poller can fail: that of line 92 when a channel      *)
(* whose one and only update asked for nothing is removed, and that of     *)
(* line 66 when a removed channel is updated.                              *)
(***************************************************************************)
EXTENDS Channel

CONSTANT kInitEventListSize   \* zeroed entries the array starts with (16)

ASSUME PollPollerAssumption == kInitEventListSize \in Nat

VARIABLES
  pollfds_,    \* sequence of [fd, events]; entry i of the code is i + 1
  bare         \* history: channels updated once only, and that for nothing

arrayVars == <<pollfds_, bare>>
vars == <<exists, events_, index_, addedToLoop_, channels_, activeChannels_, handled,
          current, aborted, arrayVars>>

Zeroed == [fd |-> 0, events |-> {}]

TypeOK ==
  /\ ChannelTypeOK
  /\ aborted \in {"no", "PollPoller.cc:40", "PollPoller.cc:55", "PollPoller.cc:66",
                  "PollPoller.cc:92", "Channel.cc:31"}
  /\ pollfds_ \in Seq([fd : Int, events : SUBSET Events])
  /\ bare \subseteq Fds

Init ==
  /\ ChannelInit
  /\ pollfds_ = [i \in 1..kInitEventListSize |-> Zeroed]
  /\ bare = {}

-----------------------------------------------------------------------------

Ignored(fd) == -fd - 1

Place(fd) == index_[fd] + 1

\* Channel::update up to the poller.
Request(fd, ev) ==
  /\ aborted = "no" /\ InUserCode
  /\ fd \in exists
  /\ ev \in Requests(fd)
  /\ events_' = [events_ EXCEPT ![fd] = ev]
  /\ addedToLoop_' = addedToLoop_ \union {fd}
  /\ UNCHANGED <<exists, loopVars>>

\* updateChannel for a channel without a place: a new entry at the end, under the
\* descriptor itself even if nothing is asked for.
AddToPollfds(fd, ev) ==
  /\ Request(fd, ev)
  /\ index_[fd] < 0
  /\ IF fd \in channels_
     THEN aborted' = "PollPoller.cc:55" /\ UNCHANGED <<channels_, arrayVars, index_>>
     ELSE /\ pollfds_' = Append(pollfds_, [fd |-> fd, events |-> ev])
          /\ index_' = [index_ EXCEPT ![fd] = Len(pollfds_)]
          /\ channels_' = channels_ \union {fd}
          /\ bare' = IF ev = kNoneEvent THEN bare \union {fd} ELSE bare
          /\ UNCHANGED aborted

\* Mutant: a disabled entry keeps its descriptor.
ModifyWithoutDisable(fd, ev) ==
  /\ Request(fd, ev)
  /\ index_[fd] >= 0
  /\ fd \in channels_
  /\ pollfds_' = [pollfds_ EXCEPT ![Place(fd)] = [fd |-> fd, events |-> ev]]
  /\ bare' = bare \ {fd}
  /\ UNCHANGED <<index_, channels_, aborted>>

\* updateChannel for a channel that has, or had, a place: removeChannel leaves index_
\* as it is.
ModifyPollfd(fd, ev) ==
  /\ Request(fd, ev)
  /\ index_[fd] >= 0
  /\ IF fd \notin channels_
     THEN aborted' = "PollPoller.cc:66" /\ UNCHANGED arrayVars
     ELSE /\ pollfds_' = [pollfds_ EXCEPT ![Place(fd)] =
               [fd |-> IF ev = kNoneEvent THEN Ignored(fd) ELSE fd, events |-> ev]]
          /\ bare' = bare \ {fd}
          /\ UNCHANGED aborted
  /\ UNCHANGED <<index_, channels_>>

\* The descriptor an entry stands for, disabled or not.
Descriptor(pfd) == IF pfd.fd < 0 THEN -pfd.fd - 1 ELSE pfd.fd

\* Mutant: the channel whose entry is moved keeps its old index.
NotReindexed(fd) == index_

\* The last entry takes the place of fd's; its channel is told.
Reindexed(fd) ==
  IF Place(fd) = Len(pollfds_) THEN index_
  ELSE [index_ EXCEPT ![Descriptor(pollfds_[Len(pollfds_)])] = index_[fd]]

\* Channel::remove: the entry is swapped with the last one, whose channel is told
\* its new place, and popped.  Its own index_ is left as it is.
RemoveFromPollfds(fd) ==
  /\ aborted = "no" /\ InUserCode /\ MayRemove(fd)
  /\ fd \in exists /\ fd \in channels_ /\ isNoneEvent(fd)
  /\ addedToLoop_' = addedToLoop_ \ {fd}
  /\ IF pollfds_[Place(fd)].fd # Ignored(fd) \/ pollfds_[Place(fd)].events # events_[fd]
     THEN /\ aborted' = "PollPoller.cc:92"
          /\ UNCHANGED <<channels_, pollfds_, index_>>
     ELSE LET n == Len(pollfds_)
          IN  /\ channels_' = channels_ \ {fd}
              /\ index_' = Reindexed(fd)
              /\ pollfds_' = SubSeq([pollfds_ EXCEPT ![Place(fd)] = pollfds_[n]], 1, n - 1)
              /\ UNCHANGED aborted
  /\ UNCHANGED <<exists, events_, loopVars, bare>>

\* ::poll reports any of the entries it watches (an error is reported whatever the
\* entry asks for) and fillActiveChannels looks their descriptors up; an error of
\* the call, a timeout and a signal leave activeChannels_ empty.  The zeroed entries
\* make it watch descriptor 0 too, which is taken to report nothing.
Watched == {pollfds_[i].fd : i \in 1..Len(pollfds_)} \intersect (Nat \ {0})

Poll(reported) ==
  /\ aborted = "no"
  /\ reported \subseteq Watched
  /\ aborted' = IF reported \subseteq channels_ THEN "no" ELSE "PollPoller.cc:40"
  /\ Dispatch(reported \intersect channels_)
  /\ UNCHANGED <<chanVars, channels_, arrayVars>>

-----------------------------------------------------------------------------

Next ==
  \/ \E fd \in Fds :
       \/ (NewChannel(fd) \/ DeleteChannel(fd)) /\ InUserCode /\ UNCHANGED arrayVars
       \/ HandleEvent(fd) /\ UNCHANGED arrayVars
       \/ \E ev \in Requests(fd) : AddToPollfds(fd, ev) \/ ModifyPollfd(fd, ev)
       \/ RemoveFromPollfds(fd)
  \/ HandlerReturns /\ UNCHANGED arrayVars
  \/ \E reported \in SUBSET Watched : Poll(reported)

Spec == Init /\ [][Next]_vars

-----------------------------------------------------------------------------
(* Properties.                                                             *)

\* index_ leads every registered channel to its own entry, also after entries were
\* moved by removals, and besides the zeroed ones there are no other entries
\* (PollPoller.cc:67-71, 86-107).  An assert of the poller, or of Channel's
\* destructor, fails in two cases only: a channel is removed whose one update was for
\* nothing, or one that was removed is updated.
IndexLeadsToEntry ==
  /\ \/ aborted = "no"
     \/ aborted = "PollPoller.cc:92" /\ \E fd \in channels_ \ addedToLoop_ : fd \in bare
     \/ aborted = "PollPoller.cc:66" /\ \E fd \in addedToLoop_ \ channels_ : index_[fd] >= 0
  /\ Len(pollfds_) = kInitEventListSize + Cardinality(channels_)
  /\ \A fd \in channels_ :
       /\ Place(fd) \in (kInitEventListSize + 1)..Len(pollfds_)
       /\ Descriptor(pollfds_[Place(fd)]) = fd

\* The kernel is asked for what the channel asks for.  A channel that asks for nothing
\* is left out, unless that was its first update: then it is watched for errors still
\* (PollPoller.cc:54-63, against 72-77).
EntryMatchesChannel ==
  \A fd \in channels_ :
    pollfds_[Place(fd)] =
      [fd |-> IF isNoneEvent(fd) /\ fd \notin bare THEN Ignored(fd) ELSE fd,
       events |-> events_[fd]]
=============================================================================
