---------------------------- MODULE EPollPoller ----------------------------
(***************************************************************************)
(* dws::net::EPollPoller, the default poller: channels marked kNew, kAdded *)
(* or kDeleted, the kernel's interest list, and poll, which decides by     *)
(* errno whether events happened.                                          *)
(***************************************************************************)
EXTENDS Channel

CONSTANT kInitEventListSize   \* room for events to begin with (16)

VARIABLES
  epollfd_,   \* the kernel's interest list: descriptors added
  eventsSize, \* events_.size()
  errno       \* "zero", "EINTR", or "other": left over from an earlier call

vars == <<exists, events_, index_, addedToLoop_, channels_, activeChannels_, handled,
          current, aborted, epollfd_, eventsSize, errno>>

kNew == -1
kAdded == 1
kDeleted == 2

Init ==
  /\ ChannelInit
  /\ epollfd_ = {}
  /\ eventsSize = kInitEventListSize
  /\ errno = "zero"

\* Channel::update up to the poller.
Request(fd, ev) ==
  /\ aborted = "no" /\ InUserCode
  /\ fd \in exists
  /\ ev \in Requests(fd)
  /\ events_' = [events_ EXCEPT ![fd] = ev]
  /\ addedToLoop_' = addedToLoop_ \union {fd}
  /\ UNCHANGED <<exists, loopVars, eventsSize, errno>>

\* updateChannel of a channel marked kNew.  The mark is set to what it was.
UpdateNew(fd, ev) ==
  /\ Request(fd, ev)
  /\ index_[fd] = kNew
  /\ IF fd \in channels_
     THEN aborted' = "EPollPoller.cc:84" /\ UNCHANGED <<channels_, epollfd_>>
     ELSE /\ channels_' = channels_ \union {fd}
          /\ epollfd_' = epollfd_ \union {fd}
          /\ UNCHANGED aborted
  /\ UNCHANGED index_

\* updateChannel of a channel marked kDeleted.
UpdateDeleted(fd, ev) ==
  /\ Request(fd, ev)
  /\ index_[fd] = kDeleted
  /\ epollfd_' = epollfd_ \union {fd}
  /\ UNCHANGED <<index_, channels_, aborted>>

\* updateChannel of a channel marked kAdded.
UpdateAdded(fd, ev) ==
  /\ Request(fd, ev)
  /\ index_[fd] = kAdded
  /\ epollfd_' = IF ev = kNoneEvent THEN epollfd_ \ {fd} ELSE epollfd_
  /\ index_' = [index_ EXCEPT ![fd] = IF ev = kNoneEvent THEN kDeleted ELSE kAdded]
  /\ UNCHANGED <<channels_, aborted>>

RemoveChannel(fd) ==
  /\ aborted = "no" /\ InUserCode /\ MayRemove(fd)
  /\ fd \in exists /\ fd \in channels_ /\ isNoneEvent(fd)
  /\ addedToLoop_' = addedToLoop_ \ {fd}
  /\ IF index_[fd] \notin {kAdded, kDeleted}
     THEN aborted' = "EPollPoller.cc:117" /\ UNCHANGED <<channels_, epollfd_, index_>>
     ELSE /\ channels_' = channels_ \ {fd}
          /\ epollfd_' = epollfd_ \ {fd}
          /\ index_' = [index_ EXCEPT ![fd] = kNew]
          /\ UNCHANGED aborted
  /\ UNCHANGED <<exists, events_, loopVars, eventsSize, errno>>

\* The conversion int -> size_t; 16 bits stand for its 64.
AsSizeT(n) == n % (2 ^ 16)

\* epoll_wait returned numEvents and errno is now err: the events it reported are
\* handed on if err is not zero, whatever numEvents is, and the array doubles when
\* it was full.
PollReturns(numEvents, reported, err) ==
  /\ aborted = "no"
  /\ errno' = err
  /\ aborted' = IF err # "zero" /\ AsSizeT(numEvents) > eventsSize
                THEN "EPollPoller.cc:62" ELSE "no"
  /\ eventsSize' = IF err # "zero" /\ AsSizeT(numEvents) = eventsSize
                   THEN 2 * eventsSize ELSE eventsSize
  /\ Dispatch(IF err # "zero" THEN reported ELSE {})
  /\ UNCHANGED <<chanVars, channels_, epollfd_>>

\* The call succeeds, which leaves errno as some earlier call left it.
Poll(reported) ==
  /\ reported \subseteq epollfd_ /\ Cardinality(reported) <= eventsSize
  /\ PollReturns(Cardinality(reported), reported, errno)

\* A signal interrupts the call: numEvents is -1.
PollInterrupted == PollReturns(-1, {}, "EINTR")

\* Some call of user code fails and leaves its errno behind.
CallFails ==
  /\ aborted = "no" /\ InUserCode
  /\ errno' = "other"
  /\ UNCHANGED <<chanVars, channels_, loopVars, aborted, epollfd_, eventsSize>>

Next ==
  \/ \E fd \in Fds :
       \/ /\ NewChannel(fd) \/ DeleteChannel(fd)
          /\ InUserCode /\ UNCHANGED <<epollfd_, eventsSize, errno>>
       \/ HandleEvent(fd) /\ UNCHANGED <<epollfd_, eventsSize, errno>>
       \/ \E ev \in Requests(fd) :
            UpdateNew(fd, ev) \/ UpdateDeleted(fd, ev) \/ UpdateAdded(fd, ev)
       \/ RemoveChannel(fd)
  \/ HandlerReturns /\ UNCHANGED <<epollfd_, eventsSize, errno>>
  \/ \E reported \in SUBSET epollfd_ : Poll(reported)
  \/ PollInterrupted \/ CallFails

Spec == Init /\ [][Next]_vars

-----------------------------------------------------------------------------
(* Properties.                                                             *)

\* assert(channels_.find(fd) == channels_.end()), EPollPoller.cc:84: a channel
\* marked kNew is not registered.
NewChannelIsUnknown == aborted # "EPollPoller.cc:84"
=============================================================================
