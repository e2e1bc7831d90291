------------------------------- MODULE Poller -------------------------------
(***************************************************************************)
(* The channels of one EventLoop, the EpollPoller that registers them and  *)
(* the kernel's epoll instance.  Everything runs on the loop thread: the   *)
(* calls on channels come from callbacks while events are handled, or from *)
(* functors between two polls.                                             *)
(***************************************************************************)
EXTENDS Naturals, FiniteSets

CONSTANTS
    Channels,      \* the addresses of Channel objects
    Fds,           \* file descriptors
    None,
    InitEventList  \* kInitEventListSize

ASSUME PollerAssumption ==
    /\ None \notin Channels \cup Fds
    /\ InitEventList \in Nat \ {0}

VARIABLES
    fdOf,      \* Channel::_fd, None while there is no object at the address
    events,    \* Channel::_events
    label,     \* Channel::_label
    added,     \* Channel::_addedToLoop
    channels,  \* Poller::_channels
    epoll,     \* kernel: the registration of every file descriptor
    ctlOk,     \* the last epoll_ctl() succeeded
    listSize,  \* EpollPoller::_events.size()
    handling,  \* EventLoop::_eventHandling
    active,    \* EventLoop::_activeChannels
    handled,   \* the part of it already handled
    current    \* EventLoop::_currentActiveChannel

channelVars == <<fdOf, events, label, added>>
pollerVars == <<channels, epoll, ctlOk>>
loopVars == <<listSize, handling, active, handled, current>>
vars == <<channelVars, pollerVars, loopVars>>

Interests == {"read", "write"}
Labels == {"kNew", "kAdded", "kDeleted"}

NoReg == [channel |-> None, interest |-> {}]
Registration == [channel : Channels \cup {None}, interest : SUBSET Interests]

TypeOK ==
    /\ fdOf \in [Channels -> Fds \cup {None}]
    /\ events \in [Channels -> SUBSET Interests]
    /\ label \in [Channels -> Labels]
    /\ added \in [Channels -> BOOLEAN]
    /\ channels \in [Fds -> Channels \cup {None}]
    /\ epoll \in [Fds -> Registration]
    /\ ctlOk \in BOOLEAN
    /\ listSize \in Nat
    /\ handling \in BOOLEAN
    /\ active \subseteq Channels
    /\ handled \subseteq active
    /\ current \in Channels \cup {None}

Init ==
    /\ fdOf = [c \in Channels |-> None]
    /\ events = [c \in Channels |-> {}]
    /\ label = [c \in Channels |-> "kNew"]
    /\ added = [c \in Channels |-> FALSE]
    /\ channels = [fd \in Fds |-> None]
    /\ epoll = [fd \in Fds |-> NoReg]
    /\ ctlOk = TRUE
    /\ listSize = InitEventList
    /\ handling = FALSE
    /\ active = {}
    /\ handled = {}
    /\ current = None

-----------------------------------------------------------------------------
(* The kernel                                                              *)

\* epoll_ctl(): ADD fails with EEXIST, MOD and DEL with ENOENT
CtlSucceeds(operation, fd) ==
    IF operation = "ADD" THEN epoll[fd] = NoReg ELSE epoll[fd] # NoReg

EpollCtl(operation, fd, c, interest) ==
    /\ ctlOk' = CtlSucceeds(operation, fd)
    /\ epoll' = IF ~CtlSucceeds(operation, fd) THEN epoll
                ELSE [epoll EXCEPT ![fd] = IF operation = "DEL" THEN NoReg
                        ELSE [channel |-> c, interest |-> interest]]

-----------------------------------------------------------------------------
(* EpollPoller and Channel                                                 *)

MayRun == handling => current # None

UpdateChannelNoMod(c, interest) ==
    /\ channels' = [channels EXCEPT ![fdOf[c]] = c]
    /\ label' = [label EXCEPT ![c] = IF interest = {} THEN "kDeleted" ELSE "kAdded"]
    /\ IF label[c] # "kAdded" THEN EpollCtl("ADD", fdOf[c], c, interest)
       ELSE IF interest = {} THEN EpollCtl("DEL", fdOf[c], c, interest)
       ELSE UNCHANGED <<ctlOk, epoll>>

\* EpollPoller::updateChannel() for a channel whose events are now `interest'
UpdateChannel(c, interest) ==
    LET fd == fdOf[c] IN
    IF label[c] \in {"kNew", "kDeleted"}
      THEN /\ channels' = IF label[c] = "kNew" THEN [channels EXCEPT ![fd] = c] ELSE channels
           /\ label' = [label EXCEPT ![c] = "kAdded"]
           /\ EpollCtl("ADD", fd, c, interest)
      ELSE /\ channels' = channels
           /\ IF interest = {}
                THEN /\ EpollCtl("DEL", fd, c, interest)
                     /\ label' = [label EXCEPT ![c] = "kDeleted"]
                ELSE /\ EpollCtl("MOD", fd, c, interest)
                     /\ label' = label

\* enableReading(), disableReading(), enableWriting(), disableWriting() and
\* disableAll(): the mask changes, then update()
NewEvents(c) ==
    {events[c] \cup {"read"}, events[c] \ {"read"},
     events[c] \cup {"write"}, events[c] \ {"write"}, {}}

Update(c) ==
    /\ MayRun
    /\ fdOf[c] # None
    /\ \E interest \in NewEvents(c) :
        /\ events' = [events EXCEPT ![c] = interest]
        /\ UpdateChannel(c, interest)
    /\ added' = [added EXCEPT ![c] = TRUE]
    /\ UNCHANGED <<fdOf, loopVars>>

RemoveChannelKeepingEntry(c) ==
    /\ channels' = channels
    /\ IF label[c] = "kAdded" THEN EpollCtl("DEL", fdOf[c], c, {})
                              ELSE UNCHANGED <<ctlOk, epoll>>
    /\ label' = [label EXCEPT ![c] = "kNew"]

\* EpollPoller::removeChannel()
RemoveChannel(c) ==
    /\ channels' = [channels EXCEPT ![fdOf[c]] = None]
    /\ IF label[c] = "kAdded" THEN EpollCtl("DEL", fdOf[c], c, {})
                              ELSE UNCHANGED <<ctlOk, epoll>>
    /\ label' = [label EXCEPT ![c] = "kNew"]

\* The assertions of Channel::remove(), EventLoop::removeChannel() and the
\* first one of EpollPoller::removeChannel(): the owner disables the channel
\* first and, while events are handled, removes no other active channel
Remove(c) ==
    /\ MayRun
    /\ fdOf[c] # None
    /\ events[c] = {}
    /\ handling => c = current \/ c \notin active
    /\ label[c] # "kNew"
    /\ added' = [added EXCEPT ![c] = FALSE]
    /\ RemoveChannel(c)
    /\ UNCHANGED <<fdOf, events, loopVars>>

\* Channel::Channel(), on a descriptor no other channel uses
Construct(c, fd) ==
    /\ MayRun
    /\ fdOf[c] = None
    /\ \A d \in Channels : fdOf[d] # fd
    /\ fdOf' = [fdOf EXCEPT ![c] = fd]
    /\ events' = [events EXCEPT ![c] = {}]
    /\ label' = [label EXCEPT ![c] = "kNew"]
    /\ added' = [added EXCEPT ![c] = FALSE]
    /\ UNCHANGED <<pollerVars, loopVars>>

DestroyAnytime(c) ==
    /\ MayRun
    /\ fdOf[c] # None
    /\ fdOf' = [fdOf EXCEPT ![c] = None]
    /\ UNCHANGED <<events, label, added, pollerVars, loopVars>>

\* Channel::~Channel() with its assertions: never while its own callback
\* runs and never before remove()
Destroy(c) ==
    /\ MayRun
    /\ fdOf[c] # None
    /\ handling => c # current
    /\ ~added[c]
    /\ fdOf' = [fdOf EXCEPT ![c] = None]
    /\ UNCHANGED <<events, label, added, pollerVars, loopVars>>

-----------------------------------------------------------------------------
(* EventLoop::loop()                                                       *)

Registered == {fd \in Fds : epoll[fd] # NoReg}

\* epoll_wait() returns at most listSize events, then the list doubles if it
\* was full; an unwatched descriptor (empty interest) still reports ERR, HUP
Poll ==
    /\ ~handling
    /\ \E ready \in SUBSET Registered :
        /\ Cardinality(ready) \in 1..listSize
        /\ active' = {epoll[fd].channel : fd \in ready}
        /\ listSize' = IF Cardinality(ready) = listSize THEN 2 * listSize ELSE listSize
    /\ handled' = {}
    /\ handling' = TRUE
    /\ UNCHANGED <<current, channelVars, pollerVars>>

\* the next channel of the for loop over _activeChannels
HandleEvent(c) ==
    /\ handling
    /\ c \in active \ handled
    /\ current' = c
    /\ handled' = handled \cup {c}
    /\ UNCHANGED <<listSize, handling, active, channelVars, pollerVars>>

EndEvents ==
    /\ handling
    /\ handled = active
    /\ handling' = FALSE
    /\ current' = None
    /\ UNCHANGED <<listSize, active, handled, channelVars, pollerVars>>

Next ==
    \/ \E c \in Channels :
        \/ Update(c)
        \/ Remove(c)
        \/ \E fd \in Fds : Construct(c, fd)
        \/ Destroy(c)
        \/ HandleEvent(c)
    \/ Poll
    \/ EndEvents

Spec == Init /\ [][Next]_vars

-----------------------------------------------------------------------------
(* Properties                                                              *)

RegistrationsMatch ==
    \A fd \in Fds :
        LET c == channels[fd] IN
        epoll[fd] = IF c # None /\ label[c] = "kAdded"
                      THEN [channel |-> c, interest |-> events[c]] ELSE NoReg

\* The kernel watches exactly the channels labelled kAdded, for the events
\* they ask for, and hands back the channel that owns the descriptor now: no
\* stale registration after a removal.  And epoll_ctl() never fails, so the
\* LOG_SYSFATAL of EpollPoller::update() is never reached, whatever the order
\* of enabling, disabling, removal and descriptor reuse
\* (EpollPoller::updateChannel, EpollPoller::removeChannel).
KernelMatchesLabels == ctlOk /\ RegistrationsMatch

\* The map holds a descriptor exactly while its channel is not kNew: every
\* assertion on _channels in updateChannel() and removeChannel() holds for
\* every call a caller may make.
MapMatchesLabels ==
    \A c \in Channels :
        /\ fdOf[c] # None => (label[c] # "kNew" <=> channels[fdOf[c]] = c)
        /\ fdOf[c] # None /\ label[c] = "kNew" => channels[fdOf[c]] = None
        /\ fdOf[c] = None => \A fd \in Fds : channels[fd] # c

\* The event loop never calls handleEvent() on a destroyed channel: an active
\* channel that is still to be handled stays alive (EventLoop::loop,
\* EventLoop::removeChannel).
ActiveChannelsAlive ==
    handling => \A c \in active \ handled : fdOf[c] # None
=============================================================================
