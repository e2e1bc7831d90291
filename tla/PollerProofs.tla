---------------------------- MODULE PollerProofs ----------------------------
(***************************************************************************)
(* The agreement of the channels' labels, the poller's map and the         *)
(* kernel's registrations, for any number of channels and descriptors.     *)
(***************************************************************************)
EXTENDS Poller, TLAPS

\* Channels of the same loop never share a descriptor.
FdsDistinct ==
    \A c, d \in Channels : fdOf[c] # None /\ fdOf[c] = fdOf[d] => c = d

\* The map entry of a descriptor is the live channel that owns it.
EntriesOwned ==
    \A fd \in Fds :
        channels[fd] # None => fdOf[channels[fd]] = fd /\ label[channels[fd]] # "kNew"

\* A destroyed channel was removed, and only a channel that was updated is
\* known to the poller.
LabelsMatchAdded ==
    \A c \in Channels :
        /\ fdOf[c] # None => (added[c] <=> label[c] # "kNew")
        /\ fdOf[c] # None /\ label[c] # "kNew" => channels[fdOf[c]] = c

\* A channel that is still to be handled is known to the poller; the one being
\* handled is past the cursor.
ActiveAdded ==
    /\ handling => \A c \in active \ handled : fdOf[c] # None /\ label[c] # "kNew"
    /\ current # None => handling /\ current \in handled

MapInv ==
    /\ FdsDistinct
    /\ EntriesOwned
    /\ LabelsMatchAdded
    /\ RegistrationsMatch
    /\ ctlOk

IInv == TypeOK /\ MapInv /\ ActiveAdded

\* The initial state, before any channel is constructed.
LEMMA InvInit == Init => IInv
<1> SUFFICES ASSUME Init PROVE IInv
  OBVIOUS
<1>1. TypeOK
  <2>1. epoll \in [Fds -> Registration]
    BY DEF Init, NoReg, Registration
  <2>2. added \in [Channels -> BOOLEAN] /\ ctlOk \in BOOLEAN /\ handling \in BOOLEAN
    BY DEF Init
  <2> QED
    BY <2>1, <2>2, PollerAssumption DEF Init, TypeOK, Labels
<1>2. MapInv
  BY PollerAssumption DEF Init, MapInv, FdsDistinct, EntriesOwned, LabelsMatchAdded,
                          RegistrationsMatch
<1>3. ActiveAdded
  BY DEF Init, ActiveAdded
<1> QED
  BY <1>1, <1>2, <1>3 DEF IInv

\* A registration is never confused with its absence.
LEMMA RegistrationProper ==
  ASSUME NEW c \in Channels, NEW e \in SUBSET Interests
  PROVE  [channel |-> c, interest |-> e] # NoReg
BY PollerAssumption DEF NoReg

\* An epoll_ctl() that succeeds changes the registration of one descriptor.
LEMMA CtlEffect ==
  ASSUME TypeOK, NEW fd \in Fds, NEW c \in Channels, NEW e \in SUBSET Interests,
         NEW operation \in {"ADD", "MOD", "DEL"},
         CtlSucceeds(operation, fd), EpollCtl(operation, fd, c, e)
  PROVE  /\ ctlOk'
         /\ epoll' \in [Fds -> Registration]
         /\ \A g \in Fds \ {fd} : epoll'[g] = epoll[g]
         /\ epoll'[fd] = IF operation = "DEL" THEN NoReg
                         ELSE [channel |-> c, interest |-> e]
BY DEF TypeOK, EpollCtl, Registration, NoReg

\* Channel::update(): whatever the label, the epoll_ctl() that it leads to
\* succeeds and the three views agree again.
LEMMA UpdateKeepsInv ==
  ASSUME IInv, NEW c \in Channels, Update(c)
  PROVE  IInv'
<1> DEFINE fd == fdOf[c]
<1>1. PICK e \in NewEvents(c) :
        events' = [events EXCEPT ![c] = e] /\ UpdateChannel(c, e)
  BY DEF Update
<1>2. e \in SUBSET Interests
  BY DEF IInv, TypeOK, NewEvents, Interests
<1>3. /\ fd \in Fds /\ fd # None /\ c # None
      /\ fdOf' = fdOf /\ added' = [added EXCEPT ![c] = TRUE]
  BY PollerAssumption DEF Update, IInv, TypeOK
<1>4. /\ ctlOk'
      /\ epoll' \in [Fds -> Registration]
      /\ \A g \in Fds \ {fd} : epoll'[g] = epoll[g]
      /\ epoll'[fd] = IF label[c] = "kAdded" /\ e = {} THEN NoReg
                      ELSE [channel |-> c, interest |-> e]
  <2>1. CASE label[c] \in {"kNew", "kDeleted"}
    <3>1. EpollCtl("ADD", fd, c, e)
      BY <1>1, <2>1 DEF UpdateChannel
    <3>2. channels[fd] = None \/ label[channels[fd]] # "kAdded"
      <4>1. CASE label[c] = "kNew"
        BY <1>3, <4>1 DEF IInv, MapInv, EntriesOwned, TypeOK, FdsDistinct
      <4>2. CASE label[c] = "kDeleted"
        BY <1>3, <4>2 DEF IInv, MapInv, LabelsMatchAdded
      <4> QED
        BY <2>1, <4>1, <4>2
    <3>3. CtlSucceeds("ADD", fd)
      BY <1>3, <3>2 DEF IInv, MapInv, RegistrationsMatch, CtlSucceeds
    <3> QED
      BY <3>1, <3>3, <1>2, <1>3, <2>1, CtlEffect DEF IInv
  <2>2. CASE label[c] = "kAdded"
    <3>1. epoll[fd] # NoReg
      <4>1. channels[fd] = c
        BY <1>3, <2>2 DEF IInv, MapInv, LabelsMatchAdded
      <4>2. epoll[fd] = [channel |-> c, interest |-> events[c]]
        BY <1>3, <2>2, <4>1 DEF IInv, MapInv, RegistrationsMatch
      <4>3. events[c] \in SUBSET Interests
        BY DEF IInv, TypeOK
      <4> QED
        BY <4>2, <4>3, RegistrationProper
    <3>2. CASE e = {}
      BY <1>1, <1>2, <1>3, <2>2, <3>1, <3>2, CtlEffect DEF IInv, UpdateChannel, CtlSucceeds
    <3>3. CASE e # {}
      BY <1>1, <1>2, <1>3, <2>2, <3>1, <3>3, CtlEffect DEF IInv, UpdateChannel, CtlSucceeds
    <3> QED
      BY <3>2, <3>3
  <2> QED
    BY <2>1, <2>2 DEF IInv, TypeOK, Labels
<1>5. /\ label' = [label EXCEPT ![c] = IF label[c] = "kAdded" /\ e = {} THEN "kDeleted"
                                       ELSE "kAdded"]
      /\ channels' = [channels EXCEPT ![fd] = c]
  <2>1. label[c] \in {"kAdded", "kDeleted"} => channels[fd] = c
    BY <1>3 DEF IInv, MapInv, LabelsMatchAdded
  <2> QED
    BY <1>1, <1>3, <2>1 DEF IInv, TypeOK, Labels, UpdateChannel
<1> HIDE DEF fd
<1>6. TypeOK'
  BY <1>1, <1>2, <1>3, <1>4, <1>5 DEF IInv, TypeOK, Labels, Update, loopVars
<1>7. FdsDistinct' /\ EntriesOwned' /\ LabelsMatchAdded'
  BY <1>3, <1>5 DEF fd, IInv, MapInv, FdsDistinct, EntriesOwned, LabelsMatchAdded, TypeOK
<1>8. RegistrationsMatch'
  <2> SUFFICES ASSUME NEW g \in Fds
               PROVE  epoll'[g] = IF channels'[g] # None /\ label'[channels'[g]] = "kAdded"
                        THEN [channel |-> channels'[g], interest |-> events'[channels'[g]]]
                        ELSE NoReg
    BY DEF RegistrationsMatch
  <2>1. CASE g = fd
    BY <1>1, <1>3, <1>4, <1>5, <2>1, PollerAssumption DEF IInv, TypeOK
  <2>2. CASE g # fd
    <3>1. channels[g] # c
      BY <1>3, <2>2 DEF fd, IInv, MapInv, EntriesOwned
    <3> QED
      BY <1>1, <1>3, <1>4, <1>5, <2>2, <3>1 DEF IInv, MapInv, RegistrationsMatch, TypeOK
  <2> QED
    BY <2>1, <2>2
<1>9. ActiveAdded'
  BY <1>3, <1>5 DEF IInv, ActiveAdded, Update, loopVars, TypeOK
<1> QED
  BY <1>4, <1>6, <1>7, <1>8, <1>9 DEF IInv, MapInv

\* Channel::remove(): the registration goes with the map entry.
LEMMA RemoveKeepsInv ==
  ASSUME IInv, NEW c \in Channels, Remove(c)
  PROVE  IInv'
<1> DEFINE fd == fdOf[c]
<1>1. /\ fd \in Fds /\ fd # None /\ c # None /\ label[c] # "kNew" /\ events[c] = {}
      /\ UNCHANGED <<fdOf, events, loopVars>>
      /\ added' = [added EXCEPT ![c] = FALSE]
      /\ label' = [label EXCEPT ![c] = "kNew"]
      /\ channels' = [channels EXCEPT ![fd] = None]
  BY PollerAssumption DEF Remove, RemoveChannel, IInv, TypeOK
<1>2. channels[fd] = c
  BY <1>1 DEF IInv, MapInv, LabelsMatchAdded
<1>3. /\ ctlOk'
      /\ epoll' \in [Fds -> Registration]
      /\ \A g \in Fds \ {fd} : epoll'[g] = epoll[g]
      /\ epoll'[fd] = NoReg
  <2>1. CASE label[c] = "kAdded"
    <3>1. epoll[fd] = [channel |-> c, interest |-> events[c]]
      BY <1>1, <1>2, <2>1 DEF IInv, MapInv, RegistrationsMatch
    <3>2. CtlSucceeds("DEL", fd)
      BY <1>1, <3>1, RegistrationProper DEF CtlSucceeds
    <3>3. EpollCtl("DEL", fd, c, {})
      BY <2>1 DEF Remove, RemoveChannel
    <3> QED
      BY <1>1, <3>2, <3>3, CtlEffect DEF IInv
  <2>2. CASE label[c] # "kAdded"
    <3>1. UNCHANGED <<ctlOk, epoll>>
      BY <2>2 DEF Remove, RemoveChannel
    <3>2. epoll[fd] = NoReg
      BY <1>1, <1>2, <2>2 DEF IInv, MapInv, RegistrationsMatch
    <3> QED
      BY <3>1, <3>2 DEF IInv, MapInv, TypeOK
  <2> QED
    BY <2>1, <2>2
<1> HIDE DEF fd
<1>4. TypeOK'
  BY <1>1, <1>3 DEF IInv, TypeOK, Labels, loopVars
<1>5. FdsDistinct' /\ EntriesOwned' /\ LabelsMatchAdded'
  BY <1>1 DEF fd, IInv, MapInv, FdsDistinct, EntriesOwned, LabelsMatchAdded, TypeOK
<1>6. RegistrationsMatch'
  <2>1. \A g \in Fds \ {fd} : channels[g] # c
    BY <1>1 DEF fd, IInv, MapInv, EntriesOwned
  <2> QED
    BY <1>1, <1>3, <2>1 DEF IInv, MapInv, RegistrationsMatch, TypeOK
<1>7. ActiveAdded'
  <2>1. handling => c \notin active \ handled
    BY <1>1 DEF Remove, IInv, ActiveAdded
  <2> QED
    BY <1>1, <2>1 DEF IInv, ActiveAdded, loopVars, TypeOK
<1> QED
  BY <1>3, <1>4, <1>5, <1>6, <1>7 DEF IInv, MapInv

\* Channel::Channel() on a free descriptor, at an address that may have been
\* that of another channel.
LEMMA ConstructKeepsInv ==
  ASSUME IInv, NEW c \in Channels, NEW fd \in Fds, Construct(c, fd)
  PROVE  IInv'
<1>1. /\ fdOf[c] = None /\ fd # None /\ c # None
      /\ \A d \in Channels : fdOf[d] # fd
      /\ fdOf' = [fdOf EXCEPT ![c] = fd] /\ label' = [label EXCEPT ![c] = "kNew"]
      /\ events' = [events EXCEPT ![c] = {}] /\ added' = [added EXCEPT ![c] = FALSE]
      /\ UNCHANGED <<pollerVars, loopVars>>
  BY PollerAssumption DEF Construct
<1>2. \A g \in Fds : channels[g] # c
  BY <1>1, PollerAssumption DEF IInv, MapInv, EntriesOwned
<1>3. channels[fd] = None
  BY <1>1 DEF IInv, MapInv, EntriesOwned, TypeOK
<1>4. TypeOK'
  BY <1>1 DEF IInv, TypeOK, Labels, pollerVars, loopVars
<1>5. FdsDistinct' /\ EntriesOwned' /\ LabelsMatchAdded'
  BY <1>1, <1>2 DEF IInv, MapInv, FdsDistinct, EntriesOwned, LabelsMatchAdded, TypeOK,
                    pollerVars
<1>6. RegistrationsMatch' /\ ctlOk'
  BY <1>1, <1>2 DEF IInv, MapInv, RegistrationsMatch, TypeOK, pollerVars
<1>7. ActiveAdded'
  BY <1>1 DEF IInv, ActiveAdded, loopVars, TypeOK
<1> QED
  BY <1>4, <1>5, <1>6, <1>7 DEF IInv, MapInv

\* Channel::~Channel(): with its assertions true, nothing refers to it.
LEMMA DestroyKeepsInv ==
  ASSUME IInv, NEW c \in Channels, Destroy(c)
  PROVE  IInv'
<1>1. /\ fdOf[c] # None /\ ~added[c] /\ fdOf' = [fdOf EXCEPT ![c] = None]
      /\ UNCHANGED <<events, label, added, pollerVars, loopVars>>
  BY DEF Destroy
<1>2. label[c] = "kNew"
  BY <1>1 DEF IInv, MapInv, LabelsMatchAdded
<1>3. \A g \in Fds : channels[g] # c
  BY <1>2, PollerAssumption DEF IInv, MapInv, EntriesOwned
<1>4. TypeOK'
  BY <1>1 DEF IInv, TypeOK, pollerVars, loopVars
<1>5. FdsDistinct' /\ EntriesOwned' /\ LabelsMatchAdded'
  BY <1>1, <1>3 DEF IInv, MapInv, FdsDistinct, EntriesOwned, LabelsMatchAdded, TypeOK,
                    pollerVars
<1>6. RegistrationsMatch' /\ ctlOk'
  BY <1>1 DEF IInv, MapInv, RegistrationsMatch, pollerVars
<1>7. ActiveAdded'
  BY <1>1, <1>2 DEF IInv, ActiveAdded, loopVars, TypeOK
<1> QED
  BY <1>4, <1>5, <1>6, <1>7 DEF IInv, MapInv

\* The poll itself: what epoll_wait() returns is live and known.
LEMMA PollKeepsInv ==
  ASSUME IInv, Poll
  PROVE  IInv'
<1>1. PICK ready \in SUBSET Registered :
        /\ active' = {epoll[fd].channel : fd \in ready}
        /\ listSize' = IF Cardinality(ready) = listSize THEN 2 * listSize ELSE listSize
  BY DEF Poll
<1>2. /\ handled' = {} /\ handling' /\ UNCHANGED <<current, channelVars, pollerVars>>
      /\ ~handling
  BY DEF Poll
<1>3. \A c \in active' : c \in Channels /\ fdOf[c] # None /\ label[c] # "kNew"
  <2> SUFFICES ASSUME NEW fd \in ready
               PROVE  LET c == epoll[fd].channel
                      IN  c \in Channels /\ fdOf[c] # None /\ label[c] # "kNew"
    BY <1>1
  <2>1. fd \in Fds /\ epoll[fd] # NoReg
    BY DEF Registered
  <2>2. /\ channels[fd] # None /\ label[channels[fd]] = "kAdded"
        /\ epoll[fd] = [channel |-> channels[fd], interest |-> events[channels[fd]]]
    BY <2>1 DEF IInv, MapInv, RegistrationsMatch
  <2>3. channels[fd] \in Channels /\ fdOf[channels[fd]] = fd /\ fd # None
    BY <2>1, <2>2, PollerAssumption DEF IInv, TypeOK, MapInv, EntriesOwned
  <2> QED
    BY <2>2, <2>3
<1>4. TypeOK'
  <2>1. listSize' \in Nat
    BY <1>1 DEF IInv, TypeOK
  <2> QED
    BY <1>2, <1>3, <2>1 DEF IInv, TypeOK, channelVars, pollerVars
<1>5. MapInv'
  BY <1>2 DEF IInv, MapInv, FdsDistinct, EntriesOwned, LabelsMatchAdded, RegistrationsMatch,
              channelVars, pollerVars
<1>6. ActiveAdded'
  BY <1>2, <1>3 DEF IInv, ActiveAdded, channelVars
<1> QED
  BY <1>4, <1>5, <1>6 DEF IInv

\* Every step of the loop thread keeps the inductive invariant.
LEMMA InvStep == IInv /\ [Next]_vars => IInv'
<1> SUFFICES ASSUME IInv, [Next]_vars PROVE IInv'
  OBVIOUS
<1>1. ASSUME NEW c \in Channels, HandleEvent(c) PROVE IInv'
  <2>1. /\ c \in active \ handled /\ current' = c /\ handled' = handled \cup {c}
        /\ UNCHANGED <<listSize, handling, active, channelVars, pollerVars>> /\ handling
    BY <1>1 DEF HandleEvent
  <2>2. TypeOK'
    BY <2>1 DEF IInv, TypeOK, channelVars, pollerVars
  <2>3. MapInv' /\ ActiveAdded'
    BY <2>1 DEF IInv, MapInv, FdsDistinct, EntriesOwned, LabelsMatchAdded,
                RegistrationsMatch, ActiveAdded, channelVars, pollerVars
  <2> QED
    BY <2>2, <2>3 DEF IInv
<1>2. CASE EndEvents
  <2>1. /\ ~handling' /\ current' = None /\ handling' \in BOOLEAN
        /\ UNCHANGED <<listSize, active, handled, channelVars, pollerVars>>
    BY <1>2 DEF EndEvents
  <2>2. TypeOK'
    BY <2>1 DEF IInv, TypeOK, channelVars, pollerVars
  <2>3. MapInv' /\ ActiveAdded'
    BY <2>1 DEF IInv, MapInv, FdsDistinct, EntriesOwned, LabelsMatchAdded,
                RegistrationsMatch, ActiveAdded, channelVars, pollerVars
  <2> QED
    BY <2>2, <2>3 DEF IInv
<1>3. CASE UNCHANGED vars
  <2>1. TypeOK' /\ MapInv' /\ ActiveAdded'
    BY <1>3 DEF IInv, TypeOK, MapInv, FdsDistinct, EntriesOwned, LabelsMatchAdded,
                RegistrationsMatch, ActiveAdded, vars, channelVars, pollerVars, loopVars
  <2> QED
    BY <2>1 DEF IInv
<1> QED
  BY <1>1, <1>2, <1>3, UpdateKeepsInv, RemoveKeepsInv, ConstructKeepsInv, DestroyKeepsInv,
     PollKeepsInv DEF Next

\* For every number of channels and descriptors, and every sequence of
\* updates, removals, destructions and reuses of descriptors and addresses,
\* epoll_ctl() never fails, and the channels' labels, the poller's map and the
\* kernel's registrations agree.
THEOREM PollerCorrect == Spec => [](TypeOK /\ KernelMatchesLabels)
<1>1. IInv => TypeOK /\ KernelMatchesLabels
  BY DEF IInv, MapInv, KernelMatchesLabels
<1> QED
  BY <1>1, InvInit, InvStep, PTL DEF Spec

\* No assertion of updateChannel() and removeChannel() on the map can fail.
THEOREM MapCorrect == Spec => []MapMatchesLabels
<1>1. IInv => MapMatchesLabels
  BY PollerAssumption DEF IInv, TypeOK, MapInv, FdsDistinct, EntriesOwned, LabelsMatchAdded,
                          MapMatchesLabels
<1> QED
  BY <1>1, InvInit, InvStep, PTL DEF Spec

\* handleEvent() is never called on a destroyed channel.
THEOREM ActiveCorrect == Spec => []ActiveChannelsAlive
<1>1. IInv => ActiveChannelsAlive
  BY DEF IInv, ActiveAdded, ActiveChannelsAlive
<1> QED
  BY <1>1, InvInit, InvStep, PTL DEF Spec
=============================================================================
