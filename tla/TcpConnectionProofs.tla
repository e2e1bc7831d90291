------------------------ MODULE TcpConnectionProofs ------------------------
(***************************************************************************)
(* What TcpConnection.tla promises for every number of user threads, every *)
(* sequence of messages, every size of the send buffer and both placements *)
(* of the connection's loop.                                               *)
(***************************************************************************)
EXTENDS TcpConnection, SequenceTheorems, TLAPS

-----------------------------------------------------------------------------
(* The invariants                                                          *)

\* the functors of the connection that wait in the io loop
QueueSet == Elements(ioPending) \cup Elements(ioBatch)

\* a queued send() carries a message, and the application queues what its
\* usage says
FunctorsInv ==
    \A f \in QueueSet :
        /\ f.call = "send" => f.msg > 0 /\ usage = "contract" /\ state # "kConnecting"
        /\ f.call = "shutdown" => usage = "shutdown"
        /\ f.call \in {"startRead", "stopRead"} => usage = "read"

\* a user thread of a contract application never stores to _state
CallsInv ==
    \A t \in Users : /\ call[t][1] = "none" => call[t] = Idle
                     /\ usage = "contract" => call[t][2] # "checked"

\* nobody has seen a connection that is not established
ConnectingInv ==
    state = "kConnecting" => holds = {} /\ out = <<>> /\ \A t \in Users : call[t] = Idle

\* EPOLLOUT is asked for only while something waits in the output buffer
WriteInv ==
    /\ "write" \in events => out # <<>>
    /\ out # <<>> => usage = "contract"

OutputInv ==
    /\ FunctorsInv /\ CallsInv /\ ConnectingInv /\ WriteInv
    /\ WireInOrder /\ FinAfterFlush /\ OutputIsWatched

-----------------------------------------------------------------------------
\* connectDestroyed() waits in the io loop
Destroying == "destroyed" \in QueuedCalls

\* the part of the callback that runs next
Top == IF stack = <<>> THEN "none" ELSE Head(stack)

\* the callbacks still to run that may call handleClose()
Closers == {i \in 1..Len(stack) : stack[i] \in {"close", "read"}}

\* what handleEventWithGuard() and the close path leave to be done
StackShape ==
    /\ \A i \in 2..Len(stack) : stack[i] \in {"error", "read", "write"}
    /\ \A i, j \in Closers : i = j
    /\ Top \in {"remove", "established"} => Tail(stack) = <<>>

\* user code of the connection does not run before a callback that may close it
ClosersInv == Closers # {} => MayClose /\ ~inUser

\* the round of the io loop
RoundInv ==
    /\ ioPc # "functors" => ioBatch = <<>>
    /\ ioPc = "poll" => Top = "none" /\ ~inUser
    /\ revents # {} => ioPc = "events" /\ Top = "none" /\ ~inUser /\ MayClose

\* connectEstablished() has not run
EarlyInv ==
    state = "kConnecting" =>
        /\ inMap /\ serverAlive /\ baseQueue = <<>> /\ ~Destroying
        /\ label = "kNew" /\ events = {}
        /\ sameLoop => Top = "established" /\ ioPc = "events"
        /\ ~sameLoop => Top = "none"

\* between connectEstablished() and handleClose() or connectDestroyed()
OpenInv ==
    MayClose =>
        /\ inMap /\ serverAlive /\ baseQueue = <<>> /\ ~Destroying
        /\ label = "kAdded" /\ "read" \in events
        /\ Top \notin {"closeCallback", "remove", "established"}

\* the way of a closed connection: closeCallback(), removeConnectionInLoop(),
\* connectDestroyed(), Channel::remove()
ClosedInv ==
    state = "kDisconnected" =>
        /\ events = {} /\ label \in {"kDeleted", "kNew"} /\ Top # "established"
        /\ \/ Top = "closeCallback" /\ inMap /\ serverAlive /\ baseQueue = <<>>
           \/ Top # "closeCallback" /\ inMap /\ serverAlive /\ baseQueue = <<"remove">> /\ ~sameLoop
           \/ /\ Top # "closeCallback" /\ baseQueue = <<>>
              /\ Destroying \/ Top = "remove" \/ label = "kNew"

ServerInv == ~sameLoop => serverAlive

Contract ==
    /\ StackShape /\ ClosersInv /\ RoundInv /\ EarlyInv /\ OpenInv /\ ClosedInv /\ ServerInv
    /\ ~delayed

ContractInv == usage = "contract" => Contract

-----------------------------------------------------------------------------
(* Sequences                                                               *)

\* What Elements() is of the sequences the code builds.
LEMMA ElementsOf ==
    ASSUME NEW S, NEW s \in Seq(S)
    PROVE  /\ Elements(s) \subseteq S
           /\ Elements(<<>>) = {}
           /\ \A e \in S : Elements(Append(s, e)) = Elements(s) \cup {e}
           /\ s # <<>> => Elements(s) = Elements(Tail(s)) \cup {Head(s)} /\ Head(s) \in S /\ Tail(s) \in Seq(S)
<1>1. Elements(s) \subseteq S
  BY ElementOfSeq DEF Elements
<1>2. Elements(<<>>) = {}
  BY DEF Elements
<1>3. ASSUME NEW e \in S PROVE Elements(Append(s, e)) = Elements(s) \cup {e}
  <2> DEFINE r == Append(s, e)
  <2>1. /\ Len(s) \in Nat /\ Len(r) = Len(s) + 1 /\ r[Len(s) + 1] = e
        /\ \A i \in 1..Len(s) : r[i] = s[i]
    BY AppendProperties, LenProperties
  <2> HIDE DEF r
  <2>2. Elements(r) \subseteq Elements(s) \cup {e}
    BY <2>1 DEF Elements
  <2>3. Elements(s) \cup {e} \subseteq Elements(r)
    BY <2>1 DEF Elements
  <2> QED BY <2>2, <2>3 DEF r
<1>4. ASSUME s # <<>>
      PROVE  Elements(s) = Elements(Tail(s)) \cup {Head(s)} /\ Head(s) \in S /\ Tail(s) \in Seq(S)
  <2> DEFINE r == Tail(s)
  <2>1. /\ Len(s) \in Nat \ {0} /\ Len(r) = Len(s) - 1 /\ Head(s) = s[1]
        /\ \A i \in 1..Len(r) : r[i] = s[i + 1]
        /\ Head(s) \in S /\ r \in Seq(S)
    BY <1>4, HeadTailProperties, EmptySeq
  <2> HIDE DEF r
  <2>2. Elements(s) \subseteq Elements(r) \cup {Head(s)}
    <3> SUFFICES ASSUME NEW i \in 1..Len(s) PROVE s[i] \in Elements(r) \cup {Head(s)}
      BY DEF Elements
    <3>1. CASE i = 1
      BY <3>1, <2>1
    <3>2. CASE i # 1
      <4>1. i - 1 \in 1..Len(r) /\ r[i - 1] = s[i]
        BY <2>1, <3>2
      <4> QED BY <4>1 DEF Elements
    <3> QED BY <3>1, <3>2
  <2>3. Elements(r) \cup {Head(s)} \subseteq Elements(s)
    BY <2>1, SMTT(60) DEF Elements
  <2> QED BY <2>1, <2>2, <2>3 DEF r
<1> QED BY <1>1, <1>2, <1>3, <1>4

\* A sequence is what a write of n units takes followed by what it leaves.
LEMMA SplitAt ==
    ASSUME NEW S, NEW s \in Seq(S), NEW n \in 0..Len(s)
    PROVE  /\ SubSeq(s, 1, n) \in Seq(S) /\ SubSeq(s, n + 1, Len(s)) \in Seq(S)
           /\ SubSeq(s, 1, n) \o SubSeq(s, n + 1, Len(s)) = s
           /\ n = 0 => SubSeq(s, 1, n) = <<>> /\ SubSeq(s, n + 1, Len(s)) = s
           /\ SubSeq(s, n + 1, Len(s)) = <<>> <=> n = Len(s)
<1>1. Len(s) \in Nat /\ \A i \in 1..Len(s) : s[i] \in S
  BY LenProperties, ElementOfSeq
<1>2. SubSeq(s, 1, n) \in Seq(S)
  BY <1>1, SubSeqProperties
<1>3. /\ SubSeq(s, n + 1, Len(s)) \in Seq(S)
      /\ Len(SubSeq(s, n + 1, Len(s))) = IF n + 1 <= Len(s) THEN Len(s) - n ELSE 0
  <2> DEFINE lo == n + 1
  <2>1. lo \in Int /\ Len(s) \in Int /\ \A i \in lo..Len(s) : s[i] \in S
    BY <1>1
  <2> HIDE DEF lo
  <2>2. /\ SubSeq(s, lo, Len(s)) \in Seq(S)
        /\ Len(SubSeq(s, lo, Len(s))) = IF lo <= Len(s) THEN Len(s) - lo + 1 ELSE 0
    BY <2>1, SubSeqProperties
  <2>3. Len(s) - lo + 1 = Len(s) - n
    BY <1>1 DEF lo
  <2> QED BY <2>2, <2>3 DEF lo
<1>4. SubSeq(s, 1, n) \o SubSeq(s, n + 1, Len(s)) = SubSeq(s, 1, Len(s))
  <2>1. 1 \in 1..(Len(s) + 1) /\ n \in (1 - 1)..Len(s) /\ Len(s) \in n..Len(s)
    BY <1>1
  <2> QED BY <2>1, ConcatAdjacentSubSeq, Zenon
<1>5. SubSeq(s, 1, Len(s)) = s
  BY SubSeqFull
<1>6. ASSUME n = 0 PROVE SubSeq(s, 1, n) = <<>> /\ SubSeq(s, n + 1, Len(s)) = s
  <2>1. SubSeq(s, 1, 0) = <<>>
    BY SubSeqEmpty
  <2>2. n + 1 = 1
    BY <1>6
  <2> QED BY <1>5, <1>6, <2>1, <2>2
<1>7. SubSeq(s, n + 1, Len(s)) = <<>> <=> n = Len(s)
  <2> DEFINE r == SubSeq(s, n + 1, Len(s))
  <2>1. r \in Seq(S) /\ Len(r) = IF n + 1 <= Len(s) THEN Len(s) - n ELSE 0
    BY <1>3
  <2>2. r = <<>> <=> Len(r) = 0
    BY <2>1, EmptySeq
  <2> HIDE DEF r
  <2> QED BY <1>1, <2>1, <2>2 DEF r
<1> QED BY <1>2, <1>3, <1>4, <1>5, <1>6, <1>7

\* Concatenation regroups: what was written and what is buffered.
LEMMA Regroup ==
    ASSUME NEW S, NEW a \in Seq(S), NEW b \in Seq(S), NEW c \in Seq(S),
           NEW ab, ab = a \o b, NEW bc, bc = b \o c
    PROVE  ab \o c = a \o bc
BY ConcatAssociative, SMTT(60)

\* Messages are not empty.
LEMMA MessageTyped ==
    ASSUME NEW m \in 1..MaxSends
    PROVE  Message(m) \in Seq(1..MaxSends) /\ Len(Message(m)) \in Nat \ {0} /\ Message(m) # <<>>
<1>1. CASE m = 1
  BY <1>1 DEF Message
<1>2. CASE m # 1
  BY <1>2 DEF Message
<1> QED BY <1>1, <1>2

\* The functors the code queues.
LEMMA FunctorTyped ==
    /\ \A c \in Calls : Functor(c) \in ioFunctors /\ Functor(c).call = c
    /\ \A m \in 0..MaxSends : /\ SendFunctor(m) \in ioFunctors
                              /\ SendFunctor(m).call = "send" /\ SendFunctor(m).msg = m
    /\ \A f \in ioFunctors : f.call \in Calls /\ f.msg \in 0..MaxSends
BY TcpConnectionAssumption DEF Functor, SendFunctor, ioFunctors, Calls

-----------------------------------------------------------------------------
(* The output path                                                         *)

Units == 1..MaxSends

\* the variables of the output path are typed
OutTyped ==
    /\ out \in Seq(Units) /\ accepted \in Seq(Units) /\ wire \in Seq(Units)
    /\ space \in 0..MaxSpace /\ sockErr \in BOOLEAN /\ finSent \in BOOLEAN
    /\ events \subseteq {"read", "write"} /\ label \in {"kNew", "kAdded", "kDeleted"}
    /\ ioPending \in Seq(ioFunctors)

\* the properties of the output path
OutSafe == WireInOrder /\ FinAfterFlush /\ OutputIsWatched /\ ("write" \in events => out # <<>>)

\* what the channel may look like after sendInLoop()
SendLeavesChannel ==
    \/ UNCHANGED <<events, label>>
    \/ state # "kDisconnected" /\ events' = events \cup {"write"} /\ label' = "kAdded"

\* the functors an output routine may queue
Notices == {Functor("writeComplete"), Functor("highWater")}
QueuesNotices ==
    /\ Elements(ioPending) \subseteq Elements(ioPending')
    /\ Elements(ioPending') \subseteq Elements(ioPending) \cup Notices

\* A routine that queues at most one notice.
LEMMA NoticeQueued ==
    ASSUME ioPending \in Seq(ioFunctors),
           \/ ioPending' = ioPending
           \/ ioPending' = ioPending \o <<>>
           \/ \E f \in Notices : ioPending' = ioPending \o <<f>> \/ ioPending' = Append(ioPending, f)
    PROVE  ioPending' \in Seq(ioFunctors) /\ QueuesNotices
<1>1. Notices \subseteq ioFunctors
  BY FunctorTyped DEF Notices, Calls
<1>2. CASE ioPending' = ioPending
  BY <1>2 DEF QueuesNotices
<1>3. CASE ioPending' = ioPending \o <<>>
  BY <1>3, ConcatEmptySeq DEF QueuesNotices
<1>4. ASSUME NEW f \in Notices, ioPending' = ioPending \o <<f>> \/ ioPending' = Append(ioPending, f)
      PROVE  ioPending' \in Seq(ioFunctors) /\ QueuesNotices
  <2>1. f \in ioFunctors
    BY <1>1
  <2>2. ioPending' = Append(ioPending, f)
    BY <1>4, <2>1, AppendIsConcat
  <2>3. Elements(ioPending') = Elements(ioPending) \cup {f} /\ ioPending' \in Seq(ioFunctors)
    BY <2>1, <2>2, ElementsOf, AppendProperties
  <2> QED BY <2>3 DEF QueuesNotices
<1> QED BY <1>2, <1>3, <1>4

\* sendInLoop() keeps the output path's properties.
LEMMA SendStep ==
    ASSUME OutTyped, OutSafe, state' = state, NEW m \in 1..MaxSends, SendInLoop(m)
    PROVE  OutTyped' /\ OutSafe' /\ SendLeavesChannel /\ QueuesNotices
<1> DEFINE M == Message(m)
           fault == SendsDirectly /\ (rst \/ finSent)
           n == IF SendsDirectly /\ ~fault THEN Smaller(Len(M), space) ELSE 0
           rest == Unsent(m, n)
           crossing == Len(out) + Len(rest) >= HighWaterMark /\ Len(out) < HighWaterMark
           notice == IF rest = <<>> THEN <<Functor("writeComplete")>>
                     ELSE IF ~fault /\ crossing THEN <<Functor("highWater")>>
                     ELSE <<>>
<1>1. CASE state = "kDisconnected"
  <2>1. UNCHANGED <<out, accepted, wire, finSent, space, sockErr, events, label, ioPending>>
    BY <1>1 DEF SendInLoop, outVars, chanVars
  <2> QED BY <2>1 DEF OutTyped, OutSafe, WireInOrder, FinAfterFlush, OutputIsWatched, SendLeavesChannel,
                      QueuesNotices
<1>2. CASE state # "kDisconnected"
  <2>1. /\ accepted' = IF fault THEN accepted ELSE accepted \o M
        /\ wire' = wire \o SubSeq(M, 1, n)
        /\ space' = space - n
        /\ out' = IF fault THEN out ELSE out \o rest
        /\ IF fault \/ rest = <<>> \/ "write" \in events THEN UNCHANGED <<events, label>>
           ELSE SetEvents(events \cup {"write"})
        /\ ioPending' = ioPending \o notice
        /\ sockErr' = (sockErr /\ ~fault)
        /\ finSent' = finSent
    BY <1>2 DEF SendInLoop, chanVars
  <2>2. M \in Seq(Units) /\ Len(M) \in Nat \ {0} /\ M # <<>>
    BY MessageTyped DEF Units
  <2>3. /\ n \in 0..Len(M) /\ n <= space /\ space - n \in 0..MaxSpace
        /\ ~SendsDirectly => n = 0
        /\ fault => n = 0
    BY <2>2, TcpConnectionAssumption DEF OutTyped, Smaller
  <2>4. rest = SubSeq(M, n + 1, Len(M))
    BY DEF Unsent
  <2> HIDE DEF M, n, rest
  <2>5. /\ SubSeq(M, 1, n) \in Seq(Units) /\ rest \in Seq(Units) /\ SubSeq(M, 1, n) \o rest = M
        /\ n = 0 => SubSeq(M, 1, n) = <<>> /\ rest = M
        /\ rest = <<>> <=> n = Len(M)
    BY <2>2, <2>3, <2>4, SplitAt
  <2>6. ioPending' \in Seq(ioFunctors) /\ QueuesNotices
    <3>1. notice = <<>> \/ \E f \in Notices : notice = <<f>>
      BY DEF Notices
    <3> HIDE DEF notice
    <3> QED BY <2>1, <3>1, NoticeQueued DEF OutTyped
  <2>7. wire \o <<>> = wire
    BY ConcatEmptySeq DEF OutTyped
  <2>8. SendsDirectly <=> ("write" \notin events /\ out = <<>>)
    BY DEF SendsDirectly
  <2>9. finSent => SendsDirectly
    BY <2>8 DEF OutSafe, FinAfterFlush
  <2>10. CASE fault
    <3>1. UNCHANGED <<accepted, wire, space, out, events, label, finSent>> /\ sockErr' \in BOOLEAN
      BY <2>1, <2>3, <2>5, <2>7, <2>10 DEF OutTyped
    <3> QED BY <2>6, <3>1 DEF OutTyped, OutSafe, WireInOrder, FinAfterFlush, OutputIsWatched, SendLeavesChannel
  <2>11. CASE ~fault
    <3>1. /\ accepted' = accepted \o M /\ wire' = wire \o SubSeq(M, 1, n) /\ out' = out \o rest
          /\ IF rest = <<>> \/ "write" \in events THEN UNCHANGED <<events, label>>
             ELSE SetEvents(events \cup {"write"})
      BY <2>1, <2>11
    <3>2. ~finSent
      BY <2>9, <2>11
    <3>3. accepted' \in Seq(Units) /\ wire' \in Seq(Units) /\ out' \in Seq(Units)
      BY <2>2, <2>5, <3>1, ConcatProperties DEF OutTyped
    <3>4. wire' \o out' = accepted'
      <4>1. CASE SendsDirectly
        <5>1. out = <<>>
          BY <4>1, <2>8
        <5>2. out' = rest /\ accepted = wire
          BY <2>5, <2>7, <3>1, <5>1, ConcatEmptySeq DEF OutSafe, WireInOrder
        <5> DEFINE first == SubSeq(M, 1, n)
        <5>3. wire \in Seq(Units) /\ first \in Seq(Units) /\ rest \in Seq(Units)
          BY <2>5 DEF OutTyped
        <5>4. wire' = wire \o first /\ M = first \o rest
          BY <2>5, <3>1, Zenon
        <5> HIDE DEF first
        <5>5. wire' \o rest = wire \o M
          BY <5>3, <5>4, Regroup, SMTT(60)
        <5> QED BY <3>1, <5>2, <5>5, Zenon
      <4>2. CASE ~SendsDirectly
        <5>1. wire' = wire /\ rest = M
          BY <2>3, <2>5, <2>7, <3>1, <4>2
        <5>2. wire \in Seq(Units) /\ out \in Seq(Units) /\ M \in Seq(Units)
          BY <2>2 DEF OutTyped
        <5>3. accepted = wire \o out /\ out' = out \o M
          BY <3>1, <5>1 DEF OutSafe, WireInOrder
        <5>4. accepted \o M = wire \o out'
          BY <5>2, <5>3, Regroup, SMT
        <5> QED BY <3>1, <5>1, <5>4, Zenon
      <4> QED BY <4>1, <4>2
    <3>5. CASE rest = <<>>
      <4>1. SendsDirectly
        BY <2>2, <2>3, <2>5, <3>5
      <4>2. out' = <<>> /\ UNCHANGED <<events, label>>
        BY <2>8, <3>1, <3>5, <4>1
      <4> QED BY <2>1, <2>3, <2>6, <2>8, <3>2, <3>3, <3>4, <4>1, <4>2
              DEF OutTyped, OutSafe, WireInOrder, FinAfterFlush, OutputIsWatched, SendLeavesChannel
    <3>6. CASE rest # <<>>
      <4>1. out' # <<>>
        BY <2>5, <3>1, <3>6, ConcatEqualIffEmpty DEF OutTyped
      <4>2. /\ "write" \in events' /\ label' = "kAdded" /\ events' \subseteq {"read", "write"}
            /\ SendLeavesChannel
        BY <1>2, <3>1, <3>6 DEF SetEvents, SendLeavesChannel, OutSafe, OutputIsWatched, OutTyped
      <4> QED BY <2>1, <2>3, <2>6, <3>2, <3>3, <3>4, <4>1, <4>2
              DEF OutTyped, OutSafe, WireInOrder, FinAfterFlush, OutputIsWatched
    <3> QED BY <3>5, <3>6
  <2> QED BY <2>10, <2>11
<1> QED BY <1>1, <1>2

\* handleWrite() keeps the output path's properties.
LEMMA WriteStep ==
    ASSUME OutTyped, OutSafe, state' = state, HandleWrite
    PROVE  /\ OutTyped' /\ OutSafe' /\ QueuesNotices
           /\ out = <<>> => out' = <<>>
           /\ \/ UNCHANGED <<events, label>>
              \/ /\ "write" \in events /\ out # <<>>
                 /\ events' = events \ {"write"} /\ (events' # {} => label' = "kAdded")
<1> DEFINE n == IF "write" \in events /\ ~rst /\ ~finSent THEN Smaller(Len(out), space) ELSE 0
           done == Drained(n)
<1>1. /\ wire' = wire \o SubSeq(out, 1, n)
      /\ out' = SubSeq(out, n + 1, Len(out))
      /\ space' = space - n
      /\ IF done THEN SetEvents(events \ {"write"}) ELSE UNCHANGED chanVars
      /\ ioPending' = IF done THEN Append(ioPending, Functor("writeComplete")) ELSE ioPending
      /\ finSent' = (finSent \/ ShutdownDue(done))
      /\ sockErr' = (sockErr /\ "write" \notin events)
      /\ UNCHANGED accepted
  BY DEF HandleWrite
<1>2. /\ Len(out) \in Nat /\ n \in 0..Len(out) /\ n <= space /\ space - n \in 0..MaxSpace
      /\ "write" \notin events => n = 0
  BY LenProperties, TcpConnectionAssumption DEF OutTyped, Smaller
<1> HIDE DEF n
<1>3. /\ SubSeq(out, 1, n) \in Seq(Units) /\ out' \in Seq(Units)
      /\ SubSeq(out, 1, n) \o out' = out
      /\ n = 0 => out' = out
      /\ out' = <<>> <=> n = Len(out)
  BY <1>1, <1>2, SplitAt DEF OutTyped
<1>4. wire' \in Seq(Units) /\ wire' \o out' = wire \o out
  <2> DEFINE first == SubSeq(out, 1, n)
  <2>1. wire \in Seq(Units) /\ first \in Seq(Units) /\ out' \in Seq(Units)
    BY <1>3 DEF OutTyped
  <2>2. wire' = wire \o first /\ out = first \o out'
    BY <1>1, <1>3, Zenon
  <2> HIDE DEF first
  <2>3. wire' \o out' = wire \o out
    BY <2>1, <2>2, Regroup, SMTT(60)
  <2>4. wire' \in Seq(Units)
    BY <2>1, <2>2, ConcatProperties
  <2> QED BY <2>3, <2>4, Zenon
<1>5. ioPending' \in Seq(ioFunctors) /\ QueuesNotices
  <2>1. ioPending' = ioPending \/ \E f \in Notices : ioPending' = Append(ioPending, f)
    BY <1>1 DEF Notices
  <2> QED BY <2>1, NoticeQueued DEF OutTyped
<1>6. CASE done
  <2>1. n > 0 /\ n = Len(out)
    BY <1>6 DEF Drained
  <2>2. out' = <<>> /\ out # <<>> /\ "write" \in events
    BY <1>2, <1>3, <2>1, EmptySeq DEF OutTyped
  <2>3. /\ events' = events \ {"write"} /\ (events' # {} => label' = "kAdded")
        /\ label' \in {"kAdded", "kDeleted"}
    BY <1>1, <1>6 DEF SetEvents
  <2>4. finSent' \in BOOLEAN /\ sockErr' \in BOOLEAN
    BY <1>1 DEF OutTyped
  <2> QED BY <1>1, <1>2, <1>3, <1>4, <1>5, <2>2, <2>3, <2>4
          DEF OutTyped, OutSafe, WireInOrder, FinAfterFlush, OutputIsWatched
<1>7. CASE ~done
  <2>1. UNCHANGED <<events, label, finSent>> /\ sockErr' \in BOOLEAN
    BY <1>1, <1>7 DEF chanVars, ShutdownDue, OutTyped
  <2>2. out = <<>> <=> out' = <<>>
    BY <1>2, <1>3, <1>7, EmptySeq DEF Drained, OutTyped
  <2>3. OutTyped'
    BY <1>1, <1>2, <1>3, <1>4, <1>5, <2>1 DEF OutTyped
  <2>4. OutSafe'
    <3>1. WireInOrder'
      BY <1>1, <1>4 DEF OutSafe, WireInOrder
    <3>2. FinAfterFlush' /\ OutputIsWatched' /\ ("write" \in events => out # <<>>)'
      BY <2>1, <2>2 DEF OutSafe, FinAfterFlush, OutputIsWatched
    <3> QED BY <3>1, <3>2 DEF OutSafe
  <2> QED BY <1>5, <2>1, <2>2, <2>3, <2>4
<1> QED BY <1>6, <1>7

-----------------------------------------------------------------------------
(* The application                                                         *)

\* What the usages mean for the calls of the user threads.
LEMMA UserOpsOf ==
    ASSUME usage \in Usages
    PROVE  /\ UserOps \subseteq {"send", "shutdown", "forceClose", "startRead", "stopRead"}
           /\ "send" \in UserOps => usage = "contract"
           /\ "shutdown" \in UserOps => usage = "shutdown"
           /\ "startRead" \in UserOps \/ "stopRead" \in UserOps => usage = "read"
           /\ usage = "contract" => UserOps = {"send"}
           /\ usage' = usage => UserOps' = UserOps
<1>1. CASE usage = "contract"
  BY <1>1 DEF UserOps
<1>2. CASE usage = "shutdown"
  BY <1>2 DEF UserOps
<1>3. CASE usage = "forceClose"
  BY <1>3 DEF UserOps
<1>4. CASE usage = "read"
  BY <1>4 DEF UserOps
<1>5. CASE usage \in {"delay", "server"}
  BY <1>5 DEF UserOps
<1> QED BY <1>1, <1>2, <1>3, <1>4, <1>5, TcpConnectionAssumption

\* A contract application only sends, shuts down and closes on the io loop.
LEMMA ContractLoopOps ==
    ASSUME usage = "contract"
    PROVE  LoopOps = {"send", "shutdown", "forceClose"}
BY DEF LoopOps

-----------------------------------------------------------------------------
(* Frame lemmas                                                            *)

\* Nothing is written and nothing is buffered.
LEMMA OutputKept ==
    ASSUME OutSafe, WriteInv, UNCHANGED <<out, accepted, wire, finSent, usage>>,
           "write" \in events' => "write" \in events,
           out # <<>> /\ state' # "kDisconnected" => "write" \in events' /\ label' = "kAdded"
    PROVE  OutSafe' /\ WriteInv'
BY DEF OutSafe, WriteInv, WireInOrder, FinAfterFlush, OutputIsWatched

\* The user threads do nothing and the connection does not go back.
LEMMA CallersKept ==
    ASSUME CallsInv, ConnectingInv, UNCHANGED <<usage, call>>,
           state' = "kConnecting" => state = "kConnecting" /\ out' = <<>> /\ holds' = {}
    PROVE  CallsInv' /\ ConnectingInv'
BY DEF CallsInv, ConnectingInv, Idle

\* Channel::update() leaves the channel typed.
LEMMA SetEventsTyped ==
    ASSUME NEW ev, ev \subseteq {"read", "write"}, SetEvents(ev)
    PROVE  events' = ev /\ label' \in {"kAdded", "kDeleted"} /\ (ev # {} => label' = "kAdded")
BY DEF SetEvents

-----------------------------------------------------------------------------
(* The callbacks of a round                                                *)

\* One more callback, or none.
LEMMA PushFrame ==
    ASSUME NEW q \in Seq(Frames), NEW x \in Frames, NEW c \in BOOLEAN, NEW r,
           r = q \o (IF c THEN <<x>> ELSE <<>>)
    PROVE  /\ r \in Seq(Frames) /\ Len(q) \in Nat
           /\ Len(r) = IF c THEN Len(q) + 1 ELSE Len(q)
           /\ \A i \in 1..Len(q) : r[i] = q[i]
           /\ c => r[Len(q) + 1] = x
<1>1. CASE c
  <2>1. r = q \o <<x>>
    BY <1>1
  <2>2. r = Append(q, x)
    BY <2>1, AppendIsConcat
  <2> QED BY <1>1, <2>2, AppendProperties, LenProperties
<1>2. CASE ~c
  <2>1. r = q \o <<>>
    BY <1>2
  <2>2. r = q
    BY <2>1, ConcatEmptySeq
  <2> QED BY <1>2, <2>2, LenProperties
<1> QED BY <1>1, <1>2

\* at most one callback of q can call handleClose(), and only the first one
\* is the close callback
CallbackShape(q) ==
    /\ \A i \in 1..Len(q) : q[i] \in {"close", "error", "read", "write"} /\ (i > 1 => q[i] # "close")
    /\ \A i, j \in 1..Len(q) : {q[i], q[j]} \subseteq {"close", "read"} => i = j

\* handleEventWithGuard() runs the close callback or the read callback.
LEMMA CallbacksShaped ==
    ASSUME NEW rev
    PROVE  CallbacksOf(rev) \in Seq(Frames) /\ CallbackShape(CallbacksOf(rev))
<1> DEFINE A == "HUP" \in rev /\ "IN" \notin rev
           B == "ERR" \in rev
           C == "IN" \in rev
           D == "OUT" \in rev
           s1 == IF A THEN <<"close">> ELSE <<>>
           s2 == s1 \o (IF B THEN <<"error">> ELSE <<>>)
           s3 == s2 \o (IF C THEN <<"read">> ELSE <<>>)
           s4 == s3 \o (IF D THEN <<"write">> ELSE <<>>)
<1>1. CallbacksOf(rev) = s4
  BY DEF CallbacksOf
<1>2. A \in BOOLEAN /\ B \in BOOLEAN /\ C \in BOOLEAN /\ D \in BOOLEAN /\ ~(A /\ C)
  OBVIOUS
<1>3. /\ s1 \in Seq(Frames) /\ Len(s1) = IF A THEN 1 ELSE 0
      /\ A => s1[1] = "close"
  <2>1. CASE A
    BY <2>1 DEF Frames
  <2>2. CASE ~A
    BY <2>2
  <2> QED BY <2>1, <2>2
<1> HIDE DEF A, B, C, D, s1
<1>4. /\ s2 \in Seq(Frames) /\ Len(s1) \in Nat
      /\ Len(s2) = IF B THEN Len(s1) + 1 ELSE Len(s1)
      /\ \A i \in 1..Len(s1) : s2[i] = s1[i]
      /\ B => s2[Len(s1) + 1] = "error"
  <2>1. "error" \in Frames
    BY DEF Frames
  <2> HIDE DEF s2
  <2> QED BY <1>2, <1>3, <2>1, PushFrame DEF s2
<1> HIDE DEF s2
<1>5. /\ s3 \in Seq(Frames) /\ Len(s2) \in Nat
      /\ Len(s3) = IF C THEN Len(s2) + 1 ELSE Len(s2)
      /\ \A i \in 1..Len(s2) : s3[i] = s2[i]
      /\ C => s3[Len(s2) + 1] = "read"
  <2>1. "read" \in Frames
    BY DEF Frames
  <2> HIDE DEF s3
  <2> QED BY <1>2, <1>4, <2>1, PushFrame DEF s3
<1> HIDE DEF s3
<1>6. /\ s4 \in Seq(Frames) /\ Len(s3) \in Nat
      /\ Len(s4) = IF D THEN Len(s3) + 1 ELSE Len(s3)
      /\ \A i \in 1..Len(s3) : s4[i] = s3[i]
      /\ D => s4[Len(s3) + 1] = "write"
  <2>1. "write" \in Frames
    BY DEF Frames
  <2> HIDE DEF s4
  <2> QED BY <1>2, <1>5, <2>1, PushFrame DEF s4
<1> HIDE DEF s4
<1>7. \A i \in 1..Len(s2) : \/ s2[i] = "close" /\ i = 1 /\ A
                            \/ s2[i] = "error"
  BY <1>2, <1>3, <1>4
<1>8. \A i \in 1..Len(s3) : \/ s3[i] = "close" /\ i = 1 /\ A
                            \/ s3[i] = "error"
                            \/ s3[i] = "read" /\ i = Len(s3) /\ C
  <2> SUFFICES ASSUME NEW i \in 1..Len(s3)
               PROVE  \/ s3[i] = "close" /\ i = 1 /\ A
                      \/ s3[i] = "error"
                      \/ s3[i] = "read" /\ i = Len(s3) /\ C
    OBVIOUS
  <2>1. CASE i \in 1..Len(s2)
    <3>1. s3[i] = s2[i]
      BY <1>5, <2>1
    <3> QED BY <1>7, <2>1, <3>1, Zenon
  <2>2. CASE i \notin 1..Len(s2)
    <3>1. C /\ i = Len(s2) + 1 /\ i = Len(s3)
      BY <1>5, <2>2
    <3>2. s3[i] = "read"
      BY <1>5, <3>1, Zenon
    <3> QED BY <3>1, <3>2, Zenon
  <2> QED BY <2>1, <2>2
<1>9. \A i \in 1..Len(s4) : \/ s4[i] = "close" /\ i = 1 /\ A
                            \/ s4[i] \in {"error", "write"}
                            \/ s4[i] = "read" /\ i = Len(s3) /\ C
  <2> SUFFICES ASSUME NEW i \in 1..Len(s4)
               PROVE  \/ s4[i] = "close" /\ i = 1 /\ A
                      \/ s4[i] \in {"error", "write"}
                      \/ s4[i] = "read" /\ i = Len(s3) /\ C
    OBVIOUS
  <2>1. CASE i \in 1..Len(s3)
    <3>1. s4[i] = s3[i]
      BY <1>6, <2>1
    <3> QED BY <1>8, <2>1, <3>1, Zenon
  <2>2. CASE i \notin 1..Len(s3)
    <3>1. D /\ i = Len(s3) + 1 /\ i = Len(s4)
      BY <1>6, <2>2
    <3>2. s4[i] = "write"
      BY <1>6, <3>1, Zenon
    <3> QED BY <3>2
  <2> QED BY <2>1, <2>2
<1>10. CallbackShape(s4)
  BY <1>2, <1>9 DEF CallbackShape
<1> QED BY <1>1, <1>6, <1>10

\* handleClose() puts the close callback in front of what is left.
LEMMA PushClose ==
    ASSUME NEW q \in Seq(Frames), NEW r, r = <<"closeCallback">> \o q
    PROVE  /\ r \in Seq(Frames) /\ Len(q) \in Nat /\ Len(r) = Len(q) + 1 /\ r # <<>>
           /\ r[1] = "closeCallback" /\ Head(r) = "closeCallback"
           /\ \A i \in 2..Len(r) : r[i] = q[i - 1]
<1> DEFINE c == <<"closeCallback">>
<1>1. c \in Seq(Frames) /\ Len(c) = 1 /\ c[1] = "closeCallback"
  BY DEF Frames
<1> HIDE DEF c
<1>2. /\ r \in Seq(Frames) /\ Len(r) = Len(c) + Len(q)
      /\ \A i \in 1..(Len(c) + Len(q)) : r[i] = IF i <= Len(c) THEN c[i] ELSE q[i - Len(c)]
  BY <1>1, ConcatProperties DEF c
<1>3. Len(q) \in Nat
  BY LenProperties
<1>4. Len(r) = Len(q) + 1 /\ r[1] = "closeCallback" /\ \A i \in 2..Len(r) : r[i] = q[i - 1]
  BY <1>1, <1>2, <1>3
<1>5. r # <<>>
  BY <1>2, <1>3, <1>4, EmptySeq
<1> QED BY <1>2, <1>3, <1>4, <1>5

-----------------------------------------------------------------------------
(* Types                                                                   *)

\* the variables outside the output path
LoopTyped ==
    /\ sameLoop \in SameLoops /\ usage \in Usages
    /\ state \in States /\ reading \in BOOLEAN
    /\ ioPc \in {"poll", "events", "functors"}
    /\ revents \subseteq {"HUP", "ERR", "IN", "OUT"}
    /\ stack \in Seq(Frames) /\ inUser \in BOOLEAN
    /\ ioBatch \in Seq(ioFunctors) /\ ioHeld \in BOOLEAN
    /\ baseQueue \in Seq({"remove"}) /\ inMap \in BOOLEAN /\ serverAlive \in BOOLEAN
    /\ delayed \in BOOLEAN

UserTyped ==
    /\ sent \in 0..MaxSends /\ rcv \in 0..MaxData /\ peerFin \in BOOLEAN /\ rst \in BOOLEAN
    /\ call \in [Users -> (UserOps \cup {"none"}) \X {"idle", "checked", "set"}]
    /\ holds \subseteq Users

\* The type invariant in three parts.
LEMMA TypeParts == TypeOK <=> OutTyped /\ LoopTyped /\ UserTyped
BY DEF TypeOK, OutTyped, LoopTyped, UserTyped, Units

\* handleClose() leaves everything typed.
LEMMA HandleCloseTyped ==
    ASSUME LoopTyped, NEW rest \in Seq(Frames), HandleClose(rest)
    PROVE  /\ state' = "kDisconnected" /\ reading' = reading /\ inUser' = TRUE
           /\ events' = {} /\ label' \in {"kAdded", "kDeleted"}
           /\ stack' \in Seq(Frames)
BY PushClose, SetEventsTyped DEF HandleClose

\* connectDestroyed() with nothing else left to do.
LEMMA ConnectDestroyedTyped ==
    ASSUME LoopTyped, ConnectDestroyed(<<>>)
    PROVE  /\ reading' = reading /\ inUser' \in BOOLEAN /\ stack' = <<"remove">>
           /\ \/ state = "kConnected" /\ state' = "kDisconnected" /\ SetEvents({})
              \/ state # "kConnected" /\ UNCHANGED <<state, events, label>>
<1>1. <<"remove">> \o <<>> = <<"remove">>
  <2>1. <<"remove">> \in Seq(Frames)
    BY DEF Frames
  <2> QED BY <2>1, ConcatEmptySeq
<1>2. stack' = <<"remove">> /\ reading' = reading
  BY <1>1 DEF ConnectDestroyed
<1>3. CASE state = "kConnected"
  BY <1>2, <1>3 DEF ConnectDestroyed
<1>4. CASE state # "kConnected"
  BY <1>2, <1>4 DEF ConnectDestroyed, chanVars
<1> QED BY <1>3, <1>4

\* startReadInLoop() and stopReadInLoop().
LEMMA ReadTyped ==
    ASSUME OutTyped, LoopTyped, StartReadInLoop \/ StopReadInLoop
    PROVE  /\ state' = state /\ reading' \in BOOLEAN
           /\ \/ UNCHANGED <<events, label>>
              \/ SetEvents(events \cup {"read"})
              \/ SetEvents(events \ {"read"})
<1>1. CASE StartReadInLoop
  BY <1>1 DEF StartReadInLoop, LoopTyped, chanVars
<1>2. CASE StopReadInLoop
  BY <1>2 DEF StopReadInLoop, LoopTyped, chanVars
<1> QED BY <1>1, <1>2

\* what the type invariant and the output path need of each other
Good ==
    /\ OutTyped /\ LoopTyped /\ UserTyped
    /\ OutSafe /\ WriteInv /\ CallsInv /\ ConnectingInv /\ FunctorsInv

\* The invariant is the type invariant with the properties of the output path.
LEMMA GoodParts == Good <=> TypeOK /\ OutputInv
BY TypeParts DEF Good, OutputInv, OutSafe, WriteInv

\* A step that neither sends nor writes, and queues at most connectDestroyed().
LEMMA CalmStep ==
    ASSUME Good, OutTyped', LoopTyped', UserTyped',
           UNCHANGED <<usage, call, out, accepted, wire, finSent>>,
           state' = "kConnecting" => state = "kConnecting" /\ holds' \subseteq holds,
           "write" \in events' => "write" \in events,
           out # <<>> /\ state' # "kDisconnected" => "write" \in events' /\ label' = "kAdded",
           \A f \in QueueSet' : f \in QueueSet \/ f.call = "destroyed"
    PROVE  Good'
<1>1. OutSafe' /\ WriteInv'
  BY OutputKept DEF Good
<1>2. CallsInv' /\ ConnectingInv'
  <2>1. state' = "kConnecting" => state = "kConnecting" /\ out' = <<>> /\ holds' = {}
    BY DEF Good, ConnectingInv
  <2> QED BY <2>1, CallersKept DEF Good
<1>3. FunctorsInv'
  BY DEF Good, FunctorsInv
<1> QED BY <1>1, <1>2, <1>3 DEF Good

\* What the output routines queue is allowed.
LEMMA NoticesAllowed ==
    ASSUME FunctorsInv, QueuesNotices, UNCHANGED <<usage, state>>,
           Elements(ioBatch') \subseteq Elements(ioBatch)
    PROVE  FunctorsInv'
<1>1. \A f \in Notices : f.call \in {"writeComplete", "highWater"}
  BY FunctorTyped DEF Notices, Calls
<1> QED BY <1>1 DEF QueuesNotices, QueueSet, FunctorsInv

\* connectDestroyed() is queued, or nothing.
LEMMA DestroyedQueued ==
    ASSUME ioPending \in Seq(ioFunctors), ioBatch' = ioBatch,
           ioPending' = ioPending \/ ioPending' = Append(ioPending, Functor("destroyed"))
    PROVE  /\ ioPending' \in Seq(ioFunctors)
           /\ \A f \in QueueSet' : f \in QueueSet \/ f.call = "destroyed"
<1>1. Functor("destroyed") \in ioFunctors /\ Functor("destroyed").call = "destroyed"
  BY FunctorTyped DEF Calls
<1>2. CASE ioPending' = ioPending
  BY <1>2 DEF QueueSet
<1>3. CASE ioPending' = Append(ioPending, Functor("destroyed"))
  <2>1. /\ Elements(ioPending') = Elements(ioPending) \cup {Functor("destroyed")}
        /\ ioPending' \in Seq(ioFunctors)
    BY <1>1, <1>3, ElementsOf, AppendProperties
  <2> QED BY <1>1, <2>1 DEF QueueSet
<1> QED BY <1>2, <1>3

\* The steps of the io loop around its callbacks.
LEMMA RoundStep ==
    ASSUME Good, Poll \/ Dispatch \/ Swap \/ EndBatch
    PROVE  Good'
<1> USE DEF config, connVars, chanVars, loopVars, frameVars, serverVars, outVars, peerVars, userVars
<1>0. /\ UNCHANGED <<sameLoop, usage, sent, delayed, state, events, label, call, holds>>
      /\ UNCHANGED <<out, accepted, wire, finSent>> /\ UserOps' = UserOps
  <2>1. /\ UNCHANGED <<sameLoop, usage, sent, delayed, state, events, label, call, holds>>
        /\ UNCHANGED <<out, accepted, wire, finSent>>
    BY DEF Poll, Dispatch, Swap, EndBatch
  <2> QED BY <2>1, UserOpsOf DEF Good, LoopTyped
<1>1. OutTyped' /\ LoopTyped' /\ UserTyped' /\ QueueSet' \subseteq QueueSet
  <2>1. CASE Poll
    BY <1>0, <2>1 DEF Poll, Ready, Good, OutTyped, LoopTyped, UserTyped, QueueSet
  <2>2. CASE Dispatch
    <3>1. stack' \in Seq(Frames)
      BY <2>2, CallbacksShaped DEF Dispatch
    <3>2. OutTyped' /\ LoopTyped' /\ QueueSet' \subseteq QueueSet
      BY <1>0, <2>2, <3>1, ZenonT(60) DEF Dispatch, Good, OutTyped, LoopTyped, QueueSet
    <3>3. UserTyped'
      BY <1>0, <2>2, ZenonT(60) DEF Dispatch, Good, UserTyped
    <3> QED BY <3>2, <3>3
  <2>3. CASE Swap
    <3>1. QueueSet' \subseteq QueueSet
      <4>1. ioBatch' = ioPending /\ Elements(ioPending') = {}
        BY <2>3, ElementsOf DEF Swap, Good, OutTyped
      <4> QED BY <4>1 DEF QueueSet
    <3>2. ioPending' \in Seq(ioFunctors) /\ ioBatch' \in Seq(ioFunctors)
      BY <2>3 DEF Swap, Good, OutTyped
    <3>3. /\ UNCHANGED <<reading, revents, ioHeld, stack, baseQueue, inMap, serverAlive, space, sockErr>>
          /\ UNCHANGED <<rcv, peerFin, rst>> /\ ioPc' = "functors" /\ inUser' = FALSE
      BY <2>3 DEF Swap
    <3>4. OutTyped' /\ LoopTyped' /\ UserTyped'
      <4>1. OutTyped'
        BY <1>0, <3>2, <3>3 DEF Good, OutTyped
      <4>2. LoopTyped'
        BY <1>0, <3>2, <3>3 DEF Good, LoopTyped
      <4>3. UserTyped'
        BY <1>0, <3>2, <3>3 DEF Good, UserTyped
      <4> QED BY <4>1, <4>2, <4>3
    <3> QED BY <3>1, <3>4
  <2>4. CASE EndBatch
    <3>1. OutTyped' /\ LoopTyped' /\ QueueSet' \subseteq QueueSet
      BY <1>0, <2>4, ZenonT(60) DEF EndBatch, Good, OutTyped, LoopTyped, QueueSet
    <3>2. UserTyped'
      BY <1>0, <2>4, ZenonT(60) DEF EndBatch, Good, UserTyped
    <3> QED BY <3>1, <3>2
  <2> QED BY <2>1, <2>2, <2>3, <2>4
<1>2. out # <<>> /\ state' # "kDisconnected" => "write" \in events' /\ label' = "kAdded"
  BY <1>0 DEF Good, OutSafe, OutputIsWatched
<1> QED BY <1>0, <1>1, <1>2, CalmStep

\* The callbacks of the connection.
LEMMA CallbackStep ==
    ASSUME Good, Step
    PROVE  Good'
<1> USE DEF config, connVars, chanVars, loopVars, frameVars, serverVars, outVars, peerVars, userVars
<1>0. /\ UNCHANGED <<sameLoop, usage, ioPc, revents, ioBatch, ioHeld, sent, peerFin, rst, delayed>>
      /\ UserOps' = UserOps /\ Tail(stack) \in Seq(Frames) /\ Head(stack) \in Frames
  <2>1. UNCHANGED <<sameLoop, usage, ioPc, revents, ioBatch, ioHeld, sent, peerFin, rst, delayed>>
    BY DEF Step
  <2>2. stack # <<>>
    BY DEF Step
  <2> QED BY <2>1, <2>2, UserOpsOf, HeadTailProperties DEF Good, LoopTyped
<1>1. ASSUME ConnectEstablished(Tail(stack)),
             UNCHANGED <<ioPending, serverVars, outVars, rcv, sockErr, space, call>>
      PROVE  Good'
  <2>1. /\ state = "kConnecting" /\ state' = "kConnected" /\ events' = {"read"} /\ label' = "kAdded"
        /\ holds' = Users /\ stack' = Tail(stack) /\ inUser' = TRUE /\ reading' = reading
    BY <1>1, SetEventsTyped DEF ConnectEstablished
  <2>2. out = <<>>
    BY <2>1 DEF Good, ConnectingInv
  <2>3. OutTyped' /\ LoopTyped' /\ UserTyped'
    BY <1>0, <1>1, <2>1 DEF Good, OutTyped, LoopTyped, UserTyped, States
  <2> QED BY <1>0, <1>1, <2>1, <2>2, <2>3, CalmStep DEF QueueSet
<1>2. ASSUME HandleClose(Tail(stack)),
             UNCHANGED <<ioPending, serverVars, outVars, rcv, sockErr, space, userVars>>
      PROVE  Good'
  <2>1. /\ state' = "kDisconnected" /\ reading' = reading /\ inUser' = TRUE
        /\ events' = {} /\ label' \in {"kAdded", "kDeleted"} /\ stack' \in Seq(Frames)
    BY <1>0, <1>2, HandleCloseTyped DEF Good
  <2>2. OutTyped' /\ LoopTyped' /\ UserTyped'
    BY <1>0, <1>2, <2>1 DEF Good, OutTyped, LoopTyped, UserTyped, States
  <2> QED BY <1>0, <1>2, <2>1, <2>2, CalmStep DEF QueueSet
<1>3. ASSUME sockErr' \in BOOLEAN, stack' = Tail(stack), inUser' \in BOOLEAN, rcv' \in 0..MaxData,
             UNCHANGED <<connVars, chanVars, ioPending, serverVars, outVars, space, userVars>>
      PROVE  Good'
  <2>1. OutTyped' /\ LoopTyped' /\ UserTyped'
    <3>1. OutTyped'
      BY <1>0, <1>3 DEF Good, OutTyped
    <3>2. LoopTyped'
      BY <1>0, <1>3 DEF Good, LoopTyped
    <3>3. UserTyped'
      BY <1>0, <1>3 DEF Good, UserTyped
    <3> QED BY <3>1, <3>2, <3>3
  <2>2. out # <<>> /\ state' # "kDisconnected" => "write" \in events' /\ label' = "kAdded"
    BY <1>3 DEF Good, OutSafe, OutputIsWatched
  <2> QED BY <1>0, <1>3, <2>1, <2>2, CalmStep DEF QueueSet
<1>4. ASSUME HandleRead, UNCHANGED <<ioPending, serverVars, outVars, space, userVars>>
      PROVE  Good'
  <2>1. CASE rcv > 0 /\ rcv' = rcv - 1 /\ stack' = Tail(stack) /\ inUser' = TRUE
             /\ UNCHANGED <<connVars, chanVars, sockErr>>
    <3>1. sockErr' \in BOOLEAN /\ inUser' \in BOOLEAN /\ rcv' \in 0..MaxData
      BY <2>1, TcpConnectionAssumption, SMTT(60) DEF Good, OutTyped, UserTyped
    <3> QED BY <1>3, <1>4, <2>1, <3>1
  <2>2. CASE sockErr' = FALSE /\ stack' = Tail(stack) /\ inUser' = FALSE
             /\ UNCHANGED <<connVars, chanVars, rcv>>
    <3>1. sockErr' \in BOOLEAN /\ inUser' \in BOOLEAN /\ rcv' \in 0..MaxData
      BY <2>2 DEF Good, OutTyped, UserTyped
    <3> QED BY <1>3, <1>4, <2>2, <3>1
  <2>3. CASE HandleClose(Tail(stack)) /\ UNCHANGED <<rcv, sockErr>>
    BY <1>2, <1>4, <2>3
  <2> QED BY <1>4, <2>1, <2>2, <2>3 DEF HandleRead
<1>5. ASSUME HandleWrite, stack' = Tail(stack), inUser' = FALSE,
             UNCHANGED <<connVars, serverVars, rcv, userVars>>
      PROVE  Good'
  <2>1. state' = state
    BY <1>5
  <2>2. /\ OutTyped' /\ OutSafe' /\ QueuesNotices
        /\ out = <<>> => out' = <<>>
    BY <1>5, <2>1, WriteStep DEF Good
  <2>3. LoopTyped' /\ UserTyped'
    BY <1>0, <1>5 DEF Good, LoopTyped, UserTyped
  <2>4. WriteInv'
    BY <1>0, <2>2 DEF Good, WriteInv, OutSafe
  <2>5. CallsInv' /\ ConnectingInv'
    <3>1. state' = "kConnecting" => state = "kConnecting" /\ out' = <<>> /\ holds' = {}
      BY <1>5, <2>2 DEF Good, ConnectingInv
    <3> QED BY <1>0, <1>5, <3>1, CallersKept DEF Good
  <2>6. FunctorsInv'
    BY <1>0, <2>1, <2>2, NoticesAllowed DEF Good
  <2> QED BY <2>2, <2>3, <2>4, <2>5, <2>6 DEF Good
<1>6. ASSUME CloseCallback, UNCHANGED <<connVars, chanVars, outVars, rcv, sockErr, space, userVars>>
      PROVE  Good'
  <2>1. /\ stack' = Tail(stack) /\ inUser' = FALSE
        /\ \/ /\ ioPending' = Append(ioPending, Functor("destroyed"))
              /\ inMap' = FALSE /\ UNCHANGED <<serverAlive, baseQueue>>
           \/ UNCHANGED <<inMap, serverAlive, ioPending>> /\ baseQueue' = Append(baseQueue, "remove")
    BY <1>6 DEF CloseCallback, RemoveConnectionInLoop
  <2>2. baseQueue' \in Seq({"remove"}) /\ inMap' \in BOOLEAN /\ serverAlive' \in BOOLEAN
    <3>1. baseQueue \in Seq({"remove"}) /\ inMap \in BOOLEAN /\ serverAlive \in BOOLEAN
      BY DEF Good, LoopTyped
    <3>2. Append(baseQueue, "remove") \in Seq({"remove"})
      BY <3>1, AppendProperties
    <3>3. CASE baseQueue' = baseQueue
      BY <2>1, <3>1, <3>3
    <3>4. CASE baseQueue' = Append(baseQueue, "remove")
      BY <2>1, <3>1, <3>2, <3>4
    <3> QED BY <2>1, <3>3, <3>4
  <2>3. /\ ioPending' \in Seq(ioFunctors)
        /\ \A f \in QueueSet' : f \in QueueSet \/ f.call = "destroyed"
    BY <1>0, <2>1, DestroyedQueued DEF Good, OutTyped
  <2>4. OutTyped' /\ LoopTyped' /\ UserTyped'
    <3>1. OutTyped'
      BY <1>0, <1>6, <2>1, <2>2, <2>3 DEF Good, OutTyped
    <3>2. LoopTyped'
      BY <1>0, <1>6, <2>1, <2>2, <2>3 DEF Good, LoopTyped
    <3>3. UserTyped'
      BY <1>0, <1>6, <2>1, <2>2, <2>3 DEF Good, UserTyped
    <3> QED BY <3>1, <3>2, <3>3
  <2>5. out # <<>> /\ state' # "kDisconnected" => "write" \in events' /\ label' = "kAdded"
    BY <1>6 DEF Good, OutSafe, OutputIsWatched
  <2> QED BY <1>0, <1>6, <2>3, <2>4, <2>5, CalmStep
<1>7. ASSUME events = {}, label' = "kNew", stack' = Tail(stack), inUser' = FALSE,
             UNCHANGED <<connVars, events, ioPending, serverVars, outVars, rcv, sockErr, space,
                         userVars>>
      PROVE  Good'
  <2>1. OutTyped' /\ LoopTyped' /\ UserTyped'
    <3>1. OutTyped'
      BY <1>0, <1>7 DEF Good, OutTyped
    <3>2. LoopTyped'
      BY <1>0, <1>7 DEF Good, LoopTyped
    <3>3. UserTyped'
      BY <1>0, <1>7 DEF Good, UserTyped
    <3> QED BY <3>1, <3>2, <3>3
  <2>2. out # <<>> /\ state' # "kDisconnected" => "write" \in events' /\ label' = "kAdded"
    BY <1>7 DEF Good, OutSafe, OutputIsWatched
  <2> QED BY <1>0, <1>7, <2>1, <2>2, CalmStep DEF QueueSet
<1>8. CASE Head(stack) = "error" /\ sockErr' = FALSE /\ stack' = Tail(stack) /\ inUser' = FALSE
           /\ UNCHANGED <<connVars, chanVars, ioPending, serverVars, outVars, rcv, space, userVars>>
  <2>1. sockErr' \in BOOLEAN /\ inUser' \in BOOLEAN /\ rcv' \in 0..MaxData
    BY <1>8 DEF Good, UserTyped
  <2> QED BY <1>3, <1>8, <2>1
<1> QED BY <1>1, <1>2, <1>4, <1>5, <1>6, <1>7, <1>8 DEF Step

\* shutdownInLoop() with nothing to flush.
LEMMA FinStep ==
    ASSUME Good, LoopTyped', out = <<>>, finSent' \in BOOLEAN, state' = "kConnecting" => state = "kConnecting",
           UNCHANGED <<sameLoop, usage, out, accepted, wire, events, label, space, sockErr, ioPending>>,
           UNCHANGED <<sent, rcv, peerFin, rst, call, holds>>,
           \A f \in QueueSet' : f \in QueueSet \/ f.call = "destroyed"
    PROVE  Good'
<1>1. OutTyped' /\ UserTyped'
  BY UserOpsOf DEF Good, OutTyped, LoopTyped, UserTyped
<1>2. OutSafe' /\ WriteInv'
  BY DEF Good, OutSafe, WriteInv, WireInOrder, FinAfterFlush, OutputIsWatched
<1>3. CallsInv' /\ ConnectingInv'
  BY CallersKept DEF Good, ConnectingInv
<1>4. FunctorsInv'
  BY DEF Good, FunctorsInv
<1> QED BY <1>1, <1>2, <1>3, <1>4 DEF Good

\* startReadInLoop() and stopReadInLoop().
LEMMA ReadStep ==
    ASSUME Good, LoopTyped', StartReadInLoop \/ StopReadInLoop, usage = "read",
           UNCHANGED <<sameLoop, usage, out, accepted, wire, finSent, space, sockErr, ioPending>>,
           UNCHANGED <<sent, rcv, peerFin, rst, call, holds>>,
           \A f \in QueueSet' : f \in QueueSet \/ f.call = "destroyed"
    PROVE  Good'
<1>1. /\ state' = state /\ reading' \in BOOLEAN
      /\ \/ UNCHANGED <<events, label>>
         \/ SetEvents(events \cup {"read"})
         \/ SetEvents(events \ {"read"})
  BY ReadTyped DEF Good
<1>2. /\ events' \subseteq {"read", "write"} /\ label' \in {"kNew", "kAdded", "kDeleted"}
      /\ "write" \in events' <=> "write" \in events
  BY <1>1 DEF SetEvents, Good, OutTyped
<1>3. out = <<>>
  BY DEF Good, WriteInv
<1>4. OutTyped' /\ UserTyped'
  BY <1>2, UserOpsOf DEF Good, OutTyped, LoopTyped, UserTyped
<1> QED BY <1>1, <1>2, <1>3, <1>4, CalmStep

\* The functors of the connection.
LEMMA FunctorStep ==
    ASSUME Good, RunFunctor
    PROVE  Good'
<1> USE DEF config, connVars, chanVars, loopVars, frameVars, serverVars, outVars, peerVars, userVars
<1> DEFINE f == Head(ioBatch)
<1>0. /\ UNCHANGED <<sameLoop, usage, ioPc, revents, baseQueue, inMap, serverAlive, sent, rcv>>
      /\ UNCHANGED <<peerFin, rst, delayed>> /\ UserOps' = UserOps
      /\ stack = <<>> /\ ioBatch # <<>> /\ ioBatch' = Tail(ioBatch) /\ ioHeld' \in BOOLEAN
  <2>1. /\ UNCHANGED <<sameLoop, usage, ioPc, revents, baseQueue, inMap, serverAlive, sent, rcv>>
        /\ UNCHANGED <<peerFin, rst, delayed>>
        /\ stack = <<>> /\ ioBatch # <<>> /\ ioBatch' = Tail(ioBatch)
        /\ ioHeld' = (ioHeld \/ f.call \notin RawCalls)
    BY DEF RunFunctor
  <2>2. ioHeld' \in BOOLEAN
    BY <2>1 DEF Good, LoopTyped
  <2> QED BY <2>1, <2>2, UserOpsOf DEF Good, LoopTyped
<1>1. /\ f \in ioFunctors /\ ioBatch' \in Seq(ioFunctors) /\ f \in QueueSet
      /\ Elements(ioBatch') \subseteq Elements(ioBatch)
  BY <1>0, ElementsOf DEF Good, LoopTyped, QueueSet
<1> HIDE DEF f
<1>2. ASSUME UNCHANGED ioPending PROVE \A g \in QueueSet' : g \in QueueSet \/ g.call = "destroyed"
  BY <1>1, <1>2 DEF QueueSet
<1>3. CASE f.call = "established" /\ ConnectEstablished(<<>>)
           /\ UNCHANGED <<ioPending, outVars, space, sockErr, call>>
  <2>1. /\ state = "kConnecting" /\ state' = "kConnected" /\ events' = {"read"} /\ label' = "kAdded"
        /\ holds' = Users /\ stack' = <<>> /\ inUser' = TRUE /\ reading' = reading
    BY <1>3, SetEventsTyped DEF ConnectEstablished
  <2>2. out = <<>>
    BY <2>1 DEF Good, ConnectingInv
  <2>3. OutTyped' /\ LoopTyped' /\ UserTyped'
    BY <1>0, <1>1, <1>3, <2>1 DEF Good, OutTyped, LoopTyped, UserTyped, States
  <2> QED BY <1>0, <1>2, <1>3, <2>1, <2>2, <2>3, CalmStep
<1>4. CASE f.call = "destroyed" /\ ConnectDestroyed(<<>>)
           /\ UNCHANGED <<ioPending, outVars, space, sockErr, userVars>>
  <2>1. /\ reading' = reading /\ inUser' \in BOOLEAN /\ stack' = <<"remove">>
        /\ \/ state = "kConnected" /\ state' = "kDisconnected" /\ SetEvents({})
           \/ state # "kConnected" /\ UNCHANGED <<state, events, label>>
    BY <1>4, ConnectDestroyedTyped DEF Good
  <2>2. stack' \in Seq(Frames)
    BY <2>1 DEF Frames
  <2>3. CASE state = "kConnected"
    <3>1. state' = "kDisconnected" /\ events' = {} /\ label' \in {"kAdded", "kDeleted"}
      BY <2>1, <2>3, SetEventsTyped
    <3>2. OutTyped' /\ LoopTyped' /\ UserTyped'
      BY <1>0, <1>1, <1>4, <2>1, <2>2, <3>1 DEF Good, OutTyped, LoopTyped, UserTyped, States
    <3> QED BY <1>0, <1>2, <1>4, <3>1, <3>2, CalmStep
  <2>4. CASE state # "kConnected"
    <3>1. UNCHANGED <<state, events, label>>
      BY <2>1, <2>4
    <3>2. OutTyped' /\ LoopTyped' /\ UserTyped'
      <4>1. OutTyped'
        BY <1>0, <1>1, <1>4, <2>1, <2>2, <3>1 DEF Good, OutTyped
      <4>2. LoopTyped'
        BY <1>0, <1>1, <1>4, <2>1, <2>2, <3>1 DEF Good, LoopTyped
      <4>3. UserTyped'
        BY <1>0, <1>1, <1>4, <2>1, <2>2, <3>1 DEF Good, UserTyped
      <4> QED BY <4>1, <4>2, <4>3
    <3>3. out # <<>> /\ state' # "kDisconnected" => "write" \in events' /\ label' = "kAdded"
      BY <3>1 DEF Good, OutSafe, OutputIsWatched
    <3> QED BY <1>0, <1>2, <1>4, <3>1, <3>2, <3>3, CalmStep
  <2> QED BY <2>3, <2>4
<1>5. CASE f.call = "shutdown" /\ ShutdownInLoop /\ inUser' = FALSE
           /\ UNCHANGED <<connVars, chanVars, stack, ioPending, space, sockErr, userVars>>
  <2>1. usage = "shutdown"
    BY <1>1, <1>5 DEF Good, FunctorsInv
  <2>2. out = <<>>
    BY <2>1 DEF Good, WriteInv
  <2>3. UNCHANGED <<out, accepted, wire>> /\ finSent' \in BOOLEAN
    BY <1>5 DEF ShutdownInLoop, Good, OutTyped
  <2>4. LoopTyped'
    BY <1>0, <1>1, <1>5 DEF Good, LoopTyped
  <2> QED BY <1>0, <1>2, <1>5, <2>2, <2>3, <2>4, FinStep
<1>6. CASE f.call = "forceClose"
           /\ (IF MayClose THEN HandleClose(<<>>)
               ELSE inUser' = FALSE /\ UNCHANGED <<connVars, chanVars, stack>>)
           /\ UNCHANGED <<ioPending, outVars, space, sockErr, userVars>>
  <2>1. CASE MayClose
    <3>1. <<>> \in Seq(Frames)
      OBVIOUS
    <3>2. /\ state' = "kDisconnected" /\ reading' = reading /\ inUser' = TRUE
          /\ events' = {} /\ label' \in {"kAdded", "kDeleted"} /\ stack' \in Seq(Frames)
      BY <1>6, <2>1, <3>1, HandleCloseTyped DEF Good
    <3>3. OutTyped' /\ LoopTyped' /\ UserTyped'
      BY <1>0, <1>1, <1>6, <3>2 DEF Good, OutTyped, LoopTyped, UserTyped, States
    <3> QED BY <1>0, <1>2, <1>6, <3>2, <3>3, CalmStep
  <2>2. CASE ~MayClose
    <3>1. /\ UNCHANGED <<state, reading, events, label, stack, ioPending, out, accepted, wire, finSent>>
          /\ UNCHANGED <<space, sockErr, call, holds>> /\ inUser' = FALSE
      BY <1>6, <2>2
    <3>2. OutTyped' /\ LoopTyped' /\ UserTyped'
      <4>1. OutTyped'
        BY <1>0, <1>1, <3>1 DEF Good, OutTyped
      <4>2. LoopTyped'
        BY <1>0, <1>1, <3>1 DEF Good, LoopTyped
      <4>3. UserTyped'
        BY <1>0, <1>1, <3>1 DEF Good, UserTyped
      <4> QED BY <4>1, <4>2, <4>3
    <3>3. out # <<>> /\ state' # "kDisconnected" => "write" \in events' /\ label' = "kAdded"
      BY <3>1 DEF Good, OutSafe, OutputIsWatched
    <3> QED BY <1>0, <1>2, <3>1, <3>2, <3>3, CalmStep
  <2> QED BY <2>1, <2>2
<1>7. CASE f.call \in {"writeComplete", "highWater"} /\ inUser' = TRUE
           /\ UNCHANGED <<connVars, chanVars, stack, ioPending, outVars, space, sockErr, userVars>>
  <2>1. OutTyped' /\ LoopTyped' /\ UserTyped'
    <3>1. OutTyped'
      BY <1>0, <1>1, <1>7 DEF Good, OutTyped
    <3>2. LoopTyped'
      BY <1>0, <1>1, <1>7 DEF Good, LoopTyped
    <3>3. UserTyped'
      BY <1>0, <1>1, <1>7 DEF Good, UserTyped
    <3> QED BY <3>1, <3>2, <3>3
  <2>2. out # <<>> /\ state' # "kDisconnected" => "write" \in events' /\ label' = "kAdded"
    BY <1>7 DEF Good, OutSafe, OutputIsWatched
  <2> QED BY <1>0, <1>2, <1>7, <2>1, <2>2, CalmStep
<1>8. CASE f.call = "send" /\ SendInLoop(f.msg) /\ inUser' = FALSE /\ UNCHANGED <<connVars, stack, userVars>>
  <2>1. f.msg \in 1..MaxSends /\ usage = "contract" /\ state # "kConnecting" /\ state' = state
    BY <1>1, <1>8, FunctorTyped, TcpConnectionAssumption DEF Good, FunctorsInv
  <2>2. OutTyped' /\ OutSafe' /\ QueuesNotices
    BY <1>8, <2>1, SendStep DEF Good
  <2>3. LoopTyped' /\ UserTyped'
    BY <1>0, <1>1, <1>8 DEF Good, LoopTyped, UserTyped
  <2>4. WriteInv'
    BY <1>0, <2>1, <2>2 DEF WriteInv, OutSafe
  <2>5. CallsInv' /\ ConnectingInv'
    BY <1>0, <1>8, <2>1, CallersKept DEF Good
  <2>6. FunctorsInv'
    BY <1>0, <1>1, <2>1, <2>2, NoticesAllowed DEF Good
  <2> QED BY <2>2, <2>3, <2>4, <2>5, <2>6 DEF Good
<1>9. CASE f.call \in {"startRead", "stopRead"} /\ inUser' = FALSE
           /\ (IF f.call = "startRead" THEN StartReadInLoop ELSE StopReadInLoop)
           /\ UNCHANGED <<stack, ioPending, outVars, space, sockErr, userVars>>
  <2>1. StartReadInLoop \/ StopReadInLoop
    BY <1>9
  <2>2. usage = "read"
    BY <1>1, <1>9 DEF Good, FunctorsInv
  <2>3. LoopTyped'
    BY <1>0, <1>1, <1>9, <2>1, ReadTyped DEF Good, LoopTyped
  <2> QED BY <1>0, <1>2, <1>9, <2>1, <2>2, <2>3, ReadStep
<1> QED BY <1>3, <1>4, <1>5, <1>6, <1>7, <1>8, <1>9 DEF RunFunctor, f

\* Calls made on the io loop, and the delayed forceClose().
LEMMA LoopCallStep ==
    ASSUME Good, LoopCall \/ DelayExpires
    PROVE  Good'
<1> USE DEF config, connVars, chanVars, loopVars, frameVars, serverVars, outVars, peerVars, userVars
<1>0. /\ UNCHANGED <<sameLoop, usage, ioPc, revents, ioBatch, ioHeld, baseQueue, inMap, serverAlive>>
      /\ UNCHANGED <<rcv, peerFin, rst, call, holds>> /\ UserOps' = UserOps
  <2>1. /\ UNCHANGED <<sameLoop, usage, ioPc, revents, ioBatch, ioHeld, baseQueue, inMap, serverAlive>>
        /\ UNCHANGED <<rcv, peerFin, rst, call, holds>>
    BY DEF LoopCall, LoopSend, LoopShutdown, LoopForceClose, LoopForceCloseWithDelay, LoopStartStopRead,
           DelayExpires
  <2> QED BY <2>1, UserOpsOf DEF Good, LoopTyped
<1>1. ASSUME UNCHANGED ioPending PROVE \A g \in QueueSet' : g \in QueueSet \/ g.call = "destroyed"
  BY <1>0, <1>1 DEF QueueSet
<1>2. ASSUME NEW q \in Seq(Frames), HandleClose(q), delayed' \in BOOLEAN,
             UNCHANGED <<ioPending, out, accepted, wire, finSent, sent, sockErr, space>>
      PROVE  Good'
  <2>1. /\ state' = "kDisconnected" /\ reading' = reading /\ inUser' = TRUE
        /\ events' = {} /\ label' \in {"kAdded", "kDeleted"} /\ stack' \in Seq(Frames)
    BY <1>2, HandleCloseTyped DEF Good
  <2>2. OutTyped' /\ LoopTyped' /\ UserTyped'
    BY <1>0, <1>2, <2>1 DEF Good, OutTyped, LoopTyped, UserTyped, States
  <2> QED BY <1>0, <1>1, <1>2, <2>1, <2>2, CalmStep
<1>3. CASE LoopSend
  <2>1. /\ sent < MaxSends /\ state = "kConnected" /\ state' = state /\ sent' = sent + 1
        /\ SendInLoop(sent + 1) /\ "send" \in LoopOps
        /\ UNCHANGED <<reading, stack, inUser, delayed>>
    BY <1>3 DEF LoopSend, OnLoop
  <2>2. sent + 1 \in 1..MaxSends
    BY <2>1, TcpConnectionAssumption DEF Good, UserTyped
  <2>3. usage = "contract"
    BY <2>1 DEF LoopOps
  <2>4. OutTyped' /\ OutSafe' /\ QueuesNotices
    BY <2>1, <2>2, SendStep DEF Good
  <2>5. LoopTyped' /\ UserTyped'
    BY <1>0, <2>1, <2>2 DEF Good, LoopTyped, UserTyped
  <2>6. WriteInv'
    BY <1>0, <2>3, <2>4 DEF WriteInv, OutSafe
  <2>7. CallsInv' /\ ConnectingInv'
    BY <1>0, <2>1, CallersKept DEF Good
  <2>8. FunctorsInv'
    BY <1>0, <2>1, <2>4, NoticesAllowed DEF Good
  <2> QED BY <2>4, <2>5, <2>6, <2>7, <2>8 DEF Good
<1>4. CASE LoopShutdown
  <2>1. /\ state = "kConnected" /\ state' = "kDisconnecting"
        /\ finSent' = (finSent \/ "write" \notin events)
        /\ UNCHANGED <<out, accepted, wire, reading, events, label, stack, inUser, ioPending, sent>>
        /\ UNCHANGED <<sockErr, space, delayed>>
    BY <1>4 DEF LoopShutdown, ShutdownInLoop
  <2>2. LoopTyped' /\ finSent' \in BOOLEAN
    BY <1>0, <2>1 DEF Good, LoopTyped, OutTyped, States
  <2>3. CASE out = <<>>
    BY <1>0, <1>1, <2>1, <2>2, <2>3, FinStep
  <2>4. CASE out # <<>>
    <3>1. "write" \in events /\ label = "kAdded"
      BY <2>1, <2>4 DEF Good, OutSafe, OutputIsWatched
    <3>2. finSent' = finSent
      BY <2>1, <3>1 DEF Good, OutTyped
    <3>3. OutTyped' /\ UserTyped'
      BY <1>0, <2>1, <3>2 DEF Good, OutTyped, UserTyped
    <3> QED BY <1>0, <1>1, <2>1, <2>2, <3>1, <3>2, <3>3, CalmStep
  <2> QED BY <2>3, <2>4
<1>5. CASE LoopForceClose
  <2>1. HandleClose(stack) /\ UNCHANGED <<ioPending, out, accepted, wire, finSent, sent, sockErr, space, delayed>>
    BY <1>5 DEF LoopForceClose
  <2>2. stack \in Seq(Frames) /\ delayed' \in BOOLEAN
    BY <2>1 DEF Good, LoopTyped
  <2> QED BY <1>2, <2>1, <2>2
<1>6. CASE LoopForceCloseWithDelay
  <2>1. /\ state \in {"kConnected", "kDisconnecting"} /\ state' = "kDisconnecting" /\ delayed' = TRUE
        /\ UNCHANGED <<out, accepted, wire, finSent, reading, events, label, stack, inUser, ioPending>>
        /\ UNCHANGED <<sent, sockErr, space>>
    BY <1>6 DEF LoopForceCloseWithDelay, MayClose
  <2>2. OutTyped' /\ LoopTyped' /\ UserTyped'
    BY <1>0, <2>1 DEF Good, OutTyped, LoopTyped, UserTyped, States
  <2>3. out # <<>> /\ state' # "kDisconnected" => "write" \in events' /\ label' = "kAdded"
    BY <2>1 DEF Good, OutSafe, OutputIsWatched
  <2> QED BY <1>0, <1>1, <2>1, <2>2, <2>3, CalmStep
<1>7. CASE LoopStartStopRead
  <2>1. /\ StartReadInLoop \/ StopReadInLoop
        /\ "startRead" \in LoopOps \/ "stopRead" \in LoopOps
        /\ UNCHANGED <<out, accepted, wire, finSent, stack, inUser, ioPending>>
        /\ UNCHANGED <<sent, sockErr, space, delayed>>
    BY <1>7 DEF LoopStartStopRead, OnLoop
  <2>2. usage = "read"
    BY <2>1 DEF LoopOps
  <2>3. LoopTyped'
    BY <1>0, <2>1, ReadTyped DEF Good, LoopTyped
  <2> QED BY <1>0, <1>1, <2>1, <2>2, <2>3, ReadStep
<1>8. CASE DelayExpires
  <2>1. UNCHANGED <<ioPending, out, accepted, wire, finSent, sent, sockErr, space>>
    BY <1>8 DEF DelayExpires
  <2>4. delayed' \in BOOLEAN
    <3>1. delayed' = FALSE
      BY <1>8 DEF DelayExpires
    <3> QED BY <3>1
  <2>2. CASE Referenced /\ MayClose
    <3>1. HandleClose(<<>>)
      BY <1>8, <2>2, Zenon DEF DelayExpires
    <3>2. <<>> \in Seq(Frames)
      OBVIOUS
    <3> QED BY <1>2, <2>1, <2>4, <3>1, <3>2
  <2>3. CASE ~(Referenced /\ MayClose)
    <3>1. UNCHANGED <<connVars, chanVars, frameVars>>
      BY <1>8, <2>3, Zenon DEF DelayExpires
    <3>2. OutTyped' /\ LoopTyped' /\ UserTyped'
      <4>1. OutTyped'
        BY <1>0, <2>1, <2>4, <3>1 DEF Good, OutTyped
      <4>2. LoopTyped'
        BY <1>0, <2>1, <2>4, <3>1 DEF Good, LoopTyped
      <4>3. UserTyped'
        BY <1>0, <2>1, <2>4, <3>1 DEF Good, UserTyped
      <4> QED BY <4>1, <4>2, <4>3
    <3>3. out # <<>> /\ state' # "kDisconnected" => "write" \in events' /\ label' = "kAdded"
      BY <3>1 DEF Good, OutSafe, OutputIsWatched
    <3> QED BY <1>0, <1>1, <2>1, <3>1, <3>2, <3>3, CalmStep
  <2> QED BY <2>2, <2>3
<1> QED BY <1>3, <1>4, <1>5, <1>6, <1>7, <1>8 DEF LoopCall

\* The server on the base loop.
LEMMA ServerStep ==
    ASSUME Good, BaseRemove \/ ServerDtor
    PROVE  Good'
<1> USE DEF config, connVars, chanVars, loopVars, frameVars, serverVars, outVars, peerVars, userVars
<1>0. /\ UNCHANGED <<sameLoop, usage, ioPc, revents, ioBatch, ioHeld, delayed, sent, space, sockErr>>
      /\ UNCHANGED <<rcv, peerFin, rst, call, holds, out, accepted, wire, finSent>> /\ UserOps' = UserOps
      /\ inMap' \in BOOLEAN /\ serverAlive' \in BOOLEAN /\ baseQueue' \in Seq({"remove"})
  <2>1. /\ UNCHANGED <<sameLoop, usage, ioPc, revents, ioBatch, ioHeld, delayed, sent, space, sockErr>>
        /\ UNCHANGED <<rcv, peerFin, rst, call, holds, out, accepted, wire, finSent>>
        /\ inMap' \in BOOLEAN /\ serverAlive' \in BOOLEAN
        /\ \/ baseQueue' = baseQueue
           \/ baseQueue # <<>> /\ baseQueue' = Tail(baseQueue)
    <3>1. CASE BaseRemove
      BY <3>1 DEF BaseRemove, RemoveConnectionInLoop, Good, LoopTyped
    <3>2. CASE ServerDtor
      <4>1. /\ serverAlive' = FALSE /\ inMap' = FALSE
            /\ UNCHANGED <<config, loopVars, baseQueue, outVars, sent, peerVars, space, delayed, userVars>>
        BY <3>2, Zenon DEF ServerDtor
      <4>2. inMap' \in BOOLEAN /\ serverAlive' \in BOOLEAN
        BY <4>1, Zenon
      <4> QED BY <4>1, <4>2
    <3> QED BY <3>1, <3>2
  <2>2. baseQueue' \in Seq({"remove"})
    <3>1. baseQueue \in Seq({"remove"})
      BY DEF Good, LoopTyped
    <3>2. baseQueue # <<>> => Tail(baseQueue) \in Seq({"remove"})
      BY <3>1, HeadTailProperties
    <3> QED BY <2>1, <3>1, <3>2, Zenon
  <2> QED BY <2>1, <2>2, UserOpsOf DEF Good, LoopTyped
<1>1. ASSUME ioPending' = ioPending \/ ioPending' = Append(ioPending, Functor("destroyed")),
             UNCHANGED <<state, reading, events, label, stack, inUser>>
      PROVE  Good'
  <2>1. /\ ioPending' \in Seq(ioFunctors)
        /\ \A f \in QueueSet' : f \in QueueSet \/ f.call = "destroyed"
    BY <1>0, <1>1, DestroyedQueued DEF Good, OutTyped
  <2>2. OutTyped' /\ LoopTyped' /\ UserTyped'
    <3>1. OutTyped'
      BY <1>0, <1>1, <2>1 DEF Good, OutTyped
    <3>2. LoopTyped'
      BY <1>0, <1>1, <2>1 DEF Good, LoopTyped
    <3>3. UserTyped'
      BY <1>0, <1>1, <2>1 DEF Good, UserTyped
    <3> QED BY <3>1, <3>2, <3>3
  <2>3. out # <<>> /\ state' # "kDisconnected" => "write" \in events' /\ label' = "kAdded"
    BY <1>1 DEF Good, OutSafe, OutputIsWatched
  <2> QED BY <1>0, <1>1, <2>1, <2>2, <2>3, CalmStep
<1>2. ASSUME ConnectDestroyed(<<>>), ioPending' = ioPending
      PROVE  Good'
  <2>1. /\ reading' = reading /\ inUser' \in BOOLEAN /\ stack' = <<"remove">>
        /\ \/ state = "kConnected" /\ state' = "kDisconnected" /\ SetEvents({})
           \/ state # "kConnected" /\ UNCHANGED <<state, events, label>>
    BY <1>2, ConnectDestroyedTyped DEF Good
  <2>2. stack' \in Seq(Frames) /\ QueueSet' = QueueSet
    BY <1>0, <1>2, <2>1 DEF Frames, QueueSet
  <2>3. CASE state = "kConnected"
    <3>1. state' = "kDisconnected" /\ events' = {} /\ label' \in {"kAdded", "kDeleted"}
      BY <2>1, <2>3, SetEventsTyped
    <3>2. OutTyped' /\ LoopTyped' /\ UserTyped'
      BY <1>0, <1>2, <2>1, <2>2, <3>1 DEF Good, OutTyped, LoopTyped, UserTyped, States
    <3> QED BY <1>0, <2>2, <3>1, <3>2, CalmStep
  <2>4. CASE state # "kConnected"
    <3>1. UNCHANGED <<state, events, label>>
      BY <2>1, <2>4
    <3>2. OutTyped' /\ LoopTyped' /\ UserTyped'
      <4>1. OutTyped'
        BY <1>0, <1>2, <2>1, <2>2, <3>1 DEF Good, OutTyped
      <4>2. LoopTyped'
        BY <1>0, <1>2, <2>1, <2>2, <3>1 DEF Good, LoopTyped
      <4>3. UserTyped'
        BY <1>0, <1>2, <2>1, <2>2, <3>1 DEF Good, UserTyped
      <4> QED BY <4>1, <4>2, <4>3
    <3>3. out # <<>> /\ state' # "kDisconnected" => "write" \in events' /\ label' = "kAdded"
      BY <3>1 DEF Good, OutSafe, OutputIsWatched
    <3> QED BY <1>0, <2>2, <3>1, <3>2, <3>3, CalmStep
  <2> QED BY <2>3, <2>4
<1>3. CASE BaseRemove
  BY <1>1, <1>3 DEF BaseRemove, RemoveConnectionInLoop
<1>4. CASE ServerDtor
  <2>1. CASE sameLoop /\ inMap
    BY <1>2, <1>4, <2>1 DEF ServerDtor
  <2>2. CASE ~(sameLoop /\ inMap)
    BY <1>1, <1>4, <2>2 DEF ServerDtor
  <2> QED BY <2>1, <2>2
<1> QED BY <1>3, <1>4

\* The user threads.
LEMMA UserStep ==
    ASSUME Good, NEW t \in Users, (\E op \in UserOps : UserCheck(t, op)) \/ User(t) \/ UserDrop(t)
    PROVE  Good'
<1> USE DEF config, connVars, chanVars, loopVars, frameVars, serverVars, outVars, peerVars, userVars
<1>0. /\ UNCHANGED <<sameLoop, usage, ioPc, revents, ioBatch, ioHeld, delayed, space, sockErr, reading>>
      /\ UNCHANGED <<rcv, peerFin, rst, out, accepted, wire, finSent, events, label, stack, inUser>>
      /\ UNCHANGED <<baseQueue, inMap, serverAlive>> /\ UserOps' = UserOps
  <2>1. /\ UNCHANGED <<sameLoop, usage, ioPc, revents, ioBatch, ioHeld, delayed, space, sockErr, reading>>
        /\ UNCHANGED <<rcv, peerFin, rst, out, accepted, wire, finSent, events, label, stack, inUser>>
        /\ UNCHANGED <<baseQueue, inMap, serverAlive>>
    BY DEF UserCheck, User, UserSetState, UserQueue, UserDrop
  <2> QED BY <2>1, UserOpsOf DEF Good, LoopTyped
<1>1. CASE \E op \in UserOps : UserCheck(t, op)
  <2> PICK op \in UserOps : UserCheck(t, op)
    BY <1>1
  <2> DEFINE pc == IF op \in {"shutdown", "forceClose"} THEN "checked" ELSE "set"
  <2>1. /\ t \in holds /\ UNCHANGED <<state, ioPending, sent, holds>>
        /\ call' = [call EXCEPT ![t] = <<op, pc>>]
    BY DEF UserCheck
  <2>2. state # "kConnecting"
    BY <2>1 DEF Good, ConnectingInv
  <2>3. OutTyped' /\ LoopTyped' /\ UserTyped'
    <3>1. OutTyped'
      BY <1>0, <2>1 DEF Good, OutTyped
    <3>2. LoopTyped'
      BY <1>0, <2>1 DEF Good, LoopTyped
    <3>3. UserTyped'
      BY <1>0, <2>1 DEF Good, UserTyped
    <3> QED BY <3>1, <3>2, <3>3
  <2>4. CallsInv'
    <3>1. op # "none" /\ (usage = "contract" => op = "send")
      BY UserOpsOf DEF Good, LoopTyped
    <3> QED BY <1>0, <2>1, <3>1 DEF Good, CallsInv, UserTyped, Idle
  <2>5. OutSafe' /\ WriteInv' /\ ConnectingInv' /\ FunctorsInv'
    BY <1>0, <2>1, <2>2 DEF Good, OutSafe, WriteInv, WireInOrder, FinAfterFlush, OutputIsWatched,
                            ConnectingInv, FunctorsInv, QueueSet
  <2> QED BY <2>3, <2>4, <2>5 DEF Good
<1>2. CASE UserSetState(t)
  <2>1. /\ call[t][2] = "checked" /\ state' = "kDisconnecting" /\ UNCHANGED <<ioPending, sent, holds>>
        /\ call' = [call EXCEPT ![t] = <<call[t][1], "set">>]
    BY <1>2 DEF UserSetState
  <2>2. usage # "contract" /\ call[t][1] # "none"
    BY <2>1 DEF Good, CallsInv, Idle
  <2>3. OutTyped' /\ LoopTyped' /\ UserTyped'
    BY <1>0, <2>1 DEF Good, OutTyped, LoopTyped, UserTyped, States
  <2>4. CallsInv' /\ ConnectingInv'
    BY <1>0, <2>1, <2>2 DEF Good, CallsInv, ConnectingInv, UserTyped, Idle
  <2>5. out = <<>>
    BY <2>2 DEF Good, WriteInv
  <2>6. OutSafe' /\ WriteInv' /\ FunctorsInv'
    BY <1>0, <2>1, <2>5 DEF Good, OutSafe, WriteInv, WireInOrder, FinAfterFlush, OutputIsWatched,
                            FunctorsInv, QueueSet
  <2> QED BY <2>3, <2>4, <2>6 DEF Good
<1>3. CASE UserQueue(t)
  <2>1. /\ call[t][2] = "set" /\ UNCHANGED <<state, holds>> /\ call' = [call EXCEPT ![t] = Idle]
    BY <1>3 DEF UserQueue
  <2>2. call[t] # Idle
    BY <2>1 DEF Idle
  <2>3. state # "kConnecting" /\ call[t][1] \in UserOps
    BY <2>2 DEF Good, ConnectingInv, CallsInv, UserTyped
  <2>4. CallsInv' /\ ConnectingInv' /\ call' \in [Users -> (UserOps \cup {"none"}) \X {"idle", "checked", "set"}]
    BY <1>0, <2>1, <2>3 DEF Good, CallsInv, ConnectingInv, UserTyped, Idle
  <2>5. OutSafe' /\ WriteInv'
    BY <1>0, <2>1 DEF Good, OutSafe, WriteInv, WireInOrder, FinAfterFlush, OutputIsWatched
  <2>6. ASSUME NEW f \in ioFunctors, ioPending' = Append(ioPending, f),
               /\ f.call = "send" => f.msg > 0 /\ usage = "contract"
               /\ f.call = "shutdown" => usage = "shutdown"
               /\ f.call \in {"startRead", "stopRead"} => usage = "read"
        PROVE  ioPending' \in Seq(ioFunctors) /\ FunctorsInv'
    <3>1. Elements(ioPending') = Elements(ioPending) \cup {f} /\ ioPending' \in Seq(ioFunctors)
      BY <2>6, ElementsOf, AppendProperties DEF Good, OutTyped
    <3> QED BY <1>0, <2>1, <2>3, <2>6, <3>1 DEF Good, FunctorsInv, QueueSet
  <2>7. sent' \in 0..MaxSends /\ ioPending' \in Seq(ioFunctors) /\ FunctorsInv'
    <3>1. CASE call[t][1] = "send" /\ sent < MaxSends
      <4>1. sent' = sent + 1 /\ ioPending' = Append(ioPending, SendFunctor(sent + 1))
        BY <1>3, <3>1 DEF UserQueue
      <4>2. sent + 1 \in 0..MaxSends /\ sent + 1 > 0
        BY <3>1, TcpConnectionAssumption DEF Good, UserTyped
      <4>3. usage = "contract"
        BY <2>3, <3>1, UserOpsOf DEF Good, LoopTyped
      <4>4. /\ SendFunctor(sent + 1) \in ioFunctors
            /\ SendFunctor(sent + 1).call = "send" /\ SendFunctor(sent + 1).msg = sent + 1
        BY <4>2, FunctorTyped
      <4> QED BY <2>6, <4>1, <4>2, <4>3, <4>4
    <3>2. CASE call[t][1] = "send" /\ ~(sent < MaxSends)
      <4>1. UNCHANGED <<sent, ioPending>>
        BY <1>3, <3>2 DEF UserQueue
      <4> QED BY <1>0, <2>1, <4>1 DEF Good, UserTyped, OutTyped, FunctorsInv, QueueSet
    <3>3. CASE call[t][1] # "send"
      <4>1. sent' = sent /\ ioPending' = Append(ioPending, Functor(call[t][1]))
        BY <1>3, <3>3 DEF UserQueue
      <4>2. /\ call[t][1] \in {"shutdown", "forceClose", "startRead", "stopRead"}
            /\ call[t][1] = "shutdown" => usage = "shutdown"
            /\ call[t][1] \in {"startRead", "stopRead"} => usage = "read"
        BY <2>3, <3>3, UserOpsOf DEF Good, LoopTyped
      <4>3. Functor(call[t][1]) \in ioFunctors /\ Functor(call[t][1]).call = call[t][1]
        BY <4>2, FunctorTyped DEF Calls
      <4>4. sent' \in 0..MaxSends
        BY <4>1 DEF Good, UserTyped
      <4> QED BY <2>6, <3>3, <4>1, <4>2, <4>3, <4>4
    <3> QED BY <3>1, <3>2, <3>3
  <2>8. OutTyped' /\ LoopTyped' /\ UserTyped'
    <3>1. OutTyped'
      BY <1>0, <2>1, <2>4, <2>7 DEF Good, OutTyped
    <3>2. LoopTyped'
      BY <1>0, <2>1, <2>4, <2>7 DEF Good, LoopTyped
    <3>3. UserTyped'
      BY <1>0, <2>1, <2>4, <2>7 DEF Good, UserTyped
    <3> QED BY <3>1, <3>2, <3>3
  <2> QED BY <2>4, <2>5, <2>7, <2>8 DEF Good
<1>4. CASE UserDrop(t)
  <2>1. holds' = holds \ {t} /\ UNCHANGED <<state, call, sent, ioPending>>
    BY <1>4 DEF UserDrop
  <2>2. OutTyped' /\ LoopTyped' /\ UserTyped'
    <3>1. OutTyped'
      BY <1>0, <2>1 DEF Good, OutTyped
    <3>2. LoopTyped'
      BY <1>0, <2>1 DEF Good, LoopTyped
    <3>3. UserTyped'
      BY <1>0, <2>1 DEF Good, UserTyped
    <3> QED BY <3>1, <3>2, <3>3
  <2>3. out # <<>> /\ state' # "kDisconnected" => "write" \in events' /\ label' = "kAdded"
    BY <1>0, <2>1 DEF Good, OutSafe, OutputIsWatched
  <2> QED BY <1>0, <2>1, <2>2, <2>3, CalmStep DEF QueueSet
<1> QED BY <1>1, <1>2, <1>3, <1>4 DEF User

\* The peer and the kernel.
LEMMA PeerStep ==
    ASSUME Good, Peer \/ Drain
    PROVE  Good'
<1> USE DEF config, connVars, chanVars, loopVars, frameVars, serverVars, outVars, peerVars, userVars
<1>0. /\ UNCHANGED <<sameLoop, usage, ioPc, revents, ioBatch, ioHeld, delayed, sent, reading, call, holds>>
      /\ UNCHANGED <<out, accepted, wire, finSent, events, label, stack, inUser, state, ioPending>>
      /\ UNCHANGED <<baseQueue, inMap, serverAlive>> /\ UserOps' = UserOps
  <2>1. /\ UNCHANGED <<sameLoop, usage, ioPc, revents, ioBatch, ioHeld, delayed, sent, reading, call, holds>>
        /\ UNCHANGED <<out, accepted, wire, finSent, events, label, stack, inUser, state, ioPending>>
        /\ UNCHANGED <<baseQueue, inMap, serverAlive>>
    BY DEF Peer, Drain
  <2> QED BY <2>1, UserOpsOf DEF Good, LoopTyped
<1>1. /\ rcv' \in 0..MaxData /\ peerFin' \in BOOLEAN /\ rst' \in BOOLEAN /\ sockErr' \in BOOLEAN
      /\ space' \in 0..MaxSpace
  <2>1. CASE Peer
    <3>1. /\ space' = space
          /\ \/ rcv < MaxData /\ rcv' = rcv + 1 /\ UNCHANGED <<peerFin, rst, sockErr>>
             \/ peerFin' = TRUE /\ UNCHANGED <<rcv, rst, sockErr>>
             \/ rst' = TRUE /\ sockErr' = TRUE /\ UNCHANGED <<rcv, peerFin>>
      BY <2>1, Zenon DEF Peer
    <3>2. /\ rcv \in 0..MaxData /\ peerFin \in BOOLEAN /\ rst \in BOOLEAN /\ sockErr \in BOOLEAN
          /\ space \in 0..MaxSpace /\ MaxData \in Nat
      BY TcpConnectionAssumption DEF Good, OutTyped, UserTyped
    <3>3. CASE rcv < MaxData /\ rcv' = rcv + 1 /\ UNCHANGED <<peerFin, rst, sockErr, space>>
      BY <3>2, <3>3
    <3>4. CASE peerFin' = TRUE /\ UNCHANGED <<rcv, rst, sockErr, space>>
      BY <3>2, <3>4, Zenon
    <3>5. CASE rst' = TRUE /\ sockErr' = TRUE /\ UNCHANGED <<rcv, peerFin, space>>
      BY <3>2, <3>5, Zenon
    <3> QED BY <3>1, <3>3, <3>4, <3>5
  <2>2. CASE Drain
    BY <2>2, TcpConnectionAssumption DEF Drain, Good, OutTyped, UserTyped
  <2> QED BY <2>1, <2>2
<1>2. OutTyped' /\ LoopTyped' /\ UserTyped'
  <2>1. OutTyped'
    BY <1>0, <1>1 DEF Good, OutTyped
  <2>2. LoopTyped'
    BY <1>0, <1>1 DEF Good, LoopTyped
  <2>3. UserTyped'
    BY <1>0, <1>1 DEF Good, UserTyped
  <2> QED BY <2>1, <2>2, <2>3
<1>3. out # <<>> /\ state' # "kDisconnected" => "write" \in events' /\ label' = "kAdded"
  BY <1>0 DEF Good, OutSafe, OutputIsWatched
<1> QED BY <1>0, <1>2, <1>3, CalmStep DEF QueueSet

\* A step that changes nothing.
LEMMA StutterStep ==
    ASSUME Good, UNCHANGED vars
    PROVE  Good'
<1> USE DEF vars, config, connVars, chanVars, loopVars, frameVars, serverVars, outVars, peerVars, userVars
<1>1. UserOps' = UserOps
  BY UserOpsOf DEF Good, LoopTyped
<1>2. OutTyped' /\ LoopTyped' /\ UserTyped'
  <2>1. OutTyped'
    BY <1>1 DEF Good, OutTyped
  <2>2. LoopTyped'
    BY <1>1 DEF Good, LoopTyped
  <2>3. UserTyped'
    BY <1>1 DEF Good, UserTyped
  <2> QED BY <2>1, <2>2, <2>3
<1>3. out # <<>> /\ state' # "kDisconnected" => "write" \in events' /\ label' = "kAdded"
  BY DEF Good, OutSafe, OutputIsWatched
<1>4. UNCHANGED <<usage, call, out, accepted, wire, finSent, state, holds, events, ioPending, ioBatch>>
  OBVIOUS
<1> QED BY <1>2, <1>3, <1>4, CalmStep DEF QueueSet

\* The connection that newConnection() has made.
LEMMA GoodInit == Init => Good
<1> SUFFICES ASSUME Init PROVE Good
  OBVIOUS
<1>1. /\ sameLoop \in SameLoops /\ usage \in Usages /\ sameLoop \in BOOLEAN
      /\ state = "kConnecting" /\ reading = TRUE /\ events = {} /\ label = "kNew" /\ out = <<>>
      /\ ioPc = "events" /\ revents = {} /\ inUser = FALSE /\ ioBatch = <<>> /\ ioHeld = FALSE
      /\ baseQueue = <<>> /\ inMap = TRUE /\ serverAlive = TRUE
      /\ accepted = <<>> /\ wire = <<>> /\ sent = 0 /\ finSent = FALSE
      /\ rcv = 0 /\ peerFin = FALSE /\ rst = FALSE /\ sockErr = FALSE /\ space = MaxSpace
      /\ delayed = FALSE /\ call = [t \in Users |-> Idle] /\ holds = {}
  BY TcpConnectionAssumption DEF Init, NewConnection
<1>2. MaxSends \in Nat /\ MaxData \in Nat /\ MaxSpace \in Nat
  BY TcpConnectionAssumption
<1>3. Functor("established") \in ioFunctors /\ Functor("established").call = "established"
  BY FunctorTyped DEF Calls
<1>4. /\ stack = <<>> \/ stack = <<"established">>
      /\ ioPending = <<>> \/ ioPending = <<Functor("established")>>
  BY <1>1 DEF Init
<1>5. stack \in Seq(Frames)
  <2>1. CASE stack = <<>>
    BY <2>1
  <2>2. CASE stack = <<"established">>
    BY <2>2 DEF Frames
  <2> QED BY <1>4, <2>1, <2>2
<1>6. ioPending \in Seq(ioFunctors) /\ \A f \in Elements(ioPending) : f.call = "established"
  <2>1. CASE ioPending = <<>>
    BY <2>1 DEF Elements
  <2>2. CASE ioPending = <<Functor("established")>>
    <3>1. ioPending \in Seq(ioFunctors) /\ Len(ioPending) = 1 /\ ioPending[1] = Functor("established")
      BY <1>3, <2>2
    <3> QED BY <1>3, <3>1 DEF Elements
  <2> QED BY <1>4, <2>1, <2>2
<1>7. OutTyped
  <2>1. out \in Seq(Units) /\ accepted \in Seq(Units) /\ wire \in Seq(Units)
    BY <1>1
  <2>2. space \in 0..MaxSpace /\ events \subseteq {"read", "write"} /\ label \in {"kNew", "kAdded", "kDeleted"}
    BY <1>1, <1>2
  <2>3. finSent \in BOOLEAN /\ sockErr \in BOOLEAN
    BY <1>1, Zenon
  <2> QED BY <1>6, <2>1, <2>2, <2>3 DEF OutTyped
<1>8. LoopTyped
  <2>1. ioBatch \in Seq(ioFunctors) /\ baseQueue \in Seq({"remove"})
    BY <1>1
  <2> QED BY <1>1, <1>5, <2>1 DEF LoopTyped, States
<1>9. UserTyped
  <2>1. sent \in 0..MaxSends /\ rcv \in 0..MaxData /\ holds \subseteq Users
    BY <1>1, <1>2
  <2>2. peerFin \in BOOLEAN /\ rst \in BOOLEAN
    BY <1>1, Zenon
  <2>3. call \in [Users -> (UserOps \cup {"none"}) \X {"idle", "checked", "set"}]
    <3>1. call = [t \in Users |-> Idle]
      BY <1>1
    <3> QED BY <3>1 DEF Idle
  <2> QED BY <2>1, <2>2, <2>3 DEF UserTyped
<1>10. FunctorsInv
  <2>1. Elements(ioBatch) = {}
    BY <1>1, <1>8, ElementsOf DEF LoopTyped
  <2> QED BY <1>6, <2>1 DEF FunctorsInv, QueueSet
<1>11. CallsInv /\ ConnectingInv /\ WriteInv
  BY <1>1 DEF CallsInv, ConnectingInv, WriteInv, Idle
<1>12. OutSafe
  <2>1. <<>> \o <<>> = <<>>
    BY <1>1, <1>7, ConcatEmptySeq DEF OutTyped
  <2> QED BY <1>1, <2>1 DEF OutSafe, WireInOrder, FinAfterFlush, OutputIsWatched
<1> QED BY <1>7, <1>8, <1>9, <1>10, <1>11, <1>12 DEF Good

\* Every step keeps the types and the output path.
LEMMA GoodStep == Good /\ [Next]_vars => Good'
<1> SUFFICES ASSUME Good, [Next]_vars PROVE Good'
  OBVIOUS
<1>1. CASE IoLoop
  BY <1>1, RoundStep, CallbackStep, FunctorStep, Zenon DEF IoLoop
<1>2. CASE LoopCall \/ DelayExpires
  BY <1>2, LoopCallStep, Zenon
<1>3. CASE BaseRemove \/ ServerDtor
  BY <1>3, ServerStep, Zenon
<1>4. CASE \E t \in Users : (\E op \in UserOps : UserCheck(t, op)) \/ User(t) \/ UserDrop(t)
  BY <1>4, UserStep, Zenon
<1>5. CASE Peer \/ Drain
  BY <1>5, PeerStep, Zenon
<1>6. CASE Abort \/ UNCHANGED vars
  BY <1>6, StutterStep, Zenon DEF Abort
<1> QED BY <1>1, <1>2, <1>3, <1>4, <1>5, <1>6 DEF Next

\* The invariant of the output path: whatever the application calls, on the io
\* loop and from other threads, and however the socket takes the data.
THEOREM OutputPath == Spec => [](TypeOK /\ OutputInv)
<1>1. Spec => []Good
  BY GoodInit, GoodStep, PTL DEF Spec
<1>2. Good => TypeOK /\ OutputInv
  BY GoodParts
<1> QED BY <1>1, <1>2, PTL

\* What reaches the wire, followed by what is buffered, is what sendInLoop()
\* accepted, in order.
THEOREM WireAlwaysInOrder == Spec => []WireInOrder
<1>1. OutputInv => WireInOrder
  BY DEF OutputInv
<1> QED BY <1>1, OutputPath, PTL

\* The half-close of shutdown() comes after the last buffered byte.
THEOREM FinComesAfterFlush == Spec => []FinAfterFlush
<1>1. OutputInv => FinAfterFlush
  BY DEF OutputInv
<1> QED BY <1>1, OutputPath, PTL

\* Unsent output of an open connection is never forgotten: the poller watches
\* the socket for it.
THEOREM OutputAlwaysWatched == Spec => []OutputIsWatched
<1>1. OutputInv => OutputIsWatched
  BY DEF OutputInv
<1> QED BY <1>1, OutputPath, PTL

-----------------------------------------------------------------------------
(* The life of a connection whose application keeps the contract           *)

\* What Top says of the stack.
LEMMA TopOf ==
    ASSUME stack \in Seq(Frames)
    PROVE  /\ Top = "none" <=> stack = <<>>
           /\ stack # <<>> => Top = Head(stack) /\ Top = stack[1] /\ Len(stack) \in Nat \ {0} /\ Top \in Frames
           /\ stack = <<>> => Closers = {}
<1>1. CASE stack = <<>>
  BY <1>1 DEF Top, Closers
<1>2. CASE stack # <<>>
  <2>1. Head(stack) = stack[1] /\ Head(stack) \in Frames /\ Len(stack) \in Nat \ {0}
    BY <1>2, HeadTailProperties, EmptySeq, LenProperties
  <2>2. Top = Head(stack)
    BY <1>2 DEF Top
  <2>3. Top # "none"
    BY <2>1, <2>2 DEF Frames
  <2> QED BY <1>2, <2>1, <2>2, <2>3
<1> QED BY <1>1, <1>2

\* A part of a callback ends and the next one follows.
LEMMA PopStack ==
    ASSUME stack \in Seq(Frames), stack # <<>>, StackShape, stack' = Tail(stack)
    PROVE  /\ StackShape' /\ Top' \in {"none", "error", "read", "write"}
           /\ Closers' # {} => Closers # {} /\ Top \notin {"close", "read"}
           /\ Top \in {"remove", "established"} => Top' = "none" /\ Closers' = {}
<1>1. /\ Len(stack) \in Nat \ {0} /\ Len(stack') = Len(stack) - 1 /\ stack' \in Seq(Frames)
      /\ \A i \in 1..Len(stack') : stack'[i] = stack[i + 1]
  BY HeadTailProperties, EmptySeq, LenProperties
<1>2. Top = stack[1]
  BY TopOf
<1>3. \A i \in 1..Len(stack') : stack'[i] \in {"error", "read", "write"}
  BY <1>1 DEF StackShape
<1>4. Top' \in {"none", "error", "read", "write"}
  <2>1. CASE stack' = <<>>
    BY <2>1 DEF Top
  <2>2. CASE stack' # <<>>
    <3>1. Head(stack') = stack'[1] /\ 1 \in 1..Len(stack')
      BY <1>1, <2>2, EmptySeq, HeadTailProperties, LenProperties
    <3>2. Top' = Head(stack')
      BY <2>2 DEF Top
    <3> QED BY <1>3, <3>1, <3>2
  <2> QED BY <2>1, <2>2
<1>5. \A i \in Closers' : i + 1 \in Closers /\ i \in Nat \ {0}
  BY <1>1 DEF Closers
<1>6. Top \in {"close", "read"} => 1 \in Closers
  BY <1>1, <1>2 DEF Closers
<1>7. \A i, j \in Closers : i = j
  BY DEF StackShape
<1>8. \A i, j \in Closers' : i = j
  BY <1>5, <1>7
<1>9. Closers' # {} => Closers # {} /\ Top \notin {"close", "read"}
  BY <1>5, <1>6, <1>7
<1>10. Top \in {"remove", "established"} => Top' = "none" /\ Closers' = {}
  BY <1>1, TopOf DEF StackShape, Top, Closers
<1>11. StackShape'
  BY <1>1, <1>3, <1>4, <1>8 DEF StackShape
<1> QED BY <1>4, <1>9, <1>10, <1>11

\* handleClose() leaves only callbacks that cannot close again.
LEMMA PushStack ==
    ASSUME NEW q \in Seq(Frames), \A i \in 1..Len(q) : q[i] \in {"error", "write"},
           stack' = <<"closeCallback">> \o q
    PROVE  StackShape' /\ Top' = "closeCallback" /\ Closers' = {}
<1>1. /\ stack' \in Seq(Frames) /\ Len(q) \in Nat /\ Len(stack') = Len(q) + 1 /\ stack' # <<>>
      /\ stack'[1] = "closeCallback" /\ Head(stack') = "closeCallback"
      /\ \A i \in 2..Len(stack') : stack'[i] = q[i - 1]
  BY PushClose, ZenonT(60)
<1>2. Top' = "closeCallback"
  BY <1>1 DEF Top
<1>3. \A i \in 2..Len(stack') : stack'[i] \in {"error", "write"}
  BY <1>1
<1>4. \A i \in 1..Len(stack') : stack'[i] \notin {"close", "read"}
  <2> TAKE i \in 1..Len(stack')
  <2>1. CASE i = 1
    BY <1>1, <2>1
  <2>2. CASE i # 1
    <3>1. i \in 2..Len(stack')
      BY <1>1, <2>2
    <3> QED BY <1>3, <3>1
  <2> QED BY <2>1, <2>2
<1>5. Closers' = {}
  BY <1>4 DEF Closers
<1> QED BY <1>2, <1>3, <1>5 DEF StackShape

\* handleClose() of a connection that may be closed.
LEMMA ContractClose ==
    ASSUME Good, Contract, NEW q \in Seq(Frames), \A i \in 1..Len(q) : q[i] \in {"error", "write"},
           HandleClose(q), revents = {}, ioPc # "poll", UNCHANGED <<ioPc, revents, sameLoop, delayed>>,
           UNCHANGED <<baseQueue, inMap, serverAlive>>, ioPc # "functors" => ioBatch' = <<>>
    PROVE  Contract'
<1>1. /\ state \in {"kConnected", "kDisconnecting"} /\ state' = "kDisconnected"
      /\ events' = {} /\ (label = "kAdded" => label' = "kDeleted")
  BY DEF HandleClose, MayClose, SetEvents
<1>2. StackShape' /\ Top' = "closeCallback" /\ Closers' = {}
  BY PushStack DEF HandleClose
<1>3. inMap /\ serverAlive /\ baseQueue = <<>> /\ label = "kAdded"
  BY <1>1 DEF Contract, OpenInv, MayClose
<1>4. ClosersInv' /\ RoundInv'
  BY <1>2 DEF ClosersInv, RoundInv
<1>5. EarlyInv' /\ OpenInv' /\ ClosedInv'
  BY <1>1, <1>2, <1>3 DEF EarlyInv, OpenInv, ClosedInv, MayClose
<1> QED BY <1>2, <1>4, <1>5 DEF Contract, ServerInv

\* A step that leaves the io loop and the server alone.
LEMMA ContractStill ==
    ASSUME Contract, UNCHANGED <<state, events, label, stack, inUser, ioPc, revents, ioBatch, baseQueue>>,
           UNCHANGED <<inMap, serverAlive, sameLoop, delayed>>, Destroying' <=> Destroying
    PROVE  Contract'
<1>1. Top' = Top /\ Closers' = Closers /\ (StackShape' <=> StackShape)
  BY DEF Top, Closers, StackShape
<1>2. ClosersInv' /\ RoundInv'
  BY <1>1 DEF Contract, ClosersInv, RoundInv, MayClose
<1>3. EarlyInv' /\ OpenInv' /\ ClosedInv'
  BY <1>1 DEF Contract, EarlyInv, OpenInv, ClosedInv, MayClose
<1> QED BY <1>1, <1>2, <1>3 DEF Contract, ServerInv

\* What the queue holds when routines of the output path add their notices.
LEMMA DestroyingKept ==
    ASSUME \/ QueuesNotices /\ Elements(ioBatch') = Elements(ioBatch)
           \/ QueueSet' = QueueSet
           \/ \E f : f.call # "destroyed" /\ (QueueSet' = QueueSet \cup {f} \/ QueueSet = QueueSet' \cup {f})
           \/ \E f : /\ f.call # "destroyed" /\ QueuesNotices
                     /\ Elements(ioBatch) = Elements(ioBatch') \cup {f}
    PROVE  Destroying' <=> Destroying
<1>1. Destroying <=> \E f \in QueueSet : f.call = "destroyed"
  BY DEF Destroying, QueuedCalls, QueueSet
<1>2. Destroying' <=> \E f \in QueueSet' : f.call = "destroyed"
  BY DEF Destroying, QueuedCalls, QueueSet
<1>3. \A f \in Notices : f.call # "destroyed"
  BY FunctorTyped DEF Notices, Calls
<1> QED BY <1>1, <1>2, <1>3 DEF QueuesNotices, QueueSet

\* connectDestroyed() has just been queued.
LEMMA DestroyedWaits ==
    ASSUME ioPending \in Seq(ioFunctors), ioPending' = Append(ioPending, Functor("destroyed"))
    PROVE  Destroying'
<1>1. Functor("destroyed") \in ioFunctors /\ Functor("destroyed").call = "destroyed"
  BY FunctorTyped DEF Calls
<1>2. Elements(ioPending') = Elements(ioPending) \cup {Functor("destroyed")}
  BY <1>1, ElementsOf
<1> QED BY <1>1, <1>2 DEF Destroying, QueuedCalls

\* The steps of the io loop around its callbacks.
LEMMA ContractRound ==
    ASSUME Good, Contract, Poll \/ Dispatch \/ Swap \/ EndBatch
    PROVE  Contract'
<1> USE DEF config, connVars, chanVars, loopVars, frameVars, serverVars, outVars, peerVars, userVars
<1>0. /\ UNCHANGED <<sameLoop, state, events, label, baseQueue, inMap, serverAlive, delayed>>
      /\ stack \in Seq(Frames) /\ state \in States /\ ioBatch \in Seq(ioFunctors) /\ ioPending \in Seq(ioFunctors)
  BY DEF Poll, Dispatch, Swap, EndBatch, Good, LoopTyped, OutTyped
<1>1. CASE Poll
  <2>1. /\ ioPc = "poll" /\ ioPc' = "events" /\ UNCHANGED <<ioBatch, stack, inUser, ioPending>>
        /\ revents' # {} => label = "kAdded"
    BY <1>1 DEF Poll
  <2>2. Top' = Top /\ Closers' = Closers /\ StackShape' /\ (Destroying' <=> Destroying)
    BY <2>1 DEF Contract, Top, Closers, StackShape, Destroying, QueuedCalls
  <2>3. label = "kAdded" => state \in {"kConnected", "kDisconnecting"}
    BY <1>0 DEF Contract, EarlyInv, ClosedInv, States
  <2>4. ClosersInv' /\ RoundInv'
    BY <1>0, <2>1, <2>2, <2>3 DEF Contract, ClosersInv, RoundInv, MayClose
  <2>5. EarlyInv' /\ OpenInv' /\ ClosedInv'
    BY <1>0, <2>1, <2>2 DEF Contract, EarlyInv, OpenInv, ClosedInv, MayClose, RoundInv
  <2> QED BY <1>0, <2>2, <2>4, <2>5 DEF Contract, ServerInv
<1>2. CASE Dispatch
  <2>1. /\ revents # {} /\ revents' = {} /\ inUser' = FALSE /\ UNCHANGED <<ioPc, ioBatch, ioPending>>
        /\ stack' = CallbacksOf(revents) \/ stack' = <<>>
    BY <1>2 DEF Dispatch
  <2>2. /\ state \in {"kConnected", "kDisconnecting"} /\ ioPc = "events" /\ ioBatch = <<>>
    BY <2>1 DEF Contract, RoundInv, MayClose
  <2>3. StackShape' /\ Top' \notin {"closeCallback", "remove", "established"}
    <3>1. CASE stack' = <<>>
      BY <3>1 DEF StackShape, Top, Closers
    <3>2. CASE stack' = CallbacksOf(revents)
      <4>1. stack' \in Seq(Frames) /\ CallbackShape(stack')
        BY <3>2, CallbacksShaped
      <4>2. /\ \A i \in 1..Len(stack') : stack'[i] \in {"close", "error", "read", "write"} /\ (i > 1 => stack'[i] # "close")
            /\ \A i, j \in 1..Len(stack') : {stack'[i], stack'[j]} \subseteq {"close", "read"} => i = j
        BY <4>1 DEF CallbackShape
      <4>3. Top' \in {"none", "close", "error", "read", "write"}
        <5>1. CASE stack' = <<>>
          BY <5>1 DEF Top
        <5>2. CASE stack' # <<>>
          <6>1. Head(stack') = stack'[1] /\ 1 \in 1..Len(stack')
            BY <4>1, <5>2, EmptySeq, HeadTailProperties, LenProperties
          <6>2. Top' = Head(stack')
            BY <5>2 DEF Top
          <6> QED BY <4>2, <6>1, <6>2
        <5> QED BY <5>1, <5>2
      <4>4. \A i, j \in Closers' : i = j
        BY <4>2 DEF Closers
      <4>5. \A i \in 2..Len(stack') : stack'[i] \in {"error", "read", "write"}
        BY <4>2
      <4> QED BY <4>3, <4>4, <4>5 DEF StackShape
    <3> QED BY <2>1, <3>1, <3>2
  <2>4. Destroying' <=> Destroying
    BY <2>1 DEF Destroying, QueuedCalls
  <2>5. ClosersInv' /\ RoundInv'
    BY <1>0, <2>1, <2>2 DEF ClosersInv, RoundInv, MayClose
  <2>6. EarlyInv' /\ OpenInv' /\ ClosedInv'
    BY <1>0, <2>2, <2>3, <2>4 DEF Contract, EarlyInv, OpenInv, ClosedInv, MayClose
  <2> QED BY <1>0, <2>3, <2>5, <2>6 DEF Contract, ServerInv
<1>3. CASE Swap
  <2>1. /\ ioPc = "events" /\ stack = <<>> /\ revents = {} /\ ioPc' = "functors" /\ inUser' = FALSE
        /\ ioBatch' = ioPending /\ ioPending' = <<>> /\ UNCHANGED <<revents, stack>>
    BY <1>3 DEF Swap
  <2>2. Top' = Top /\ Closers' = Closers /\ StackShape' /\ Top = "none"
    BY <2>1 DEF Contract, Top, Closers, StackShape
  <2>3. Destroying' <=> Destroying
    <3>1. Elements(ioPending') = {} /\ Elements(ioBatch) = {}
      BY <1>0, <2>1, ElementsOf DEF Contract, RoundInv
    <3>2. QueueSet' = QueueSet
      BY <2>1, <3>1 DEF QueueSet
    <3> QED BY <3>2, DestroyingKept
  <2>4. ClosersInv' /\ RoundInv'
    BY <1>0, <2>1, <2>2 DEF Contract, ClosersInv, RoundInv, MayClose
  <2>5. EarlyInv' /\ OpenInv' /\ ClosedInv'
    BY <1>0, <2>1, <2>2, <2>3 DEF Contract, EarlyInv, OpenInv, ClosedInv, MayClose
  <2> QED BY <1>0, <2>2, <2>4, <2>5 DEF Contract, ServerInv
<1>4. CASE EndBatch
  <2>1. /\ ioPc = "functors" /\ stack = <<>> /\ ioPc' = "poll" /\ inUser' = FALSE /\ ioBatch = <<>>
        /\ UNCHANGED <<revents, stack, ioBatch, ioPending>>
    BY <1>4 DEF EndBatch
  <2>2. Top' = Top /\ Closers' = Closers /\ StackShape' /\ Top = "none" /\ (Destroying' <=> Destroying)
    BY <2>1 DEF Contract, Top, Closers, StackShape, Destroying, QueuedCalls
  <2>3. ClosersInv' /\ RoundInv'
    BY <1>0, <2>1, <2>2 DEF Contract, ClosersInv, RoundInv, MayClose
  <2>4. EarlyInv' /\ OpenInv' /\ ClosedInv'
    BY <1>0, <2>1, <2>2 DEF Contract, EarlyInv, OpenInv, ClosedInv, MayClose
  <2> QED BY <1>0, <2>2, <2>3, <2>4 DEF Contract, ServerInv
<1> QED BY <1>1, <1>2, <1>3, <1>4

\* A callback ends without closing, and the channel keeps its interest in
\* reading.
LEMMA ContractPop ==
    ASSUME Good, Contract, stack # <<>>, stack' = Tail(stack), inUser' \in BOOLEAN,
           Top \in {"error", "read", "write"}, inUser' => Top = "read",
           UNCHANGED <<sameLoop, state, ioPc, revents, ioBatch, baseQueue, inMap, serverAlive, delayed>>,
           Destroying' <=> Destroying,
           events = {} => UNCHANGED <<events, label>>,
           "read" \in events /\ label = "kAdded" => "read" \in events' /\ label' = "kAdded"
    PROVE  Contract'
<1>1. stack \in Seq(Frames) /\ state \in States
  BY DEF Good, LoopTyped
<1>2. /\ StackShape' /\ Top' \in {"none", "error", "read", "write"}
      /\ Closers' # {} => Closers # {} /\ Top # "read"
  BY <1>1, PopStack DEF Contract
<1>3. Top # "none" /\ state # "kConnecting"
  BY DEF Contract, EarlyInv
<1>4. ClosersInv'
  BY <1>2 DEF Contract, ClosersInv, MayClose
<1>5. RoundInv'
  BY <1>3 DEF Contract, RoundInv
<1>6. EarlyInv' /\ OpenInv' /\ ClosedInv'
  BY <1>2, <1>3 DEF Contract, EarlyInv, OpenInv, ClosedInv, MayClose
<1> QED BY <1>2, <1>4, <1>5, <1>6 DEF Contract, ServerInv

\* The callbacks of the connection.
LEMMA ContractCallback ==
    ASSUME Good, Contract, usage = "contract", Step
    PROVE  Contract'
<1> USE DEF config, connVars, chanVars, loopVars, frameVars, serverVars, outVars, peerVars, userVars
<1>0. /\ UNCHANGED <<sameLoop, ioPc, revents, ioBatch, delayed>>
      /\ stack \in Seq(Frames) /\ state \in States /\ stack # <<>> /\ Top = Head(stack) /\ Top # "none"
      /\ ioBatch \in Seq(ioFunctors) /\ ioPending \in Seq(ioFunctors) /\ StackShape
  <2>1. UNCHANGED <<sameLoop, ioPc, revents, ioBatch, delayed>> /\ stack # <<>>
    BY DEF Step
  <2> QED BY <2>1, TopOf DEF Good, LoopTyped, OutTyped, Contract
<1>1. /\ revents = {} /\ ioPc # "poll" /\ (ioPc # "functors" => ioBatch = <<>>)
  BY <1>0 DEF Contract, RoundInv
<1>2. ASSUME Top \in {"close", "read"}, HandleClose(Tail(stack)), UNCHANGED <<baseQueue, inMap, serverAlive>>
      PROVE  Contract'
  <2>1. /\ Len(stack) \in Nat \ {0} /\ Len(Tail(stack)) = Len(stack) - 1 /\ Tail(stack) \in Seq(Frames)
        /\ \A i \in 1..Len(Tail(stack)) : Tail(stack)[i] = stack[i + 1]
        /\ Top = stack[1]
    BY <1>0, HeadTailProperties, EmptySeq, LenProperties
  <2>2. 1 \in Closers
    BY <1>2, <2>1 DEF Closers
  <2>3. \A i \in 2..Len(stack) : stack[i] \in {"error", "write"}
    <3>1. \A i \in 2..Len(stack) : i \notin Closers
      BY <1>0, <2>2 DEF StackShape
    <3> QED BY <1>0, <2>1, <3>1 DEF StackShape, Closers
  <2>4. \A i \in 1..Len(Tail(stack)) : Tail(stack)[i] \in {"error", "write"}
    BY <2>1, <2>3
  <2> QED BY <1>0, <1>1, <1>2, <2>1, <2>4, ContractClose
<1>3. ASSUME Top = "established", ConnectEstablished(Tail(stack)), UNCHANGED <<ioPending, serverVars>>
      PROVE  Contract'
  <2>1. /\ state = "kConnecting" /\ state' = "kConnected" /\ events' = {"read"} /\ label' = "kAdded"
        /\ stack' = Tail(stack) /\ inUser' = TRUE
    BY <1>3, SetEventsTyped DEF ConnectEstablished
  <2>2. StackShape' /\ Top' = "none" /\ Closers' = {}
    BY <1>0, <1>3, <2>1, PopStack
  <2>3. Destroying' <=> Destroying
    BY <1>0, <1>3 DEF Destroying, QueuedCalls
  <2>4. ClosersInv' /\ RoundInv'
    BY <1>0, <1>1, <2>2 DEF ClosersInv, RoundInv
  <2>5. EarlyInv' /\ OpenInv' /\ ClosedInv'
    BY <1>0, <1>3, <2>1, <2>2, <2>3 DEF Contract, EarlyInv, OpenInv, ClosedInv, MayClose
  <2> QED BY <1>0, <1>3, <2>2, <2>4, <2>5 DEF Contract, ServerInv
<1>4. ASSUME Top \in {"error", "read"}, stack' = Tail(stack), inUser' \in BOOLEAN, inUser' => Top = "read",
             UNCHANGED <<state, events, label, ioPending, serverVars>>
      PROVE  Contract'
  <2>1. Destroying' <=> Destroying
    BY <1>0, <1>4 DEF Destroying, QueuedCalls
  <2> QED BY <1>0, <1>4, <2>1, ContractPop
<1>5. ASSUME Top = "write", HandleWrite, stack' = Tail(stack), inUser' = FALSE, UNCHANGED <<connVars, serverVars>>
      PROVE  Contract'
  <2>1. state' = state
    BY <1>5
  <2>2. /\ QueuesNotices
        /\ \/ UNCHANGED <<events, label>>
           \/ "write" \in events /\ events' = events \ {"write"} /\ (events' # {} => label' = "kAdded")
    BY <1>5, <2>1, WriteStep DEF Good
  <2>3. Destroying' <=> Destroying
    BY <1>0, <2>2, DestroyingKept
  <2>4. /\ events = {} => UNCHANGED <<events, label>>
        /\ "read" \in events /\ label = "kAdded" => "read" \in events' /\ label' = "kAdded"
    BY <2>2
  <2> QED BY <1>0, <1>5, <2>1, <2>3, <2>4, ContractPop
<1>6. ASSUME Top \in {"closeCallback", "remove"} PROVE state = "kDisconnected" /\ Closers = {}
  BY <1>0, <1>6 DEF Contract, EarlyInv, OpenInv, ClosersInv, MayClose, States
<1>7. ASSUME Top = "closeCallback", CloseCallback, UNCHANGED <<connVars, chanVars>>
      PROVE  Contract'
  <2>1. /\ stack' = Tail(stack) /\ inUser' = FALSE
        /\ \/ /\ ioPending' = Append(ioPending, Functor("destroyed"))
              /\ sameLoop /\ UNCHANGED baseQueue
           \/ ~sameLoop /\ UNCHANGED <<inMap, serverAlive, ioPending>> /\ baseQueue' = Append(baseQueue, "remove")
    BY <1>7 DEF CloseCallback, RemoveConnectionInLoop
  <2>2. /\ StackShape' /\ Top' \in {"none", "error", "read", "write"} /\ Closers' = {}
    BY <1>0, <1>6, <1>7, <2>1, PopStack
  <2>3. /\ inMap /\ serverAlive /\ baseQueue = <<>> /\ state = "kDisconnected" /\ state' = state
        /\ events = {} /\ label \in {"kDeleted", "kNew"} /\ UNCHANGED <<events, label>>
    BY <1>6, <1>7 DEF Contract, ClosedInv
  <2>4. ClosedInv'
    <3>1. CASE sameLoop
      <4>1. Destroying'
        BY <1>0, <2>1, <3>1, DestroyedWaits
      <4> QED BY <2>1, <2>2, <2>3, <3>1, <4>1 DEF ClosedInv
    <3>2. CASE ~sameLoop
      <4>1. baseQueue' = <<"remove">>
        <5>1. baseQueue' = Append(<<>>, "remove")
          BY <2>1, <2>3, <3>2
        <5>2. Append(<<>>, "remove") = <<"remove">>
          OBVIOUS
        <5> QED BY <5>1, <5>2
      <4> QED BY <1>0, <2>1, <2>2, <2>3, <3>2, <4>1 DEF ClosedInv
    <3> QED BY <3>1, <3>2
  <2>5. ClosersInv' /\ RoundInv' /\ EarlyInv' /\ OpenInv'
    BY <1>0, <1>1, <2>2, <2>3 DEF ClosersInv, RoundInv, EarlyInv, OpenInv, MayClose
  <2>6. ServerInv'
    BY <1>0, <2>1, <2>3 DEF ServerInv
  <2> QED BY <1>0, <2>2, <2>4, <2>5, <2>6 DEF Contract
<1>8. ASSUME Top = "remove", events = {}, label' = "kNew", stack' = Tail(stack), inUser' = FALSE,
             UNCHANGED <<connVars, events, ioPending, serverVars>>
      PROVE  Contract'
  <2>1. StackShape' /\ Top' = "none" /\ Closers' = {}
    BY <1>0, <1>8, PopStack
  <2>2. Destroying' <=> Destroying
    BY <1>0, <1>8 DEF Destroying, QueuedCalls
  <2>3. state = "kDisconnected"
    BY <1>6, <1>8
  <2>4. ClosedInv'
    BY <1>0, <1>8, <2>1, <2>2, <2>3 DEF Contract, ClosedInv
  <2>5. ClosersInv' /\ RoundInv' /\ EarlyInv' /\ OpenInv'
    BY <1>0, <1>1, <1>8, <2>1, <2>3 DEF ClosersInv, RoundInv, EarlyInv, OpenInv, MayClose
  <2> QED BY <1>0, <1>8, <2>1, <2>4, <2>5 DEF Contract, ServerInv
<1>9. ASSUME Top = "read", HandleRead, UNCHANGED <<ioPending, serverVars>>
      PROVE  Contract'
  <2>1. CASE stack' = Tail(stack) /\ inUser' = TRUE /\ UNCHANGED <<connVars, chanVars>>
    <3>1. inUser' \in BOOLEAN
      BY <2>1, Zenon
    <3> QED BY <1>4, <1>9, <2>1, <3>1
  <2>2. CASE stack' = Tail(stack) /\ inUser' = FALSE /\ UNCHANGED <<connVars, chanVars>>
    <3>1. inUser' \in BOOLEAN
      BY <2>2, Zenon
    <3> QED BY <1>4, <1>9, <2>2, <3>1
  <2>3. CASE HandleClose(Tail(stack))
    BY <1>2, <1>9, <2>3
  <2> QED BY <1>9, <2>1, <2>2, <2>3 DEF HandleRead
<1>10. CASE Head(stack) = "error" /\ stack' = Tail(stack) /\ inUser' = FALSE
           /\ UNCHANGED <<connVars, chanVars, ioPending, serverVars>>
  <2>1. inUser' \in BOOLEAN
    BY <1>10, Zenon
  <2> QED BY <1>0, <1>4, <1>10, <2>1
<1> QED BY <1>0, <1>2, <1>3, <1>5, <1>7, <1>8, <1>9, <1>10 DEF Step

\* A functor runs and leaves the connection, its channel and the stack.
LEMMA ContractRun ==
    ASSUME Good, Contract, stack = <<>>, ioPc = "functors", Destroying' <=> Destroying,
           UNCHANGED <<sameLoop, state, stack, ioPc, revents, baseQueue, inMap, serverAlive, delayed>>,
           \/ UNCHANGED <<events, label>>
           \/ /\ state \notin {"kConnecting", "kDisconnected"}
              /\ "read" \in events => "read" \in events' /\ label' = "kAdded"
    PROVE  Contract'
<1>1. Top' = Top /\ Closers' = Closers /\ StackShape' /\ Top = "none" /\ Closers = {}
  BY DEF Contract, Top, Closers, StackShape
<1>2. ClosersInv' /\ RoundInv'
  BY <1>1 DEF Contract, ClosersInv, RoundInv
<1>3. EarlyInv' /\ OpenInv' /\ ClosedInv'
  BY <1>1 DEF Contract, EarlyInv, OpenInv, ClosedInv, MayClose
<1> QED BY <1>1, <1>2, <1>3 DEF Contract, ServerInv

\* connectDestroyed() of a connection that is open or closed already, with
\* nothing else to be done.
LEMMA ContractDestroy ==
    ASSUME Good, Contract, stack = <<>>, ioPc = "functors", ConnectDestroyed(<<>>),
           UNCHANGED <<sameLoop, ioPc, revents, baseQueue, delayed>>,
           state \in {"kConnected", "kDisconnected"},
           baseQueue # <<>> => UNCHANGED <<inMap, serverAlive>>,
           ~sameLoop => UNCHANGED serverAlive
    PROVE  Contract'
<1>1. /\ stack' = <<"remove">>
      /\ \/ state = "kConnected" /\ state' = "kDisconnected" /\ SetEvents({})
         \/ state # "kConnected" /\ UNCHANGED <<state, events, label>>
  BY ConnectDestroyedTyped DEF Good
<1>2. StackShape' /\ Top' = "remove" /\ Closers' = {}
  <2>1. Len(stack') = 1 /\ stack'[1] = "remove" /\ Head(stack') = "remove" /\ Tail(stack') = <<>> /\ stack' # <<>>
    BY <1>1
  <2> QED BY <2>1 DEF StackShape, Top, Closers
<1>3. Top = "none" /\ revents = {}
  BY DEF Top, Contract, RoundInv
<1>4. /\ state' = "kDisconnected" /\ events' = {} /\ label' \in {"kDeleted", "kNew"}
      /\ \/ inMap /\ serverAlive /\ baseQueue = <<"remove">> /\ ~sameLoop
         \/ baseQueue = <<>>
  <2>1. CASE state = "kConnected"
    <3>1. label = "kAdded" /\ baseQueue = <<>>
      BY <2>1 DEF Contract, OpenInv, MayClose
    <3> QED BY <1>1, <2>1, <3>1 DEF SetEvents
  <2>2. CASE state = "kDisconnected"
    BY <1>1, <1>3, <2>2 DEF Contract, ClosedInv
  <2> QED BY <2>1, <2>2
<1>5. ClosersInv' /\ RoundInv' /\ EarlyInv' /\ OpenInv'
  BY <1>2, <1>3, <1>4 DEF ClosersInv, RoundInv, EarlyInv, OpenInv, MayClose
<1>6. ClosedInv'
  BY <1>2, <1>4 DEF ClosedInv
<1>7. ServerInv'
  BY DEF Contract, ServerInv
<1> QED BY <1>2, <1>5, <1>6, <1>7 DEF Contract

\* The functors of the connection.
LEMMA ContractFunctor ==
    ASSUME Good, Contract, usage = "contract", RunFunctor
    PROVE  Contract'
<1> USE DEF config, connVars, chanVars, loopVars, frameVars, serverVars, outVars, peerVars, userVars
<1> DEFINE f == Head(ioBatch)
<1>0. /\ UNCHANGED <<sameLoop, ioPc, revents, baseQueue, inMap, serverAlive, delayed>>
      /\ ioPc = "functors" /\ stack = <<>> /\ ioBatch # <<>> /\ ioBatch' = Tail(ioBatch)
      /\ ioBatch \in Seq(ioFunctors) /\ ioPending \in Seq(ioFunctors) /\ state \in States
  BY DEF RunFunctor, Good, LoopTyped, OutTyped
<1>1. f \in ioFunctors /\ f \in QueueSet /\ Elements(ioBatch) = Elements(ioBatch') \cup {f}
  BY <1>0, ElementsOf DEF QueueSet
<1> HIDE DEF f
<1>2. Top = "none" /\ Closers = {} /\ revents = {}
  BY <1>0 DEF Top, Closers, Contract, RoundInv
<1>3. ASSUME f.call # "destroyed", ioPending' = ioPending PROVE Destroying' <=> Destroying
  <2>1. QueueSet = QueueSet' \cup {f}
    BY <1>1, <1>3 DEF QueueSet
  <2> QED BY <1>3, <2>1, DestroyingKept
<1>4. CASE f.call = "established" /\ ConnectEstablished(<<>>) /\ UNCHANGED ioPending
  <2>1. /\ state = "kConnecting" /\ state' = "kConnected" /\ events' = {"read"} /\ label' = "kAdded"
        /\ stack' = stack
    BY <1>0, <1>4, SetEventsTyped DEF ConnectEstablished
  <2>2. Top' = "none" /\ Closers' = {} /\ StackShape'
    BY <1>2, <2>1 DEF Contract, Top, Closers, StackShape
  <2>3. Destroying' <=> Destroying
    BY <1>3, <1>4
  <2>4. ClosersInv' /\ RoundInv'
    BY <1>0, <1>2, <2>2 DEF ClosersInv, RoundInv
  <2>5. EarlyInv' /\ OpenInv' /\ ClosedInv'
    BY <1>0, <2>1, <2>2, <2>3 DEF Contract, EarlyInv, OpenInv, ClosedInv, MayClose
  <2> QED BY <1>0, <2>2, <2>4, <2>5 DEF Contract, ServerInv
<1>5. CASE f.call = "destroyed" /\ ConnectDestroyed(<<>>)
  <2>1. Destroying
    BY <1>1, <1>5 DEF Destroying, QueuedCalls, QueueSet
  <2>2. state = "kDisconnected"
    BY <1>0, <2>1 DEF Contract, EarlyInv, OpenInv, MayClose, States
  <2> QED BY <1>0, <1>5, <2>2, ContractDestroy
<1>6. CASE f.call = "shutdown" /\ UNCHANGED <<connVars, chanVars, stack, ioPending>>
  <2>1. Destroying' <=> Destroying
    BY <1>3, <1>6
  <2> QED BY <1>0, <1>6, <2>1, ContractRun
<1>7. CASE f.call = "forceClose" /\ UNCHANGED ioPending
           /\ (IF MayClose THEN HandleClose(<<>>)
               ELSE inUser' = FALSE /\ UNCHANGED <<connVars, chanVars, stack>>)
  <2>1. CASE MayClose
    <3>1. HandleClose(<<>>)
      BY <1>7, <2>1
    <3>2. <<>> \in Seq(Frames) /\ \A i \in 1..Len(<<>>) : <<>>[i] \in {"error", "write"}
      OBVIOUS
    <3> QED BY <1>0, <1>2, <3>1, <3>2, ContractClose
  <2>2. CASE ~MayClose
    <3>1. UNCHANGED <<connVars, chanVars, stack>>
      BY <1>7, <2>2
    <3>2. Destroying' <=> Destroying
      BY <1>3, <1>7
    <3> QED BY <1>0, <3>1, <3>2, ContractRun
  <2> QED BY <2>1, <2>2
<1>8. CASE f.call \in {"writeComplete", "highWater"} /\ UNCHANGED <<connVars, chanVars, stack, ioPending>>
  <2>1. Destroying' <=> Destroying
    BY <1>3, <1>8
  <2> QED BY <1>0, <1>8, <2>1, ContractRun
<1>9. CASE f.call = "send" /\ SendInLoop(f.msg) /\ UNCHANGED <<connVars, stack>>
  <2>1. f.msg \in 1..MaxSends /\ state # "kConnecting" /\ state' = state
    BY <1>1, <1>9, FunctorTyped, TcpConnectionAssumption DEF Good, FunctorsInv
  <2>2. SendLeavesChannel /\ QueuesNotices
    BY <1>9, <2>1, SendStep DEF Good
  <2>3. Destroying' <=> Destroying
    BY <1>1, <1>9, <2>2, DestroyingKept
  <2>4. \/ UNCHANGED <<events, label>>
        \/ /\ state \notin {"kConnecting", "kDisconnected"}
           /\ "read" \in events => "read" \in events' /\ label' = "kAdded"
    BY <2>1, <2>2 DEF SendLeavesChannel
  <2> QED BY <1>0, <1>9, <2>1, <2>3, <2>4, ContractRun
<1>10. f.call \notin {"startRead", "stopRead"}
  BY <1>1 DEF Good, FunctorsInv
<1> QED BY <1>4, <1>5, <1>6, <1>7, <1>8, <1>9, <1>10 DEF RunFunctor, f

\* The calls a contract application makes on the io loop.
LEMMA ContractLoopCall ==
    ASSUME Good, Contract, usage = "contract", LoopCall \/ DelayExpires
    PROVE  Contract'
<1> USE DEF config, connVars, chanVars, loopVars, frameVars, serverVars, outVars, peerVars, userVars
<1>1. LoopOps = {"send", "shutdown", "forceClose"} /\ stack \in Seq(Frames)
  BY ContractLoopOps DEF Good, LoopTyped
<1>2. CASE LoopSend
  <2>1. /\ sent < MaxSends /\ state = "kConnected" /\ SendInLoop(sent + 1)
        /\ UNCHANGED <<state, stack, inUser, ioPc, revents, ioBatch, baseQueue, inMap, serverAlive>>
        /\ UNCHANGED <<sameLoop, delayed>>
    BY <1>2 DEF LoopSend
  <2>2. sent + 1 \in 1..MaxSends
    BY <2>1, TcpConnectionAssumption DEF Good, UserTyped
  <2>3. SendLeavesChannel /\ QueuesNotices
    BY <2>1, <2>2, SendStep DEF Good
  <2>4. Destroying' <=> Destroying
    BY <2>1, <2>3, DestroyingKept
  <2>5. "read" \in events' /\ label' = "kAdded" /\ Top' = Top /\ Closers' = Closers /\ StackShape'
    BY <2>1, <2>3 DEF Contract, OpenInv, MayClose, SendLeavesChannel, Top, Closers, StackShape
  <2>6. ClosersInv' /\ RoundInv'
    BY <2>1, <2>5 DEF Contract, ClosersInv, RoundInv, MayClose
  <2>7. EarlyInv' /\ OpenInv' /\ ClosedInv'
    BY <2>1, <2>4, <2>5 DEF Contract, EarlyInv, OpenInv, ClosedInv, MayClose
  <2> QED BY <2>1, <2>5, <2>6, <2>7 DEF Contract, ServerInv
<1>3. CASE LoopShutdown
  <2>1. /\ state = "kConnected" /\ state' = "kDisconnecting"
        /\ UNCHANGED <<events, label, stack, inUser, ioPc, revents, ioBatch, ioPending, baseQueue, inMap>>
        /\ UNCHANGED <<serverAlive, sameLoop, delayed>>
    BY <1>3 DEF LoopShutdown
  <2>2. Destroying' <=> Destroying
    BY <2>1 DEF Destroying, QueuedCalls
  <2>3. Top' = Top /\ Closers' = Closers /\ StackShape'
    BY <2>1 DEF Contract, Top, Closers, StackShape
  <2>4. ClosersInv' /\ RoundInv'
    BY <2>1, <2>3 DEF Contract, ClosersInv, RoundInv, MayClose
  <2>5. EarlyInv' /\ OpenInv' /\ ClosedInv'
    BY <2>1, <2>2, <2>3 DEF Contract, EarlyInv, OpenInv, ClosedInv, MayClose
  <2> QED BY <2>1, <2>3, <2>4, <2>5 DEF Contract, ServerInv
<1>4. CASE LoopForceClose
  <2>1. /\ HandleClose(stack) /\ (inUser \/ (ioPc = "functors" /\ stack = <<>>))
        /\ UNCHANGED <<ioPc, revents, ioBatch, baseQueue, inMap, serverAlive, sameLoop, delayed>>
    BY <1>4 DEF LoopForceClose, OnLoop
  <2>2. MayClose
    BY <2>1 DEF HandleClose
  <2>3. revents = {} /\ ioPc # "poll" /\ (ioPc # "functors" => ioBatch' = <<>>)
    BY <2>1 DEF Contract, RoundInv
  <2>4. \A i \in 1..Len(stack) : stack[i] \in {"error", "write"}
    <3>1. CASE stack = <<>>
      BY <3>1
    <3>2. CASE stack # <<>>
      <4>1. Closers = {}
        BY <2>1, <3>2 DEF Contract, ClosersInv
      <4>2. Top = stack[1] /\ Top \in Frames /\ Len(stack) \in Nat \ {0}
        BY <1>1, <3>2, TopOf
      <4>3. Top \notin {"closeCallback", "remove", "established"}
        BY <2>2 DEF Contract, OpenInv
      <4>4. \A i \in 1..Len(stack) : stack[i] \notin {"close", "read"}
        BY <4>1 DEF Closers
      <4>5. stack[1] \in {"error", "write"}
        BY <4>2, <4>3, <4>4 DEF Frames
      <4>6. \A i \in 2..Len(stack) : stack[i] \in {"error", "write"}
        BY <4>4 DEF Contract, StackShape
      <4> QED BY <4>2, <4>5, <4>6
    <3> QED BY <3>1, <3>2
  <2> QED BY <1>1, <2>1, <2>3, <2>4, ContractClose
<1>5. ~LoopForceCloseWithDelay /\ ~LoopStartStopRead /\ ~DelayExpires
  BY <1>1 DEF LoopForceCloseWithDelay, LoopStartStopRead, DelayExpires, OnLoop, Contract
<1> QED BY <1>2, <1>3, <1>4, <1>5 DEF LoopCall

\* The server on the base loop.
LEMMA ContractServer ==
    ASSUME Good, Contract, usage = "contract", BaseRemove \/ ServerDtor
    PROVE  Contract'
<1> USE DEF config, connVars, chanVars, loopVars, frameVars, serverVars, outVars, peerVars, userVars
<1>0. stack \in Seq(Frames) /\ state \in States /\ ioPending \in Seq(ioFunctors) /\ sameLoop \in BOOLEAN
  BY TcpConnectionAssumption DEF Good, LoopTyped, OutTyped
<1>1. CASE BaseRemove
  <2>1. /\ baseQueue # <<>> /\ baseQueue' = Tail(baseQueue)
        /\ ioPending' = Append(ioPending, Functor("destroyed"))
        /\ UNCHANGED <<state, events, label, stack, inUser, ioPc, revents, ioBatch, serverAlive>>
        /\ UNCHANGED <<sameLoop, delayed>>
    BY <1>1 DEF BaseRemove, RemoveConnectionInLoop
  <2>2. /\ state = "kDisconnected" /\ Top # "closeCallback" /\ baseQueue = <<"remove">> /\ ~sameLoop
        /\ events = {} /\ label \in {"kDeleted", "kNew"} /\ Top # "established"
    BY <1>0, <2>1 DEF Contract, EarlyInv, OpenInv, ClosedInv, MayClose, States
  <2>3. baseQueue' = <<>> /\ Destroying'
    BY <1>0, <2>1, <2>2, DestroyedWaits
  <2>4. Top' = Top /\ Closers' = Closers /\ StackShape'
    BY <2>1 DEF Contract, Top, Closers, StackShape
  <2>5. ClosersInv' /\ RoundInv' /\ ServerInv'
    BY <2>1, <2>4 DEF Contract, ClosersInv, RoundInv, MayClose, ServerInv
  <2>6. EarlyInv' /\ OpenInv' /\ ClosedInv'
    BY <2>1, <2>2, <2>3, <2>4 DEF EarlyInv, OpenInv, ClosedInv, MayClose
  <2> QED BY <2>1, <2>4, <2>5, <2>6 DEF Contract
<1>2. CASE ServerDtor
  <2>1. sameLoop /\ state # "kDisconnecting"
    BY <1>2 DEF ServerDtor, ServerDies
  <2>2. /\ ioPc = "functors" /\ stack = <<>> /\ ioPending' = ioPending
        /\ IF inMap THEN ConnectDestroyed(<<>>) ELSE UNCHANGED <<state, events, label, stack, inUser>>
        /\ UNCHANGED <<sameLoop, ioPc, revents, ioBatch, baseQueue, delayed>>
    BY <1>2, <2>1 DEF ServerDtor
  <2>3. Top = "none" /\ state # "kConnecting"
    BY <2>1, <2>2 DEF Top, Contract, EarlyInv
  <2>4. state \in {"kConnected", "kDisconnected"}
    BY <1>0, <2>1, <2>3 DEF States
  <2>5. baseQueue = <<>>
    BY <2>1, <2>3, <2>4 DEF Contract, OpenInv, ClosedInv, MayClose
  <2>6. CASE inMap
    <3>1. ConnectDestroyed(<<>>)
      BY <2>2, <2>6
    <3>2. Good /\ Contract
      OBVIOUS
    <3> QED BY <2>1, <2>2, <2>4, <2>5, <3>1, <3>2, ContractDestroy
  <2>7. CASE ~inMap
    <3>1. UNCHANGED <<state, events, label, stack, inUser>>
      BY <2>2, <2>7
    <3>2. state = "kDisconnected"
      BY <2>4, <2>7 DEF Contract, OpenInv, MayClose
    <3>3. Destroying' <=> Destroying
      BY <2>2 DEF Destroying, QueuedCalls
    <3>4. Top' = Top /\ Closers' = Closers /\ StackShape'
      BY <3>1 DEF Contract, Top, Closers, StackShape
    <3>5. ClosersInv' /\ RoundInv'
      BY <2>2, <3>1, <3>4 DEF Contract, ClosersInv, RoundInv, MayClose
    <3>6. EarlyInv' /\ OpenInv' /\ ServerInv'
      BY <2>1, <2>2, <3>1, <3>2 DEF EarlyInv, OpenInv, MayClose, ServerInv
    <3>7. ClosedInv'
      BY <2>2, <2>3, <2>5, <2>7, <3>1, <3>2, <3>3, <3>4 DEF Contract, ClosedInv
    <3> QED BY <2>2, <3>4, <3>5, <3>6, <3>7 DEF Contract
  <2> QED BY <2>6, <2>7
<1> QED BY <1>1, <1>2

\* The user threads of a contract application, the peer and the kernel.
LEMMA ContractOthers ==
    ASSUME Good, Contract, usage = "contract",
           \/ \E t \in Users : (\E op \in UserOps : UserCheck(t, op)) \/ User(t) \/ UserDrop(t)
           \/ Peer \/ Drain \/ Abort \/ UNCHANGED vars
    PROVE  Contract'
<1> USE DEF config, connVars, chanVars, loopVars, frameVars, serverVars, outVars, peerVars, userVars
<1>1. ASSUME UNCHANGED <<state, events, label, stack, inUser, ioPc, revents, ioBatch, baseQueue>>,
             UNCHANGED <<inMap, serverAlive, sameLoop, delayed, ioPending>>
      PROVE  Contract'
  <2>1. Destroying' <=> Destroying
    BY <1>1 DEF Destroying, QueuedCalls
  <2> QED BY <1>1, <2>1, ContractStill
<1>2. ASSUME NEW t \in Users, UserQueue(t) PROVE Contract'
  <2>1. /\ UNCHANGED <<state, events, label, stack, inUser, ioPc, revents, ioBatch, baseQueue>>
        /\ UNCHANGED <<inMap, serverAlive, sameLoop, delayed>> /\ call[t][2] = "set"
    BY <1>2 DEF UserQueue
  <2>2. call[t][1] = "send"
    <3>1. call[t] # Idle
      BY <2>1 DEF Idle
    <3>2. call[t][1] \in UserOps
      BY <3>1 DEF Good, CallsInv, UserTyped
    <3> QED BY <3>2, UserOpsOf DEF Good, LoopTyped
  <2>3. CASE sent < MaxSends
    <3>1. ioPending' = Append(ioPending, SendFunctor(sent + 1))
      BY <1>2, <2>2, <2>3 DEF UserQueue
    <3>2. sent + 1 \in 0..MaxSends
      BY <2>3, TcpConnectionAssumption DEF Good, UserTyped
    <3>3. SendFunctor(sent + 1) \in ioFunctors /\ SendFunctor(sent + 1).call = "send"
      BY <3>2, FunctorTyped
    <3>4. Elements(ioPending') = Elements(ioPending) \cup {SendFunctor(sent + 1)}
      BY <3>1, <3>3, ElementsOf DEF Good, OutTyped
    <3>5. QueueSet' = QueueSet \cup {SendFunctor(sent + 1)}
      BY <2>1, <3>4 DEF QueueSet
    <3>6. Destroying' <=> Destroying
      BY <3>3, <3>5, DestroyingKept
    <3> QED BY <2>1, <3>6, ContractStill
  <2>4. CASE ~(sent < MaxSends)
    <3>1. ioPending' = ioPending
      BY <1>2, <2>2, <2>4 DEF UserQueue
    <3> QED BY <1>1, <2>1, <3>1
  <2> QED BY <2>3, <2>4
<1>3. ASSUME NEW t \in Users, UserSetState(t) PROVE FALSE
  BY <1>3 DEF UserSetState, Good, CallsInv
<1>4. ASSUME NEW t \in Users, (\E op \in UserOps : UserCheck(t, op)) \/ UserDrop(t) PROVE Contract'
  BY <1>1, <1>4 DEF UserCheck, UserDrop
<1>5. CASE Peer \/ Drain
  BY <1>1, <1>5 DEF Peer, Drain
<1>6. CASE Abort \/ UNCHANGED vars
  BY <1>1, <1>6 DEF Abort, vars
<1> QED BY <1>2, <1>3, <1>4, <1>5, <1>6 DEF User

\* The connection that newConnection() has made is on the contract's way.
LEMMA ContractStart == Init /\ Good => Contract
<1> SUFFICES ASSUME Init, Good PROVE Contract
  OBVIOUS
<1>1. /\ state = "kConnecting" /\ events = {} /\ label = "kNew" /\ ioPc = "events" /\ revents = {}
      /\ ioBatch = <<>> /\ baseQueue = <<>> /\ inMap /\ serverAlive /\ ~delayed
      /\ stack = IF sameLoop THEN <<"established">> ELSE <<>>
      /\ ioPending = IF sameLoop THEN <<>> ELSE <<Functor("established")>>
  BY DEF Init, NewConnection
<1>2. sameLoop \in BOOLEAN
  BY TcpConnectionAssumption DEF Good, LoopTyped
<1>3. ~Destroying
  <2>1. Functor("established").call = "established"
    BY FunctorTyped DEF Calls
  <2>2. \A f \in Elements(ioPending) : f.call = "established"
    <3>1. CASE sameLoop
      BY <1>1, <3>1 DEF Elements
    <3>2. CASE ~sameLoop
      <4>1. ioPending = <<Functor("established")>>
        BY <1>1, <3>2
      <4>2. Len(ioPending) = 1 /\ ioPending[1] = Functor("established")
        BY <4>1
      <4> QED BY <2>1, <4>2 DEF Elements
    <3> QED BY <1>2, <3>1, <3>2
  <2>3. Elements(ioBatch) = {}
    BY <1>1 DEF Elements
  <2> QED BY <2>2, <2>3 DEF Destroying, QueuedCalls
<1>4. StackShape /\ Closers = {} /\ (sameLoop => Top = "established") /\ (~sameLoop => Top = "none")
  <2>1. CASE sameLoop
    <3>1. /\ stack # <<>> /\ Len(stack) = 1 /\ stack[1] = "established" /\ Head(stack) = "established"
          /\ Tail(stack) = <<>>
      BY <1>1, <2>1
    <3> QED BY <2>1, <3>1 DEF StackShape, Top, Closers
  <2>2. CASE ~sameLoop
    BY <1>1, <2>2 DEF StackShape, Top, Closers
  <2> QED BY <2>1, <2>2
<1>5. ClosersInv /\ RoundInv
  BY <1>1, <1>4 DEF ClosersInv, RoundInv
<1>6. EarlyInv /\ OpenInv /\ ClosedInv /\ ServerInv
  BY <1>1, <1>3, <1>4 DEF EarlyInv, OpenInv, ClosedInv, ServerInv, MayClose
<1> QED BY <1>1, <1>4, <1>5, <1>6 DEF Contract

\* Every step of a contract application stays on the way.
LEMMA ContractStep == Good /\ ContractInv /\ [Next]_vars => ContractInv'
<1> SUFFICES ASSUME Good, ContractInv, [Next]_vars, usage' = "contract" PROVE Contract'
  BY DEF ContractInv
<1>1. usage = "contract"
  <2>1. usage' = usage
    BY DEF Next, IoLoop, Poll, Dispatch, Step, Swap, RunFunctor, EndBatch, LoopCall, LoopSend, LoopShutdown,
           LoopForceClose, LoopForceCloseWithDelay, LoopStartStopRead, DelayExpires, BaseRemove, ServerDtor,
           UserCheck, User, UserSetState, UserQueue, UserDrop, Peer, Drain, Abort, vars, config
  <2> QED BY <2>1
<1>2. Contract
  BY <1>1 DEF ContractInv
<1>3. CASE IoLoop
  BY <1>1, <1>2, <1>3, ContractRound, ContractCallback, ContractFunctor, Zenon DEF IoLoop
<1>4. CASE LoopCall \/ DelayExpires
  BY <1>1, <1>2, <1>4, ContractLoopCall, Zenon
<1>5. CASE BaseRemove \/ ServerDtor
  BY <1>1, <1>2, <1>5, ContractServer, Zenon
<1>6. CASE \/ \E t \in Users : (\E op \in UserOps : UserCheck(t, op)) \/ User(t) \/ UserDrop(t)
           \/ Peer \/ Drain \/ Abort \/ UNCHANGED vars
  BY <1>1, <1>2, <1>6, ContractOthers, Zenon
<1> QED BY <1>3, <1>4, <1>5, <1>6, Zenon DEF Next

\* The invariant of an application that only sends from other threads: the
\* connection goes from connectEstablished() to Channel::remove() one way.
THEOREM ContractHolds == Spec => [](TypeOK /\ ContractInv)
<1>1. Init => Good /\ ContractInv
  BY GoodInit, ContractStart DEF ContractInv
<1>2. Good /\ ContractInv /\ [Next]_vars => Good' /\ ContractInv'
  BY GoodStep, ContractStep
<1>3. Good => TypeOK
  BY GoodParts
<1> QED BY <1>1, <1>2, <1>3, PTL DEF Spec

\* No assertion of the code fails for an application that keeps the contract.
THEOREM ContractMeetsNoFailedAssertion == Spec => []ContractKeepsAssertions
<1>1. TypeOK /\ ContractInv => ContractKeepsAssertions
  <2> SUFFICES ASSUME TypeOK, ContractInv, usage = "contract" PROVE AssertionsHold
    BY DEF ContractKeepsAssertions
  <2>1. Contract /\ stack \in Seq(Frames) /\ state \in States
    BY DEF ContractInv, TypeOK
  <2>2. HandleCloseAssertion
    <3> SUFFICES ASSUME AboutToClose PROVE MayClose
      BY DEF HandleCloseAssertion
    <3>1. stack # <<>> /\ Head(stack) \in {"close", "read"}
      BY DEF AboutToClose
    <3>2. stack[1] = Head(stack) /\ Len(stack) \in Nat \ {0}
      BY <2>1, <3>1, TopOf
    <3>3. 1 \in Closers
      BY <3>1, <3>2 DEF Closers
    <3> QED BY <2>1, <3>3 DEF Contract, ClosersInv
  <2>3. DtorAssertion
    BY <2>1 DEF DtorAssertion, Referenced, Contract, EarlyInv, OpenInv, MayClose, States
  <2>4. ASSUME Top \in {"remove", "closeCallback"} \/ baseQueue # <<>> PROVE state = "kDisconnected"
    BY <2>1, <2>4 DEF Contract, EarlyInv, OpenInv, MayClose, States
  <2>5. RemoveAssertion
    BY <2>1, <2>4, TopOf DEF RemoveAssertion, Contract, ClosedInv
  <2>6. ServerMapAssertion
    BY <2>1, <2>4, TopOf DEF ServerMapAssertion, Contract, ClosedInv
  <2> QED BY <2>2, <2>3, <2>5, <2>6 DEF AssertionsHold
<1> QED BY <1>1, ContractHolds, PTL

\* The poller has forgotten the channel of a destroyed connection.
THEOREM DestroyedAlwaysRemoved == Spec => []DestroyedIsRemoved
<1>1. TypeOK /\ ContractInv => DestroyedIsRemoved
  <2> SUFFICES ASSUME TypeOK, ContractInv, usage = "contract", ~Referenced PROVE label = "kNew"
    BY DEF DestroyedIsRemoved
  <2>1. Contract /\ stack \in Seq(Frames) /\ state \in States
    BY DEF ContractInv, TypeOK
  <2>2. ~inMap /\ stack = <<>> /\ baseQueue = <<>> /\ ~Destroying
    BY DEF Referenced, Destroying, RawCalls
  <2>3. Top = "none" /\ state = "kDisconnected"
    BY <2>1, <2>2 DEF Top, Contract, EarlyInv, OpenInv, MayClose, States
  <2> QED BY <2>1, <2>2, <2>3 DEF Contract, ClosedInv
<1> QED BY <1>1, ContractHolds, PTL
=============================================================================
