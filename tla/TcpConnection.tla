--------------------------- MODULE TcpConnection ---------------------------
(***************************************************************************)
(* One TcpConnection of a TcpServer: its state machine, its channel, its   *)
(* output buffer and the socket, from newConnection() to the destruction   *)
(* of the object.                                                          *)
(*                                                                         *)
(* Three kinds of threads take part: the io loop that owns the connection, *)
(* the base loop that owns the server (the same thread when sameLoop) and  *)
(* user threads that hold a TcpConnectionPtr.  The io loop polls, runs the *)
(* callbacks of the channel, then a batch of functors (module EventLoop);  *)
(* the channel's label follows EpollPoller (module Poller).                *)
(***************************************************************************)
EXTENDS Naturals, Sequences

CONSTANTS
    SameLoops,      \* whether the io loop may be the server's base loop
    Usages,         \* how the application uses the connection, see `usage'
    Users,          \* the other threads
    MaxSends,       \* bound: messages sent
    MaxData,        \* bound: messages the peer sends
    MaxQueue,       \* bound: users and callbacks call while a loop's queue is shorter
    MaxSpace,       \* the size of the socket's send buffer
    HighWaterMark   \* _highWaterMark

ASSUME TcpConnectionAssumption ==
    /\ SameLoops \subseteq BOOLEAN
    /\ Usages \subseteq {"contract", "shutdown", "forceClose", "delay", "read", "server"}
    /\ {MaxSends, MaxData, MaxQueue, MaxSpace, HighWaterMark} \subseteq Nat

VARIABLES
    sameLoop,    \* the io loop is the server's base loop
    usage,       \* how the application uses the connection
    state,       \* _state
    reading,     \* _reading
    events,      \* _channel->_events
    label,       \* _channel->_label
    ioPc,        \* where the io loop is
    revents,     \* what the poll returned for the channel, not dispatched yet
    stack,       \* what is left of the callback the io loop is in
    inUser,      \* the io loop runs user code of this connection
    ioPending,   \* the io loop's _pendingFunctors
    ioBatch,     \* the functors it swapped out and has not run
    ioHeld,      \* a functor of this batch holds a TcpConnectionPtr
    baseQueue,   \* the base loop's functors
    inMap,       \* the server's _connections has the connection
    serverAlive, \* ~TcpServer() has not run
    out,         \* _outputBuffer, in units of the messages
    sent,        \* the number of messages given to send()
    accepted,    \* history: units sendInLoop() took responsibility for
    wire,        \* history: units written to the socket
    finSent,     \* kernel: shutdownWrite() was called
    rcv,         \* kernel: messages waiting in the receive buffer
    peerFin,     \* kernel: the peer closed its side
    rst,         \* kernel: the peer reset the connection
    sockErr,     \* kernel: the pending error of the socket
    space,       \* kernel: free units of the send buffer
    delayed,     \* a forceCloseWithDelay() timer is set
    call,        \* per user thread: the call it is in
    holds        \* the user threads that hold a TcpConnectionPtr

connVars == <<state, reading>>
chanVars == <<events, label>>
loopVars == <<ioPc, revents, ioBatch, ioHeld>>
frameVars == <<stack, inUser>>
serverVars == <<baseQueue, inMap, serverAlive>>
outVars == <<out, accepted, wire, finSent>>
peerVars == <<rcv, peerFin, rst, sockErr>>
userVars == <<call, holds>>
config == <<sameLoop, usage>>
vars == <<config, connVars, chanVars, loopVars, frameVars, ioPending, serverVars, outVars, sent,
          peerVars, space, delayed, userVars>>

States == {"kConnecting", "kConnected", "kDisconnecting", "kDisconnected"}
Frames == {"established", "close", "error", "read", "write", "closeCallback", "remove"}
Calls == {"established", "destroyed", "shutdown", "forceClose", "writeComplete", "highWater",
          "send", "startRead", "stopRead"}
ioFunctors == [call : Calls, msg : 0..MaxSends]

\* functors bound to the raw `this', the others hold a TcpConnectionPtr
RawCalls == {"send", "startRead", "stopRead"}

Idle == <<"none", "idle">>

\* What other threads and what callbacks on the io loop call.  An application
\* keeps the contract when other threads only send; the other usages add one
\* call that the code offers without a guard against its races.
UserOps ==
    CASE usage = "contract"   -> {"send"}
      [] usage = "shutdown"   -> {"shutdown"}
      [] usage = "forceClose" -> {"forceClose"}
      [] usage = "read"       -> {"startRead", "stopRead"}
      [] OTHER                -> {}
LoopOps ==
    CASE usage = "contract" -> {"send", "shutdown", "forceClose"}
      [] usage = "delay"    -> {"forceCloseWithDelay"}
      [] usage = "read"     -> {"startRead", "stopRead", "forceClose"}
      [] usage = "server"   -> {"shutdown"}
      [] OTHER              -> {}

\* ~TcpServer() may run while the connection exists: at any time, or with care
\* on the loop it shares with the connection and not during a shutdown()
ServerDies ==
    \/ usage = "server"
    \/ usage = "contract" /\ sameLoop /\ state # "kDisconnecting"

TypeOK ==
    /\ sameLoop \in SameLoops /\ usage \in Usages
    /\ state \in States
    /\ reading \in BOOLEAN
    /\ events \subseteq {"read", "write"}
    /\ label \in {"kNew", "kAdded", "kDeleted"}
    /\ ioPc \in {"poll", "events", "functors"}
    /\ revents \subseteq {"HUP", "ERR", "IN", "OUT"}
    /\ stack \in Seq(Frames)
    /\ inUser \in BOOLEAN
    /\ ioPending \in Seq(ioFunctors) /\ ioBatch \in Seq(ioFunctors)
    /\ ioHeld \in BOOLEAN
    /\ baseQueue \in Seq({"remove"})
    /\ inMap \in BOOLEAN /\ serverAlive \in BOOLEAN
    /\ out \in Seq(1..MaxSends) /\ accepted \in Seq(1..MaxSends) /\ wire \in Seq(1..MaxSends)
    /\ sent \in 0..MaxSends
    /\ finSent \in BOOLEAN
    /\ rcv \in 0..MaxData /\ {peerFin, rst, sockErr} \subseteq BOOLEAN
    /\ space \in 0..MaxSpace
    /\ delayed \in BOOLEAN
    /\ call \in [Users -> (UserOps \cup {"none"}) \X {"idle", "checked", "set"}]
    /\ holds \subseteq Users

Functor(c) == [call |-> c, msg |-> 0]
SendFunctor(m) == [call |-> "send", msg |-> m]

\* TcpServer::newConnection() has just built the connection
\* The constructor
NewConnection ==
    /\ state = "kConnecting" /\ reading = TRUE
    /\ events = {} /\ label = "kNew"
    /\ out = <<>>

\* TcpServer::newConnection() has made the connection, put it into the map and
\* given connectEstablished() to its loop
Init ==
    /\ sameLoop \in SameLoops /\ usage \in Usages
    /\ NewConnection
    /\ ioPc = "events" /\ revents = {}
    /\ stack = IF sameLoop THEN <<"established">> ELSE <<>>
    /\ inUser = FALSE
    /\ ioPending = IF sameLoop THEN <<>> ELSE <<Functor("established")>>
    /\ ioBatch = <<>> /\ ioHeld = FALSE
    /\ baseQueue = <<>>
    /\ inMap = TRUE /\ serverAlive = TRUE
    /\ accepted = <<>> /\ wire = <<>> /\ sent = 0
    /\ finSent = FALSE
    /\ rcv = 0 /\ peerFin = FALSE /\ rst = FALSE /\ sockErr = FALSE
    /\ space = MaxSpace
    /\ delayed = FALSE
    /\ call = [t \in Users |-> Idle]
    /\ holds = {}

Elements(s) == {s[i] : i \in 1..Len(s)}
Smaller(a, b) == IF a < b THEN a ELSE b
QueuedCalls == {f.call : f \in Elements(ioPending) \cup Elements(ioBatch)}

\* Somebody holds a TcpConnectionPtr; the object is destroyed when nobody does.
\* Channel::handleEvent() holds one through the tie while callbacks run.
Referenced ==
    \/ inMap
    \/ stack # <<>> \/ inUser
    \/ ioHeld
    \/ QueuedCalls \ RawCalls # {}
    \/ baseQueue # <<>>
    \/ holds # {}

-----------------------------------------------------------------------------
(* The channel                                                             *)

\* Channel::update() and EpollPoller::updateChannel()
SetEvents(ev) ==
    /\ events' = ev
    /\ label' = IF label = "kAdded" /\ ev = {} THEN "kDeleted" ELSE "kAdded"

\* what epoll reports: HUP and ERR even when not asked for
Ready ==
    (IF rst \/ (peerFin /\ finSent) THEN {"HUP"} ELSE {})
    \cup (IF sockErr THEN {"ERR"} ELSE {})
    \cup (IF "read" \in events /\ (rcv > 0 \/ peerFin \/ rst) THEN {"IN"} ELSE {})
    \cup (IF "write" \in events /\ (space > 0 \/ rst) THEN {"OUT"} ELSE {})

\* Channel::handleEventWithGuard(), in its order
CallbacksOf(rev) ==
    (IF "HUP" \in rev /\ "IN" \notin rev THEN <<"close">> ELSE <<>>)
    \o (IF "ERR" \in rev THEN <<"error">> ELSE <<>>)
    \o (IF "IN" \in rev THEN <<"read">> ELSE <<>>)
    \o (IF "OUT" \in rev THEN <<"write">> ELSE <<>>)

-----------------------------------------------------------------------------
(* TcpConnection, on the io loop.  `rest' is what the loop does afterwards. *)

\* The assertion at the head of handleClose(), the condition of forceCloseInLoop()
MayClose == state \in {"kConnected", "kDisconnecting"}

HandleCloseKeepingState(rest) ==
    /\ MayClose
    /\ SetEvents({})
    /\ stack' = <<"closeCallback">> \o rest
    /\ inUser' = TRUE
    /\ UNCHANGED <<state, reading>>

\* handleClose() up to the end of the connection callback
HandleClose(rest) ==
    /\ MayClose
    /\ state' = "kDisconnected"
    /\ SetEvents({})
    /\ stack' = <<"closeCallback">> \o rest
    /\ inUser' = TRUE
    /\ UNCHANGED reading

ShutdownNow ==
    /\ finSent' = TRUE
    /\ UNCHANGED <<out, accepted, wire>>

\* shutdownInLoop()
ShutdownInLoop ==
    /\ finSent' = (finSent \/ "write" \notin events)
    /\ UNCHANGED <<out, accepted, wire>>

\* the units of message m: the first message has two, the others have one
Message(m) == IF m = 1 THEN <<1, 1>> ELSE <<m>>

\* what is left of message m after a write of n units
Unsent(m, n) == SubSeq(Message(m), n + 1, Len(Message(m)))

SendsDirectlyAlways == TRUE

SendsDirectly == "write" \notin events /\ out = <<>>

\* sendInLoop(): write at once when nothing waits, buffer the rest.  EPIPE and
\* ECONNRESET drop the message, EWOULDBLOCK keeps it.
SendInLoop(m) ==
    LET fault == SendsDirectly /\ (rst \/ finSent)
        n == IF SendsDirectly /\ ~fault THEN Smaller(Len(Message(m)), space) ELSE 0
        rest == Unsent(m, n)
        crossing == Len(out) + Len(rest) >= HighWaterMark /\ Len(out) < HighWaterMark
    IN IF state = "kDisconnected"
         THEN UNCHANGED <<outVars, space, sockErr, chanVars, ioPending>>
         ELSE /\ accepted' = IF fault THEN accepted ELSE accepted \o Message(m)
              /\ wire' = wire \o SubSeq(Message(m), 1, n)
              /\ space' = space - n
              /\ out' = IF fault THEN out ELSE out \o rest
              /\ IF fault \/ rest = <<>> \/ "write" \in events THEN UNCHANGED chanVars
                 ELSE SetEvents(events \cup {"write"})
              /\ ioPending' =
                    ioPending \o (IF rest = <<>> THEN <<Functor("writeComplete")>>
                                  ELSE IF ~fault /\ crossing THEN <<Functor("highWater")>>
                                  ELSE <<>>)
              /\ sockErr' = (sockErr /\ ~fault)
              /\ UNCHANGED finSent

DrainedPartly(n) == n > 0

Drained(n) == n > 0 /\ n = Len(out)

ShutdownForgotten(done) == FALSE

ShutdownDue(done) == done /\ state = "kDisconnecting"

\* handleWrite(): the buffer drains; once empty, a shutdown() that waited for
\* it is carried out
HandleWrite ==
    LET n == IF "write" \in events /\ ~rst /\ ~finSent THEN Smaller(Len(out), space) ELSE 0
        done == Drained(n)
    IN /\ wire' = wire \o SubSeq(out, 1, n)
       /\ out' = SubSeq(out, n + 1, Len(out))
       /\ space' = space - n
       /\ IF done THEN SetEvents(events \ {"write"}) ELSE UNCHANGED chanVars
       /\ ioPending' = IF done THEN Append(ioPending, Functor("writeComplete")) ELSE ioPending
       /\ finSent' = (finSent \/ ShutdownDue(done))
       /\ sockErr' = (sockErr /\ "write" \notin events)
       /\ UNCHANGED accepted

StartReadInLoop ==
    /\ IF ~reading \/ "read" \notin events
         THEN SetEvents(events \cup {"read"}) /\ reading' = TRUE
         ELSE UNCHANGED <<chanVars, reading>>
    /\ UNCHANGED state

StopReadInLoop ==
    /\ IF reading \/ "read" \in events
         THEN SetEvents(events \ {"read"}) /\ reading' = FALSE
         ELSE UNCHANGED <<chanVars, reading>>
    /\ UNCHANGED state

\* connectEstablished(): the connection callback hands out TcpConnectionPtrs
ConnectEstablished(rest) ==
    /\ state = "kConnecting"
    /\ state' = "kConnected"
    /\ SetEvents({"read"})
    /\ holds' = Users
    /\ stack' = rest
    /\ inUser' = TRUE
    /\ UNCHANGED reading

ConnectDestroyedNoRemove(rest) ==
    /\ IF state = "kConnected"
         THEN state' = "kDisconnected" /\ SetEvents({}) /\ inUser' = TRUE
         ELSE UNCHANGED <<state, chanVars>> /\ inUser' = FALSE
    /\ stack' = rest
    /\ UNCHANGED reading

\* connectDestroyed() up to the removal of the channel
ConnectDestroyed(rest) ==
    /\ IF state = "kConnected"
         THEN state' = "kDisconnected" /\ SetEvents({}) /\ inUser' = TRUE
         ELSE UNCHANGED <<state, chanVars>> /\ inUser' = FALSE
    /\ stack' = <<"remove">> \o rest
    /\ UNCHANGED reading

RemoveConnectionKeepingEntry ==
    /\ inMap /\ serverAlive
    /\ ioPending' = Append(ioPending, Functor("destroyed"))
    /\ UNCHANGED <<inMap, serverAlive>>

\* TcpServer::removeConnectionInLoop(), with its assertion
RemoveConnectionInLoop ==
    /\ inMap /\ serverAlive
    /\ inMap' = FALSE
    /\ ioPending' = Append(ioPending, Functor("destroyed"))
    /\ UNCHANGED serverAlive

-----------------------------------------------------------------------------
(* The io loop                                                             *)

Poll ==
    /\ ioPc = "poll"
    /\ ioPc' = "events"
    /\ revents' = IF label = "kAdded" THEN Ready ELSE {}
    /\ UNCHANGED <<config, connVars, chanVars, ioBatch, ioHeld, frameVars, ioPending, serverVars,
                   outVars, sent, peerVars, space, delayed, userVars>>

\* Channel::handleEvent(): nothing happens when the tie cannot be locked
Dispatch ==
    /\ ioPc = "events" /\ stack = <<>> /\ revents # {}
    /\ stack' = IF Referenced THEN CallbacksOf(revents) ELSE <<>>
    /\ revents' = {}
    /\ inUser' = FALSE
    /\ UNCHANGED <<config, connVars, chanVars, ioPc, ioBatch, ioHeld, ioPending, serverVars,
                   outVars, sent, peerVars, space, delayed, userVars>>

\* the read callback: data, an error that is only logged and cleared, or the
\* end of the stream; EAGAIN is logged
HandleRead ==
    \/ /\ rcv > 0
       /\ rcv' = rcv - 1
       /\ stack' = Tail(stack) /\ inUser' = TRUE
       /\ UNCHANGED <<connVars, chanVars, sockErr>>
    \/ /\ rcv = 0 /\ (sockErr \/ ~(peerFin \/ rst))
       /\ sockErr' = FALSE
       /\ stack' = Tail(stack) /\ inUser' = FALSE
       /\ UNCHANGED <<connVars, chanVars, rcv>>
    \/ /\ rcv = 0 /\ ~sockErr /\ (peerFin \/ rst)
       /\ HandleClose(Tail(stack))
       /\ UNCHANGED <<rcv, sockErr>>

\* closeCallback(): TcpServer::removeConnection() calls the base loop
CloseCallback ==
    /\ stack' = Tail(stack) /\ inUser' = FALSE
    /\ IF sameLoop THEN RemoveConnectionInLoop /\ UNCHANGED baseQueue
       ELSE baseQueue' = Append(baseQueue, "remove") /\ UNCHANGED <<inMap, serverAlive, ioPending>>

\* the next part of the callback that is running
Step ==
    /\ stack # <<>>
    /\ \/ /\ Head(stack) = "established"
          /\ ConnectEstablished(Tail(stack))
          /\ UNCHANGED <<ioPending, serverVars, outVars, rcv, sockErr, space, call>>
       \/ /\ Head(stack) = "close"
          /\ HandleClose(Tail(stack))
          /\ UNCHANGED <<ioPending, serverVars, outVars, rcv, sockErr, space, userVars>>
       \/ /\ Head(stack) = "error"
          /\ sockErr' = FALSE                       \* getsockopt(SO_ERROR)
          /\ stack' = Tail(stack) /\ inUser' = FALSE
          /\ UNCHANGED <<connVars, chanVars, ioPending, serverVars, outVars, rcv, space,
                         userVars>>
       \/ /\ Head(stack) = "read"
          /\ HandleRead
          /\ UNCHANGED <<ioPending, serverVars, outVars, space, userVars>>
       \/ /\ Head(stack) = "write"
          /\ HandleWrite
          /\ stack' = Tail(stack) /\ inUser' = FALSE
          /\ UNCHANGED <<connVars, serverVars, rcv, userVars>>
       \/ /\ Head(stack) = "closeCallback"
          /\ CloseCallback
          /\ UNCHANGED <<connVars, chanVars, outVars, rcv, sockErr, space, userVars>>
       \/ /\ Head(stack) = "remove" /\ events = {}   \* Channel::remove()
          /\ label' = "kNew"
          /\ stack' = Tail(stack) /\ inUser' = FALSE
          /\ UNCHANGED <<connVars, events, ioPending, serverVars, outVars, rcv, sockErr, space,
                         userVars>>
    /\ UNCHANGED <<config, loopVars, sent, peerFin, rst, delayed>>

\* doPendingFunctors(), the swap
Swap ==
    /\ ioPc = "events" /\ stack = <<>> /\ revents = {}
    /\ ioPc' = "functors"
    /\ ioBatch' = ioPending /\ ioPending' = <<>>
    /\ inUser' = FALSE
    /\ UNCHANGED <<config, connVars, chanVars, revents, ioHeld, stack, serverVars, outVars, sent,
                   peerVars, space, delayed, userVars>>

\* doPendingFunctors(), one functor; what it holds is released with the batch
RunFunctor ==
    /\ ioPc = "functors" /\ stack = <<>> /\ ioBatch # <<>>
    /\ ioBatch' = Tail(ioBatch)
    /\ ioHeld' = (ioHeld \/ Head(ioBatch).call \notin RawCalls)
    /\ LET f == Head(ioBatch) IN
        \/ /\ f.call = "established" /\ ConnectEstablished(<<>>)
           /\ UNCHANGED <<ioPending, outVars, space, sockErr, call>>
        \/ /\ f.call = "destroyed" /\ ConnectDestroyed(<<>>)
           /\ UNCHANGED <<ioPending, outVars, space, sockErr, userVars>>
        \/ /\ f.call = "shutdown" /\ ShutdownInLoop /\ inUser' = FALSE
           /\ UNCHANGED <<connVars, chanVars, stack, ioPending, space, sockErr, userVars>>
        \/ /\ f.call = "forceClose"
           /\ IF MayClose THEN HandleClose(<<>>)
              ELSE inUser' = FALSE /\ UNCHANGED <<connVars, chanVars, stack>>
           /\ UNCHANGED <<ioPending, outVars, space, sockErr, userVars>>
        \/ /\ f.call \in {"writeComplete", "highWater"} /\ inUser' = TRUE
           /\ UNCHANGED <<connVars, chanVars, stack, ioPending, outVars, space, sockErr,
                          userVars>>
        \/ /\ f.call = "send" /\ Referenced /\ SendInLoop(f.msg) /\ inUser' = FALSE
           /\ UNCHANGED <<connVars, stack, userVars>>
        \/ /\ f.call \in {"startRead", "stopRead"} /\ Referenced /\ inUser' = FALSE
           /\ IF f.call = "startRead" THEN StartReadInLoop ELSE StopReadInLoop
           /\ UNCHANGED <<stack, ioPending, outVars, space, sockErr, userVars>>
    /\ UNCHANGED <<config, ioPc, revents, serverVars, sent, rcv, peerFin, rst, delayed>>

\* the end of doPendingFunctors()
EndBatch ==
    /\ ioPc = "functors" /\ stack = <<>> /\ ioBatch = <<>>
    /\ ioPc' = "poll"
    /\ ioHeld' = FALSE /\ inUser' = FALSE
    /\ UNCHANGED <<config, connVars, chanVars, revents, ioBatch, stack, ioPending, serverVars, outVars,
                   sent, peerVars, space, delayed, userVars>>

-----------------------------------------------------------------------------
(* Calls made on the io loop: from this connection's callbacks and from    *)
(* functors of the application                                             *)

OnLoop(op) ==
    /\ Referenced /\ op \in LoopOps
    /\ \/ inUser
       \/ ioPc = "functors" /\ stack = <<>>

\* send(): the check of _state, then sendInLoop() directly
LoopSend ==
    /\ OnLoop("send") /\ sent < MaxSends /\ state = "kConnected"
    /\ Len(ioPending) < MaxQueue
    /\ sent' = sent + 1
    /\ SendInLoop(sent + 1)
    /\ UNCHANGED <<config, connVars, loopVars, frameVars, serverVars, rcv, peerFin, rst, delayed,
                   userVars>>

LoopShutdown ==
    /\ OnLoop("shutdown") /\ state = "kConnected"
    /\ state' = "kDisconnecting"
    /\ ShutdownInLoop
    /\ UNCHANGED <<config, reading, chanVars, loopVars, frameVars, ioPending, serverVars, sent,
                   peerVars, space, delayed, userVars>>

LoopForceClose ==
    /\ OnLoop("forceClose")
    /\ HandleClose(stack)
    /\ UNCHANGED <<config, loopVars, ioPending, serverVars, outVars, sent, peerVars, space, delayed,
                   userVars>>

\* forceCloseWithDelay() and, when the timer runs in a later round, the weak
\* callback to forceClose(): the timerfd's channel is another active channel
LoopForceCloseWithDelay ==
    /\ OnLoop("forceCloseWithDelay") /\ MayClose /\ ~delayed
    /\ state' = "kDisconnecting"
    /\ delayed' = TRUE
    /\ UNCHANGED <<config, reading, chanVars, loopVars, frameVars, ioPending, serverVars, outVars,
                   sent, peerVars, space, userVars>>

DelayExpires ==
    /\ delayed /\ ioPc = "events" /\ stack = <<>> /\ ~inUser
    /\ delayed' = FALSE
    /\ IF Referenced /\ MayClose THEN HandleClose(<<>>)
       ELSE UNCHANGED <<connVars, chanVars, frameVars>>
    /\ UNCHANGED <<config, loopVars, ioPending, serverVars, outVars, sent, peerVars, space, userVars>>

LoopStartStopRead ==
    /\ \/ OnLoop("startRead") /\ StartReadInLoop
       \/ OnLoop("stopRead") /\ StopReadInLoop
    /\ UNCHANGED <<config, loopVars, frameVars, ioPending, serverVars, outVars, sent, peerVars, space,
                   delayed, userVars>>

-----------------------------------------------------------------------------
(* The base loop                                                           *)

BaseRemove ==
    /\ baseQueue # <<>>
    /\ baseQueue' = Tail(baseQueue)
    /\ RemoveConnectionInLoop
    /\ UNCHANGED <<config, connVars, chanVars, loopVars, frameVars, outVars, sent, peerVars, space,
                   delayed, userVars>>

\* ~TcpServer(): connectDestroyed() of every connection in the map; on the base
\* loop's own connections it is called directly, outside the callbacks
ServerDtor ==
    /\ ServerDies /\ serverAlive
    /\ serverAlive' = FALSE
    /\ inMap' = FALSE
    /\ IF sameLoop
         THEN /\ ioPc = "functors" /\ stack = <<>>
              /\ IF inMap THEN ConnectDestroyed(<<>>)
                 ELSE UNCHANGED <<connVars, chanVars, frameVars>>
              /\ UNCHANGED ioPending
         ELSE /\ ioPending' = IF inMap THEN Append(ioPending, Functor("destroyed")) ELSE ioPending
              /\ UNCHANGED <<connVars, chanVars, frameVars>>
    /\ UNCHANGED <<config, loopVars, baseQueue, outVars, sent, peerVars, space, delayed, userVars>>

-----------------------------------------------------------------------------
(* The user threads: the check of _state, the store to _state, the push    *)

Checks(op) ==
    CASE op = "send"       -> state = "kConnected" /\ sent < MaxSends
      [] op = "shutdown"   -> state = "kConnected"
      [] op = "forceClose" -> state \in {"kConnected", "kDisconnecting"}
      [] OTHER             -> TRUE

UserCheck(t, op) ==
    /\ t \in holds /\ call[t] = Idle
    /\ Checks(op) /\ Len(ioPending) < MaxQueue /\ Len(baseQueue) < MaxQueue
    /\ call' = [call EXCEPT ![t] = <<op, IF op \in {"shutdown", "forceClose"} THEN "checked" ELSE "set">>]
    /\ UNCHANGED <<config, connVars, chanVars, loopVars, frameVars, ioPending, serverVars, outVars,
                   sent, peerVars, space, delayed, holds>>

UserSetState(t) ==
    /\ call[t][2] = "checked"
    /\ state' = "kDisconnecting"
    /\ call' = [call EXCEPT ![t] = <<call[t][1], "set">>]
    /\ UNCHANGED <<config, reading, chanVars, loopVars, frameVars, ioPending, serverVars, outVars,
                   sent, peerVars, space, delayed, holds>>

UserQueue(t) ==
    /\ call[t][2] = "set"
    /\ IF call[t][1] = "send"
         THEN IF sent < MaxSends
                THEN /\ sent' = sent + 1
                     /\ ioPending' = Append(ioPending, SendFunctor(sent + 1))
                ELSE UNCHANGED <<sent, ioPending>>
         ELSE /\ ioPending' = Append(ioPending, Functor(call[t][1]))
              /\ UNCHANGED sent
    /\ call' = [call EXCEPT ![t] = Idle]
    /\ UNCHANGED <<config, connVars, chanVars, loopVars, frameVars, serverVars, outVars, peerVars,
                   space, delayed, holds>>

\* a careful thread keeps its pointer until what it queued has run
UserDrop(t) ==
    /\ t \in holds /\ call[t] = Idle
    /\ QueuedCalls \cap RawCalls = {}
    /\ holds' = holds \ {t}
    /\ UNCHANGED <<config, connVars, chanVars, loopVars, frameVars, ioPending, serverVars, outVars,
                   sent, peerVars, space, delayed, call>>

-----------------------------------------------------------------------------
(* The peer and the kernel                                                 *)

PeerOpen == ~peerFin /\ ~rst

Peer ==
    /\ \/ PeerOpen /\ rcv < MaxData /\ rcv' = rcv + 1 /\ UNCHANGED <<peerFin, rst, sockErr>>
       \/ PeerOpen /\ peerFin' = TRUE /\ UNCHANGED <<rcv, rst, sockErr>>
       \/ ~rst /\ rst' = TRUE /\ sockErr' = TRUE /\ UNCHANGED <<rcv, peerFin>>
    /\ UNCHANGED <<config, connVars, chanVars, loopVars, frameVars, ioPending, serverVars, outVars,
                   sent, space, delayed, userVars>>

\* the peer reads and the send buffer empties
Drain ==
    /\ space < MaxSpace
    /\ space' = MaxSpace
    /\ UNCHANGED <<config, connVars, chanVars, loopVars, frameVars, ioPending, serverVars, outVars,
                   sent, peerVars, delayed, userVars>>

-----------------------------------------------------------------------------
(* The assertions of the code                                              *)

\* The assertion of handleClose(): it runs at most once per connection.
AboutToClose ==
    /\ stack # <<>>
    /\ \/ Head(stack) = "close"
       \/ Head(stack) = "read" /\ rcv = 0 /\ ~sockErr /\ (peerFin \/ rst)
HandleCloseAssertion == AboutToClose => MayClose

\* The assertion of ~TcpConnection().
DtorAssertion == ~Referenced => state = "kDisconnected"

\* The assertion of Channel::remove(), called by connectDestroyed().
RemoveAssertion == stack # <<>> /\ Head(stack) = "remove" => events = {}

\* The assertion of removeConnectionInLoop(): the connection is in the map of
\* a server that still exists.
ServerMapAssertion ==
    (\/ baseQueue # <<>>
     \/ sameLoop /\ stack # <<>> /\ Head(stack) = "closeCallback") => inMap /\ serverAlive

AssertionsHold ==
    HandleCloseAssertion /\ DtorAssertion /\ RemoveAssertion /\ ServerMapAssertion

\* a failed assertion is the end of the process
Abort == ~AssertionsHold /\ UNCHANGED vars

-----------------------------------------------------------------------------
IoLoop == Poll \/ Dispatch \/ Step \/ Swap \/ RunFunctor \/ EndBatch

LoopCall ==
    LoopSend \/ LoopShutdown \/ LoopForceClose \/ LoopForceCloseWithDelay \/ LoopStartStopRead

User(t) == UserSetState(t) \/ UserQueue(t)

Next ==
    \/ IoLoop
    \/ LoopCall
    \/ DelayExpires
    \/ BaseRemove
    \/ ServerDtor
    \/ \E t \in Users : (\E op \in UserOps : UserCheck(t, op)) \/ User(t) \/ UserDrop(t)
    \/ Peer
    \/ Drain
    \/ Abort

\* The loops run what they were given, a user thread finishes the call it is
\* in and gives up its pointer, and the peer goes on reading.
Fairness ==
    /\ WF_vars(IoLoop)
    /\ WF_vars(BaseRemove)
    /\ \A t \in Users : WF_vars(User(t)) /\ WF_vars(UserDrop(t))
    /\ WF_vars(Drain)

Spec == Init /\ [][Next]_vars /\ Fairness

-----------------------------------------------------------------------------
(* Properties                                                              *)

\* The bytes on the wire followed by the output buffer are exactly what
\* sendInLoop() accepted, in that order: a partial write, a later send() and
\* the draining in handleWrite() neither lose nor reorder anything
\* (TcpConnection::sendInLoop, TcpConnection::handleWrite).
WireInOrder == wire \o out = accepted

\* shutdown() half-closes only after the output buffer is flushed
\* (TcpConnection::shutdownInLoop, TcpConnection::handleWrite).
FinAfterFlush == finSent => out = <<>>

\* A connection with unsent output is waiting for the socket to become
\* writable, as long as it is not closed (TcpConnection::sendInLoop).
OutputIsWatched == out # <<>> /\ state # "kDisconnected" => "write" \in events /\ label = "kAdded"

\* An application that keeps the contract meets no failed assertion:
\* handleClose() runs once, the connection is removed from a map that has it,
\* its channel is disabled before it is removed, and it is destroyed only when
\* closed (TcpConnection::handleClose, connectDestroyed, ~TcpConnection,
\* Channel::remove, TcpServer::removeConnectionInLoop).
ContractKeepsAssertions == usage = "contract" => AssertionsHold

\* The poller no longer knows the channel when the connection is destroyed, so
\* no poll returns a dangling channel (TcpConnection::connectDestroyed).
DestroyedIsRemoved == usage = "contract" /\ ~Referenced => label = "kNew"

\* A closed connection is removed from the server and destroyed
\* (TcpConnection::handleClose, TcpServer::removeConnection).
ClosedIsDestroyed == (usage = "contract" /\ state = "kDisconnected") ~> ~Referenced

\* shutdown() is carried out: the socket is half-closed or the connection is
\* closed (TcpConnection::shutdown, TcpConnection::handleWrite).
ShutdownCompletes ==
    (usage = "contract" /\ state = "kDisconnecting") ~> (finSent \/ state = "kDisconnected")
=============================================================================
