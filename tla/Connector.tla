----------------------------- MODULE Connector -----------------------------
(***************************************************************************)
(* A TcpClient and its Connector: connecting without blocking, retrying    *)
(* with a growing delay, stop() and the destruction of the client.         *)
(*                                                                         *)
(* The loop thread handles events (the channel of the attempt, timers) and *)
(* then a batch of functors, round after round (module EventLoop); one     *)
(* user thread calls start(), stop() and the destructor from outside.      *)
(* Time is counted in units of kInitRetryDelayMs.                          *)
(***************************************************************************)
EXTENDS Naturals, Sequences

CONSTANTS
    MaxDelay,      \* kMaxRetryDelayMs / kInitRetryDelayMs
    KeepAlive,     \* how long ~TcpClient() keeps the connector: 1 s
    Restarts,      \* start() may be called again after stop()
    OnLoops,       \* whether the client may be used on the loop thread only
    Deaths,        \* when the client may be destroyed, see `dies'
    MaxStarts,     \* bound: calls of start()
    MaxFailures    \* bound: attempts that fail

ASSUME ConnectorAssumption ==
    /\ {MaxDelay, KeepAlive} \subseteq Nat \ {0}
    /\ Restarts \in BOOLEAN /\ OnLoops \subseteq BOOLEAN
    /\ Deaths \subseteq {"never", "careful", "anytime"}
    /\ {MaxStarts, MaxFailures} \subseteq Nat

VARIABLES
    onLoop,      \* the client is used on the loop thread only
    dies,        \* the client is destroyed never, when no functor of its
                 \* connector is queued, or anytime
    connect,     \* Connector::_connect
    state,       \* Connector::_state
    channel,     \* _channel: none, watched by the poller, removed but not reset
    retryDelay,  \* _retryDelayMs
    retries,     \* the retry timers, each with the time that is left
    phase,       \* of the loop: "events" or "functors"
    pending,     \* the loop's _pendingFunctors that concern the client
    batch,       \* the part of them it is running
    handing,     \* handleWrite() is about to call newConnection()
    conn,        \* the client's connection; "orphan": its close callback is replaced
    clientAlive, \* ~TcpClient() has not run
    keep,        \* the timer that keeps the connector alive: time left, 0 when none
    call,        \* the call the user thread is in
    starts,      \* calls of start() so far
    failures,    \* failed attempts so far
    openFds,     \* sockets the connector has opened and not closed or handed over
    refused      \* connect() met an error that is not retried

loopVars == <<phase, pending, batch>>
attemptVars == <<state, channel, retryDelay, retries, failures, openFds, refused>>
clientVars == <<conn, clientAlive, keep>>
userVars == <<call, starts>>
config == <<onLoop, dies>>
vars == <<config, connect, attemptVars, loopVars, handing, clientVars, userVars>>

Functors == {"start", "stop", "reset", "setClose", "forceClose", "keep"}

TypeOK ==
    /\ onLoop \in OnLoops /\ dies \in Deaths
    /\ connect \in BOOLEAN
    /\ state \in {"kDisconnected", "kConnecting", "kConnected"}
    /\ channel \in {"none", "watched", "removed"}
    /\ retryDelay \in 1..MaxDelay
    /\ retries \in Seq(0..MaxDelay)
    /\ phase \in {"events", "functors"}
    /\ pending \in Seq(Functors) /\ batch \in Seq(Functors)
    /\ handing \in BOOLEAN
    /\ conn \in {"none", "up", "orphan", "closed"}
    /\ clientAlive \in BOOLEAN
    /\ keep \in 0..KeepAlive
    /\ call \in {"none", "start", "stop", "dtorStop", "dtorClose"}
    /\ starts \in 0..MaxStarts /\ failures \in 0..MaxFailures
    /\ openFds \in Nat
    /\ refused \in BOOLEAN

Init ==
    /\ onLoop \in OnLoops /\ dies \in Deaths
    /\ connect = FALSE
    /\ state = "kDisconnected"
    /\ channel = "none"
    /\ retryDelay = 1 /\ retries = <<>>
    /\ phase = "events" /\ pending = <<>> /\ batch = <<>>
    /\ handing = FALSE
    /\ conn = "none" /\ clientAlive = TRUE /\ keep = 0
    /\ call = "none" /\ starts = 0
    /\ failures = 0 /\ openFds = 0 /\ refused = FALSE

Smaller(a, b) == IF a < b THEN a ELSE b
Elements(s) == {s[i] : i \in 1..Len(s)}
Without(s, i) == SubSeq(s, 1, i - 1) \o SubSeq(s, i + 1, Len(s))

Queued == Elements(pending) \cup Elements(batch)

\* the functors bound to the raw Connector
RawCalls == {"start", "stop", "reset"}

\* The connector is owned by the client and by what ~TcpClient() queued.
ConnectorAlive == clientAlive \/ keep > 0 \/ "keep" \in Queued

-----------------------------------------------------------------------------
(* The attempts                                                            *)

NextDelay(d) == Smaller(d * 2, MaxDelay)

RetryKeepingFd(fds, left, wanted) ==
    /\ openFds' = fds
    /\ state' = "kDisconnected"
    /\ IF wanted
         THEN retries' = Append(left, retryDelay) /\ retryDelay' = NextDelay(retryDelay)
         ELSE retries' = left /\ UNCHANGED retryDelay

RetryNever(fds, left, wanted) ==
    /\ openFds' = fds - 1
    /\ state' = "kDisconnected"
    /\ retries' = left
    /\ UNCHANGED retryDelay

RetryKeepingState(fds, left, wanted) ==
    /\ openFds' = fds - 1
    /\ state' = state
    /\ IF wanted
         THEN retries' = Append(left, retryDelay) /\ retryDelay' = NextDelay(retryDelay)
         ELSE retries' = left /\ UNCHANGED retryDelay

\* retry(): close the socket and, if _connect still holds, try again later.
\* `fds' sockets are open before it and `left' are the retry timers.
Retry(fds, left, wanted) ==
    /\ openFds' = fds - 1
    /\ state' = "kDisconnected"
    /\ IF wanted
         THEN retries' = Append(left, retryDelay) /\ retryDelay' = NextDelay(retryDelay)
         ELSE retries' = left /\ UNCHANGED retryDelay

\* connect(): the attempt is under way, fails at once, or is given up
Connect(left) ==
    \/ /\ channel = "none"                          \* assert(!_channel)
       /\ state' = "kConnecting" /\ channel' = "watched"
       /\ openFds' = openFds + 1
       /\ retries' = left
       /\ UNCHANGED <<retryDelay, failures, refused>>
    \/ /\ failures < MaxFailures /\ failures' = failures + 1
       /\ Retry(openFds + 1, left, TRUE)
       /\ UNCHANGED <<channel, refused>>
    \/ /\ failures < MaxFailures /\ failures' = failures + 1
       /\ refused' = TRUE
       /\ retries' = left
       /\ UNCHANGED <<state, channel, retryDelay, openFds>>

\* startInLoop(), with its assertion; `wanted' is the value of _connect
StartInLoop(left, wanted) ==
    /\ state = "kDisconnected"
    /\ IF wanted THEN Connect(left)
       ELSE retries' = left /\ UNCHANGED <<state, channel, retryDelay, failures, openFds, refused>>

RemoveAndKeepChannel ==
    /\ channel' = "removed"
    /\ UNCHANGED pending

\* removeAndResetChannel(): the reset is queued
RemoveAndResetChannel ==
    /\ channel' = "removed"
    /\ pending' = Append(pending, "reset")

StopInLoop ==
    IF state = "kConnecting"
      THEN RemoveAndResetChannel /\ Retry(openFds, retries, connect)
      ELSE UNCHANGED <<state, channel, retryDelay, retries, openFds, pending>>

-----------------------------------------------------------------------------
(* The loop: events                                                        *)

InEvents == phase = "events" /\ ~handing

\* The attempt failed (or connected to itself): handleError(), or the error
\* branches of handleWrite()
HandleError ==
    /\ InEvents /\ channel = "watched" /\ state = "kConnecting"
    /\ failures < MaxFailures /\ failures' = failures + 1
    /\ RemoveAndResetChannel
    /\ Retry(openFds, retries, connect)
    /\ UNCHANGED <<config, connect, refused, phase, batch, handing, clientVars, userVars>>

\* handleWrite() on a socket that is connected, up to the callback
HandleWrite ==
    /\ InEvents /\ channel = "watched" /\ state = "kConnecting"
    /\ RemoveAndResetChannel
    /\ state' = "kConnected"
    /\ handing' = connect
    /\ openFds' = IF connect THEN openFds ELSE openFds - 1
    /\ UNCHANGED <<config, connect, retryDelay, retries, failures, refused, phase, batch, clientVars,
                   userVars>>

\* TcpClient::newConnection(): the connection takes over the socket
NewConnection ==
    /\ handing /\ clientAlive
    /\ handing' = FALSE
    /\ conn' = "up"
    /\ openFds' = openFds - 1
    /\ UNCHANGED <<config, connect, state, channel, retryDelay, retries, failures, refused, loopVars,
                   clientAlive, keep, userVars>>

\* The connection is closed: TcpClient::removeConnection(), or the function
\* that ~TcpClient() put in its place
CloseConnection ==
    /\ InEvents
    /\ conn = "orphan" \/ (conn = "up" /\ clientAlive)
    /\ conn' = "closed"
    /\ UNCHANGED <<config, connect, attemptVars, loopVars, handing, clientAlive, keep, userVars>>

\* A retry timer runs startInLoop()
RetryTimer ==
    /\ InEvents /\ ConnectorAlive
    /\ \E i \in DOMAIN retries :
        /\ retries[i] = 0
        /\ StartInLoop(Without(retries, i), connect)
    /\ UNCHANGED <<config, connect, loopVars, handing, clientVars, userVars>>

\* Time passes: a unit is long enough for a round of the loop, so the timers
\* that are due and the queued functors run first
Tick ==
    /\ retries # <<>> \/ keep > 0
    /\ InEvents /\ pending = <<>>
    /\ \A i \in DOMAIN retries : retries[i] > 0
    /\ retries' = [i \in DOMAIN retries |-> retries[i] - 1]
    /\ keep' = IF keep > 0 THEN keep - 1 ELSE keep
    /\ UNCHANGED <<config, connect, state, channel, retryDelay, failures, openFds, refused, loopVars,
                   handing, conn, clientAlive, userVars>>

-----------------------------------------------------------------------------
(* The loop: functors                                                      *)

Swap ==
    /\ InEvents /\ pending # <<>>
    /\ phase' = "functors"
    /\ batch' = pending /\ pending' = <<>>
    /\ UNCHANGED <<config, connect, attemptVars, handing, clientVars, userVars>>

RunFunctor ==
    /\ phase = "functors" /\ batch # <<>>
    /\ batch' = Tail(batch)
    /\ LET f == Head(batch) IN
        \/ /\ f = "start" /\ ConnectorAlive
           /\ StartInLoop(retries, connect)
           /\ UNCHANGED <<pending, conn, keep>>
        \/ /\ f = "stop" /\ ConnectorAlive
           /\ StopInLoop
           /\ UNCHANGED <<failures, refused, conn, keep>>
        \/ /\ f = "reset" /\ ConnectorAlive
           /\ channel' = "none"
           /\ UNCHANGED <<state, retryDelay, retries, failures, openFds, refused, pending, conn,
                          keep>>
        \/ /\ f = "setClose"
           /\ conn' = IF conn = "up" THEN "orphan" ELSE conn
           /\ UNCHANGED <<attemptVars, pending, keep>>
        \/ /\ f = "forceClose"
           /\ conn' = "closed"
           /\ UNCHANGED <<attemptVars, pending, keep>>
        \/ /\ f = "keep"
           /\ keep' = KeepAlive
           /\ UNCHANGED <<attemptVars, pending, conn>>
    /\ UNCHANGED <<config, connect, phase, handing, clientAlive, userVars>>

EndBatch ==
    /\ phase = "functors" /\ batch = <<>>
    /\ phase' = "events"
    /\ UNCHANGED <<config, connect, attemptVars, pending, batch, handing, clientVars, userVars>>

-----------------------------------------------------------------------------
(* Calls on the loop thread                                                *)

MayStart == clientAlive /\ starts < MaxStarts /\ ~connect /\ (Restarts \/ starts = 0)
MayStop == clientAlive /\ connect
MayDie ==
    /\ clientAlive
    /\ \/ dies = "careful" /\ Queued \cap RawCalls = {}
       \/ dies = "anytime"

\* TcpClient::connect(), Connector::start()
LoopStart ==
    /\ onLoop /\ MayStart /\ ~handing
    /\ connect' = TRUE /\ starts' = starts + 1
    /\ StartInLoop(retries, TRUE)
    /\ UNCHANGED <<config, loopVars, handing, clientVars, call>>

\* TcpClient::stop(), Connector::stop()
LoopStop ==
    /\ onLoop /\ MayStop /\ ~handing
    /\ connect' = FALSE
    /\ pending' = Append(pending, "stop")
    /\ UNCHANGED <<config, attemptVars, phase, batch, handing, clientVars, userVars>>

LoopDtorNoKeep ==
    /\ onLoop /\ MayDie /\ ~handing
    /\ clientAlive' = FALSE
    /\ IF conn = "up"
         THEN conn' \in {"orphan", "closed"} /\ UNCHANGED <<connect, pending, keep>>
         ELSE /\ connect' = FALSE
              /\ pending' = Append(pending, "stop")
              /\ UNCHANGED <<conn, keep>>
    /\ UNCHANGED <<config, attemptVars, phase, batch, handing, userVars>>

\* ~TcpClient(): without a connection the connector is stopped and kept for a
\* while; otherwise it dies with the client, and the connection is closed at
\* once unless the application shares it
LoopDtor ==
    /\ onLoop /\ MayDie /\ ~handing
    /\ clientAlive' = FALSE
    /\ IF conn = "up"
         THEN conn' \in {"orphan", "closed"} /\ UNCHANGED <<connect, pending, keep>>
         ELSE /\ connect' = FALSE
              /\ pending' = Append(pending, "stop")
              /\ keep' = KeepAlive
              /\ UNCHANGED conn
    /\ UNCHANGED <<config, attemptVars, phase, batch, handing, userVars>>

-----------------------------------------------------------------------------
(* Calls on another thread: the store to _connect, then the functor        *)

UserCall ==
    /\ ~onLoop /\ call = "none"
    /\ \/ /\ MayStart
          /\ connect' = TRUE /\ starts' = starts + 1
          /\ call' = "start"
       \/ /\ MayStop
          /\ connect' = FALSE
          /\ call' = "stop"
          /\ UNCHANGED starts
       \/ /\ MayDie
          /\ call' = IF conn = "up" THEN "dtorClose" ELSE "dtorStop"
          /\ UNCHANGED <<connect, starts>>
    /\ UNCHANGED <<config, attemptVars, loopVars, handing, clientVars>>

UserQueue ==
    /\ call # "none"
    /\ call' = "none"
    /\ \/ /\ call \in {"start", "stop"}
          /\ pending' = Append(pending, call)
          /\ UNCHANGED <<connect, clientAlive>>
       \/ /\ call = "dtorStop"
          /\ connect' = FALSE
          /\ pending' = pending \o <<"stop", "keep">>
          /\ clientAlive' = FALSE
       \/ /\ call = "dtorClose"
          /\ \E close \in {<<>>, <<"forceClose">>} : pending' = pending \o <<"setClose">> \o close
          /\ clientAlive' = FALSE
          /\ UNCHANGED connect
    /\ UNCHANGED <<config, attemptVars, phase, batch, handing, conn, keep, starts>>

-----------------------------------------------------------------------------
(* The assertions of the code, and what must not dangle                    *)

\* startInLoop() may run now
AboutToStart ==
    \/ phase = "functors" /\ batch # <<>> /\ Head(batch) = "start"
    \/ InEvents /\ \E i \in DOMAIN retries : retries[i] = 0

\* The assertion of startInLoop(): no attempt and no connection is under way.
StartAssertion == AboutToStart => state = "kDisconnected"

\* The assertion of connecting(): the channel of the last attempt was reset.
ConnectingAssertion == AboutToStart /\ connect /\ state = "kDisconnected" => channel = "none"

\* The assertion of ~Connector(): its channel was reset.
DtorAssertion == ~ConnectorAlive => channel = "none"

\* A functor, a timer or a callback bound to the raw Connector or TcpClient is
\* about to run after the object was destroyed.
UsedAfterFree ==
    \/ ~ConnectorAlive /\ phase = "functors" /\ batch # <<>> /\ Head(batch) \in RawCalls
    \/ ~ConnectorAlive /\ InEvents /\ \E i \in DOMAIN retries : retries[i] = 0
    \/ ~ConnectorAlive /\ channel = "watched"
    \/ ~clientAlive /\ handing

\* The process ends on a failed assertion or on such a use.
Abort ==
    /\ ~(StartAssertion /\ ConnectingAssertion /\ DtorAssertion) \/ UsedAfterFree
    /\ UNCHANGED vars

-----------------------------------------------------------------------------
LoopStep ==
    \/ HandleError \/ HandleWrite \/ NewConnection \/ RetryTimer
    \/ Swap \/ RunFunctor \/ EndBatch

\* nothing is left to do for the connector
Quiet == InEvents /\ pending = <<>> /\ retries = <<>> /\ keep = 0 /\ channel # "watched"
         /\ UNCHANGED vars

Next ==
    \/ LoopStep
    \/ CloseConnection
    \/ Tick
    \/ LoopStart \/ LoopStop \/ LoopDtor
    \/ UserCall \/ UserQueue
    \/ Quiet
    \/ Abort

\* The loop runs, time passes, the kernel decides every attempt, and the user
\* thread finishes the call it is in.
Fairness ==
    /\ WF_vars(LoopStep)
    /\ WF_vars(Tick)
    /\ WF_vars(UserQueue)

Spec == Init /\ [][Next]_vars /\ Fairness

-----------------------------------------------------------------------------
(* Properties                                                              *)

\* An application keeps the contract when it starts the client once and either
\* never destroys it or uses and destroys it on the loop thread with care.
Contract == ~Restarts /\ (dies = "never" \/ (onLoop /\ dies = "careful"))

\* An application that keeps the contract meets no failed assertion: attempts
\* never overlap, also when retries, stop() and the reset of the channel
\* interleave (Connector::startInLoop, connecting, ~Connector).
ContractKeepsAssertions ==
    Contract => StartAssertion /\ ConnectingAssertion /\ DtorAssertion

\* Every socket the connector opens is closed or handed over exactly once: it
\* has one exactly while the channel watches it or newConnection() is about to
\* be called, and then no retry is planned (Connector::connect, retry,
\* handleWrite, stopInLoop).
OneAttempt ==
    /\ openFds = (IF channel = "watched" \/ handing THEN 1 ELSE 0)
    /\ ~Restarts => Len(retries) + openFds <= 1

\* For an application that keeps the contract, the functors bound to the raw
\* Connector never outlive it, the callbacks bound to the raw TcpClient find
\* it alive, and the one thing that may outlive the connector is a retry timer
\* that was planned when failures had already doubled the delay to as long as
\* ~TcpClient() keeps the connector (in the code from the second failure on:
\* 1 s against a delay of up to 30 s), or to its maximum
\* (TcpClient::~TcpClient, Connector::retry, removeAndResetChannel).
OnlyLongRetriesDangle ==
    Contract =>
        /\ Queued \cap RawCalls # {} => ConnectorAlive
        /\ handing \/ conn = "up" => clientAlive
        /\ retries # <<>> /\ ~ConnectorAlive => retryDelay > KeepAlive \/ retryDelay = MaxDelay

\* start() leads to a connection, unless stop() is called or connect() meets an
\* error that is not retried (Connector::retry).
StartConnects ==
    (Contract /\ connect) ~> (conn # "none" \/ ~connect \/ refused)

\* After stop() nothing of an attempt is left: no channel, no retry timer, no
\* socket (Connector::stopInLoop, Connector::startInLoop).
StopReleases ==
    (dies = "never" /\ starts > 0 /\ ~connect)
        ~> (connect \/ (channel = "none" /\ retries = <<>> /\ openFds = 0))
=============================================================================
