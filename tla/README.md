# Verification of IdealServer

TLA+ modules that model IdealServer: the network core (`src/ideal/net`), the media
server (`src/ideal/media`), the threads, queues, log and time conversions of
`src/ideal/base`, and the HTTP and media examples; the TLC configurations that check them on
small instances; and TLAPS proofs for instances of any size. `PROJECT.json` lists
the components, the runs, the mutant of every property, the source lines of every
definition, the findings, the hazards and the theorems.

## The system

IdealServer is a reactor library: one `EventLoop` per thread, objects that belong
to one loop, and functors queued to a loop by everyone else.

| Component | State it keeps | Operations | What makes it correct |
|---|---|---|---|
| EventLoop | `_quit`, `_pendingFunctors` (mutex), the eventfd, `_activeChannels` | loop, quit, runInLoop, queueInLoop, wakeup | functors run once and in order; no lost wakeup; quit ends the loop |
| EpollPoller, Channel | fd map, label and interest per channel, epoll's registrations | updateChannel, removeChannel, poll, ctor, dtor | map, labels and kernel agree; no dangling channel is dispatched |
| TimerQueue, Timer | two ordered sets, the timers being cancelled, the timerfd | addTimer, cancel, handleRead, reset | the sets agree; one owner per Timer; a cancelled timer stays out; the timerfd covers the earliest |
| TcpConnection | `_state`, `_reading`, channel, output buffer | send, shutdown, forceClose, startRead, stopRead, event handlers | the stream keeps its order; FIN after flush; closed once, destroyed once |
| TcpServer, Acceptor | the connection map, the spare descriptor | newConnection, removeConnection, dtor; accept | every closed connection leaves the map and is destroyed on its loop |
| EventLoopThread(Pool), Thread | `_loop` (mutex), `_next` | startLoop, threadFunc, dtor, getNextLoop | round robin; a destructor that is safe and returns |
| Connector, TcpClient | `_connect`, `_state`, `_channel`, `_retryDelayMs` | start, stop, the attempt's events, dtor | one attempt at a time; no leaked socket; only a long retry timer outlives its object |
| ThreadPool, blocking queues | task queue, two condition variables | run, take, stop | tasks run once; nobody waits for ever |
| Buffer | two indices over a vector | append, retrieve, prepend, makeSpace, readFd | what is read is what was appended |
| RtspServer, RtspConnection, MediaSession | session and client maps, the parser's state | RTSP requests, close, publish and remove a session | one answer per request in order; no request order of an orderly client fails |
| RtpConnection, H264Source | per-channel transport, sequence numbers, descriptors | set-up, play, teardown, sending | descriptors owned once; packets in order; frames survive the cutting; every frame is sent to each player |
| HTTP example | an HttpContext per connection | onMessage, onRequest | the answers are those of the requests, however they are cut |
| Logger, LogFile, LogStream | the date cached per thread, the current file, its period and counts | a log line, append, rollFile, flush | a file keeps its limits; a fatal line and all before it are on disk before the process ends; a line shows its time |
| Date, TimeZone | transition tables | conversions | they are exact |

How they interact: a loop calls `Channel::handleEvent` for what `EpollPoller::poll`
returned, the channel calls its owner (the wakeup handler, `TimerQueue`, `Acceptor`,
`Connector`, `TcpConnection`), and then the loop runs the queued functors. Other
threads only push functors and write the eventfd, but `TcpConnection`, `Connector`
and `EventLoopThread` also read and write some of their fields directly from the
calling thread. `TcpServer` lives on the base loop and its connections on the loops
of the pool, so the end of a connection crosses two queues. The media server runs on
one loop; the thread that reads the file holds references to its objects and queues
packets to it. Every thread writes the one log.

What is hard here: the race between a push and the poll; state checked on one
thread and stored after another thread changed it; objects (Channel, Timer,
TcpConnection, Connector) referred to by raw pointers in the kernel, in timers and
in queued functors; cancellation from inside a batch; a wall clock that is set back
under a monotonic timer; several events of one socket in one round; descriptors that
are closed by number and given to somebody else; requests cut at any byte; a last
reference dropped on whichever thread.

## The modules

| Module | Models | Kind |
|---|---|---|
| `EventLoop` | `EventLoop.cc` | component, proved about |
| `Poller` | `EpollPoller.cc`, `Channel.cc`, the event loop over `_activeChannels` | component, proved about |
| `<Module>Proofs` | | TLAPS proofs about each module that is "proved about" (`EventLoopProofs` has those of `EventLoopThreadPool` too) |
| `TimerQueue` | `TimerQueue.cc`, `Timer.h` | component, proved about |
| `TcpConnection` | `TcpConnection.cc` with its channel, io loop, server and peer | composition, proved about |
| `EventLoopThreadPool` | `EventLoopThread.cc`, `EventLoopThreadPool.cc`, `Thread.cc` | component, proved about |
| `Connector` | `Connector.cc`, `TcpClient.cc` with their loop | composition, proved about |
| `RtspMessage` | `RtspMessage.cc`: the request parser | operators |
| `H264` | `H264Source.cc`, the `H264File` of the media example | operators on bytes, with references |
| `RtspServer` | `Acceptor.cc`, `RtspServer.cc`, `RtspConnection.cc`, `MediaSession.cc`, `RtpConnection.cc` and the sender thread of the example | composition, proved about |
| `MCRtspServer` | | the file and the clients' scripts |
| `Buffer` | `Buffer.h`, `Buffer.cc` | operators |
| `ByteQueue` | what a Buffer promises | abstract specification |
| `HttpServer` | the HTTP example on a connection's input buffer, and any owner of a Buffer | composition, implements `ByteQueue`, proved about |
| `MCHttpServer` | | the clients' scripts |
| `WorkQueue` | the containers of `ThreadPool`, `BlockingQueue.h`, `BoundedBlockingQueue.h`; `RingBuffer.h` | operators |
| `TimeZone` | `Date.cc`, `TimeZone.cc` | operators, with references |
| `LogStream` | `LogStream.cc`: numbers and the fixed buffer | operators, with references |
| `ThreadPool` | `ThreadPool.cc`, the two queues, `Thread.cc`, `Logger.cc`, `LogFile.cc` | composition, proved about |
| `MCThreadPool` | | scripts, clock, zone, and the inputs of the conversions |

**EventLoop.** `pc` is the place of the loop thread in `loop()`. `queueInLoop()` and
`quit()` are two steps each (the push or the store, then the eventfd write), kept per
thread in `op`, so that everything can happen between them. `queued` and `ran` are
histories. `early` remembers functors that the loop thread queued outside `loop()`:
the code does not wake the loop for those (`EventLoop.cc:127`), and they wait for the
next event or the poll timeout.

**Poller.** `events`, `label` and `added` are the channel's fields, `channels` the
poller's map, `epoll` the kernel's registrations. `epoll_ctl` fails on an ADD of a
registered and on a MOD or DEL of an unregistered descriptor; `ctlOk` records the last
result. The code's assertions about what an owner may do (disable before remove, no
removal of another active channel, remove before destruction) are guards; that the
poller's own assertions then hold is what the invariants say.

**TimerQueue.** Timer objects live at addresses that are reused, because the code keys
its sets by address and sequence number. The timerfd counts on a monotonic clock, the
expirations on the wall clock `now`, which may be set back. A callback is a place where
any `AddTimer` and `Cancel` may happen. `ReturnId` is the read of
`timer->sequence()` after the functor was queued (`TimerQueue.cc:105`): when the timer is
already deleted, any value is returned.

**TcpConnection.** The io loop is explicit: `Poll`, `Dispatch` (the order of the
callbacks of `Channel::handleEventWithGuard`), `Step` (the next part of the running
callback, the connection callback and the close callback being separate parts),
`Swap`, `RunFunctor`, `EndBatch`. `Referenced` says whether somebody holds a
`TcpConnectionPtr`. A message is a sequence of units, so that a write can be partial. `usage` is
chosen in the initial state:

| `usage` | calls |
|---|---|
| contract | other threads send; callbacks and functors on the loop send, shut down and close; a server on the same loop may be destroyed outside a shutdown |
| shutdown, forceClose | another thread calls it |
| delay | `forceCloseWithDelay()` on the loop |
| read | `startRead()`, `stopRead()` from everywhere |
| server | `~TcpServer()` at any time |

Only `contract` sends data. The assertions and the liveness properties are claimed for
`contract`; the other usages run the handlers that the code leaves open to races, and a
failed assertion there ends the behaviour (`Abort`). One of these failures has a run of its own.

**EventLoopThreadPool.** The owner starts the threads one by one and destroys them one
by one (`owner`, at thread `cur`); `~EventLoopThread()` is split at its two unlocked reads of
`_loop`. `thr` is the place of each thread, `loop` its `_loop`, `loopQuit` the `_quit` of its
EventLoop. `Careful` states when the owner destroys the pool. The specification is `PoolSpec`.

**Connector.** The loop alternates between events and functors; the user thread's calls
are a store to `_connect` followed by the push. Time is counted in initial retry
delays. `onLoop` and `dies` are chosen in the initial state: whether the client is used
on its loop thread only, and whether it is destroyed never, when no functor of its
connector is queued, or at any time. `handleWrite()` and `newConnection()` are two
steps, since another thread may destroy the client in between.
`Connector::restart()` is unreachable: `TcpClient::_retry` is never set.

**RtspServer.** The loop takes one event at a time (an accept, a segment, a close, the
timer of TEARDOWN) and then runs a batch of functors. `owner` is the table of
descriptors: the kernel hands out the lowest free one, and `~RtpConnection()`,
`~Socket()` and the acceptor close by number. The sender thread goes through
`PushFrame`, `Collect` (the send callback under `_clientMutex`), `SendRtpPacket` (one per
client) and `DropReferences`; an `RtpConnection` dies when neither its `RtspConnection`
nor the sender holds it, on the thread that lets go last. A request is a sequence of
symbols (`RtspMessage`), so that a segment may end between any two of them; the header
that the parser looks for is a place in that text (`Headers`). A script fixes the requests that
each client sends and where their text is cut (`ScriptAssumption`); when a part arrives is open.
`SentWhole` says that what a client has sent so far was `Complete` and came in one piece. `fault` names the assertion or
the dead object that ends a behaviour: `null_rtp` (PLAY or TEARDOWN before DESCRIBE),
`use_after_free` (a queued packet of a destroyed `RtpConnection`), `epoll_assert` (a
descriptor the poller still knows) and `retrieve_assert` (an interleaved packet that has
not arrived in full). The frames are those that `H264!ReadFrame` cuts out of a file of bytes,
and their packets those of `H264!Packetise`. A packet in `recv` has the port it came to: `interleaved` in the
RTSP connection, or over UDP the one of the client's two ports that `peer`, the `_peerRtpAddr` of the channel,
holds. `setupRtpOverUdp()` puts the RTCP port there.

**Buffer, HttpServer.** A buffer is its vector and its two indices; bytes outside the
content are all written `Dead`, so that handing one out is seen. `app = "any"` calls the
operations in any order that respects their assertions; `app = "http"` is
`TcpConnection::handleRead()` and the message callback of the HTTP example: `ParseRequest` is
a pass of the loop of `parseRequest()` after which it goes on (`ParseLine`), `OnMessage` the last
pass with the rest of `onMessage()`. `Queue == INSTANCE ByteQueue WITH q <- Content(buf)`
is the refinement.

**ThreadPool.** `kind` says which class hands the work on. A critical section is one
step; a thread whose predicate is false is in `sleepers` until a `notify_all`, or wakes
for no reason. A task of the pool logs a line in two steps: `Format` (the constructor of
Logger, with the thread's cached date) and `Output` (LogFile under its mutex). A fatal line adds two:
`Flush`, which takes and releases the mutex, and `Abort`, which flushes nothing; another thread may append
in between. With no threads the producer runs the task itself.

## The runs

| Run | Shows |
|---|---|
| `event_loop` | order, wakeups, liveness of functors and of quit, with two other threads, two functors, one user channel |
| `poller` | agreement of labels, map and kernel; no dangling active channel; three channels on two descriptors, so a descriptor is reused by another channel |
| `timer_queue` | the set, ownership, cancellation and timerfd invariants; a due timer runs; two addresses, two timers ever, one clock step back |
| `tcp_connection` | stream order, FIN after flush, the contract's assertions, destruction, liveness of close and shutdown |
| `thread_pool` | round robin, a safe destructor that returns, with a careful owner and three threads |
| `connector` | no overlapping attempts, no leaked socket, nothing dangling under the contract but a long retry timer, start connects, stop releases |
| `rtsp_server` | one owner per descriptor, packets and answers in order, no gap in the sequence numbers, orderly clients meet no null RtpConnection, no short buffer and, over UDP, no descriptor the poller still knows, a lossless path from the file to the packets, every frame is sent to each player (over UDP to its RTCP port) |
| `http_server` | a Buffer is a queue of bytes (refinement); the answers are those of the requests, however the stream is cut |
| `work_and_log` | FIFO queues, nobody waits for ever, the limits of the log file, lines that tell the time, exact conversions |
| `shutdown_race` | violation: `assert(_state == kDisconnected)` in `~TcpConnection()` |
| `lost_quit` | violation: a pool destroyed right after `start()` never returns |
| `rtp_port` | violation: RTP packets over UDP come to the port that the client named for RTCP |

The type invariants of the modules that have one are for the proofs; a run takes one up by adding `TypeOK`
to its configuration.

**Bounds.** Each is a CONSTANT, named `Max...`, and only limits the environment.
`MaxEventfd = 2` reaches the full counter with three writers. Poller's
`InitEventList = 1` makes the event list full at once. `TimerQueue` creates at most
`MaxSeq = 2` timers, enough for two in one batch, a cancel between them and an address
that is used twice; `MaxPending = 2` has an add and a cancel in the queue together.
`TcpConnection` sends a message of two units and one of one unit through a send buffer of
one unit: a message is cut in the middle, buffered behind another one or written whole, the
buffer drains in parts, and the high water mark of two is crossed. `Connector` fails four
times, which passes the cap of the delay (`MaxDelay = 4`) and the keep-alive
(`KeepAlive = 2`). The two delays keep their order (the code has 0.5 s, 1 s and 30 s).

`RtspServer` accepts two connections with six descriptors: one is the spare one, so that the
second connection meets EMFILE when the first has set two channels up, and a descriptor
is used again by the next connection. `MAX_RTP_PAYLOAD_SIZE = 7` cuts the first
frame of the file into two packets and leaves the second in one; `LosslessPath` runs over every
frame size up to four payloads and over all files of three access units. `SeqModulus = 4` stands for
2^16 and the sequence number starts two before the wrap. `MaxMessage = 14` symbols is
passed by a client whose requests pile up. In `HttpServer` the vector has four bytes
and the second buffer of `readFd()` six, so that a request overflows both; the width of
integers and `kCheapPrepend` are the code's. `ThreadPool` has two workers, two producers and a
queue of two, so that both sides wait and the ring wraps; the log has files of two
lines and checks every second one, and the clock shows the last second of summer time, the next
one and the next day. The calendar is checked on every day of the years around 1900, 1970,
2000 and 2100.

**Fairness.** Weak fairness of the loop thread once it is in `loop()`, of a thread that
is inside a call, of time, of the peer that reads and of the base loop; never of a new
call, of the peer sending or closing, of another event, or of the poll timeout (so
that a lost wakeup is seen). In `TimerQueue` a readable timerfd and a
queued functor are handled separately fairly, because every round of the loop polls
and runs one finite batch. In `RtspServer` the loop's functors and the sender thread are
fair, and nothing is assumed of the clients. In `ThreadPool` every thread that is
not asleep is; the call of `stop()`, the clock and a wakeup without a notification are not,
so that a missing notification is seen.

Deadlock is checked in the runs of the network core. The others may stop: a client's script ends, the pool is
joined, or a fault ends the process.

## Findings

1. `TcpConnection::shutdown()` on another thread stores `kDisconnecting` over
   `kDisconnected` (run `shutdown_race`).
2. `~EventLoopThread()` may hang: `loop()` forgets a `quit()` made before it
   (run `lost_quit`).
3. The peer's RTP address is built from the RTCP port: a client that sets up UDP gets its RTP packets on the
   wrong port (run `rtp_port`).

The models also reach the following, for which there is no run; where an invariant is named, TLC finds it
violated with the constants given.

* TcpConnection: `forceClose()` on another thread has the race of `shutdown()` and closes the connection twice
  (`ServerMapAssertion`, `Usages = {"forceClose"}`); `startRead()` or `stopRead()` between the close and
  `connectDestroyed()` registers the channel again, which closes the connection twice or removes an enabled
  channel (`HandleCloseAssertion`, `RemoveAssertion`, `Usages = {"read"}`); `~TcpServer()` during
  `kDisconnecting`; a close callback on a destroyed server.
* EventLoopThread: a loop that quits itself while the destructor reads `_loop` for the second
  time (null or dangling pointer).
* Connector: start, stop and start before the loop takes them up, the second start before the queued reset of
  the old channel (`ConnectingAssertion`, `Restarts = TRUE`); a client destroyed on another thread between
  `newConnection()` and the queued reset, with its connector (`DtorAssertion`, `Deaths = {"anytime"}`,
  `OnLoops = {FALSE}`), or while `handleWrite()` is about to call it; a connector started again after it had
  been connected, or with a retry timer pending; a retry timer of up to 30 s on a connector that
  `~TcpClient()` keeps for 1 s.
* MediaSession: `removeClient()` is never called, though its comment (`MediaSession.cc:162`) says that closing a
  connection does. The entry of a closed connection stays until the next packet; a connection that gets the same
  descriptor before that is refused by `addClient()` and never gets a packet.
* RtspServer: the four faults above; over TCP, after ten failed binds or when a channel is set
  up twice, `~RtpConnection()` closes descriptors that are not its own, or leaks; a request
  that is cut in two or sent together with another one may be answered before it is
  complete, lose its rest, or wait for ever.
* HttpServer: more data after a refused version fails the assertion of `setMethod()`; a
  second request that came with the first waits for the next segment; a body is taken as
  the beginning of the next request line.
* Buffer: `prependInt32()` and `prependInt16()` put eight bytes in front.
* ThreadPool: `stop()` does not wake a producer that waits for room, and drops queued tasks.
* Logger: a line in the second in which the zone is set may show the date of the old zone; a line that another
  thread appends between `g_flush()` and `abort()` is lost.

Seen while reading, outside the models: a zone file that cannot be read leaves a zone that is `valid()` and has no
entry (`TimeZone.cc:181`); `fromLocalTime()` takes summer time as one hour.

## The proofs

Every theorem holds for every value of the constants that satisfies the module's `ASSUME`.
These say no more than that bounds are natural numbers and that names are distinct; four are
worth a word. `ThreadPool!PoolAssumption` lets the clock of a behaviour be any increasing
sequence of seconds and a script create any number of tasks and lines.
`TimerQueue!TimerQueueAssumption` and `ConnectorAssumption` bound nothing but the counters.
`RtspServer!ScriptAssumption` says what a client can send: requests with any headers in any order and
interleaved packets (`Items`), each cut at most once, at a place within its text.
Each proof module has the layout: the inductive invariant, lemmas on the data (sequences,
queues, records), one lemma per action, and the theorems, each a consequence of the invariant.
Each invariant was checked by TLC on the instance of the component's run before it was proved.

* `EventLoopProofs`: `TypeCorrect`; `OrderCorrect` (`FunctorsRunOnceInOrder`) needs that the
  swapped batch is empty whenever the loop is not running functors (`OrderInv`), or the swap in
  `doPendingFunctors()` would overwrite unrun functors. `WakeupCorrect` (`NoLostWakeup`): the
  property speaks of the poll only. `WakeInv` extends it backwards: from the handling of the
  eventfd until the swap, pending functors are going to be swapped anyway; from the swap until
  the poll, whoever pushes has to write the eventfd, which is why the loop thread must write too
  while it runs functors.
* `PollerProofs`: `IInv` adds to the three properties that live channels have distinct
  descriptors, that map entries are owned by the channel they name, that `_addedToLoop` agrees
  with the label, and that what is still to be handled in a round is known to the poller.
  `PollerCorrect`, `MapCorrect` and `ActiveCorrect` follow.
* `TimerQueueProofs`: `Inv` describes the owners address by address: `QueueInv` (the two sets
  hold the same timers under their current expiration and sequence), `BatchInv` (the timers taken
  out by `getExpired()`), `PendingInv` (a queued `addTimerInLoop()` names a timer no other one
  names), `OwnerInv` (every live Timer is in exactly one of the three places) and `DeadInv`
  (a cancelled id is in none of them, except in the batch that is running, and then in
  `_cancelingTimers`). The sequence number is what makes `DeadInv` survive the reuse of an
  address. `SetsAlwaysMatch`, `TimersHaveOneOwner` and `CancelledStaysOutHolds` follow.
  `TimerfdCoversEarliestHolds` is proved in the stronger form `CoversAll`: the timerfd covers
  every timer, so that the removal of the earliest needs no argument about the next one.
* `TcpConnectionProofs`: `OutputInv` joins the three properties of the output path with
  what they need: EPOLLOUT is asked for exactly while something is buffered, nobody has seen a
  connection before `connectEstablished()`, and only a contract application has a message on its
  way. `WireAlwaysInOrder`, `FinComesAfterFlush` and `OutputAlwaysWatched` hold for every
  usage. `ContractInv` holds for an application whose other threads only send: it follows the
  one way of a connection from `kConnecting` to the removal of its channel (`EarlyInv`,
  `OpenInv`, `ClosedInv`) and says that at most one frame of the stack can still close it.
  `ContractMeetsNoFailedAssertion` and `DestroyedAlwaysRemoved` follow. Without the
  contract the first one is false: that is the finding of run `shutdown_race`.
* `EventLoopProofs`, second part, on `EventLoopThreadPool`: `RoundRobinHolds`; `CarefulDtorIsSafe` from `DtorInv`, which
  follows every thread and the destructor's cursor. It assumes `Careful`, the hypothesis under
  which the run checks `DtorIsSafe`; without it the destructor may lose its `quit()` (run
  `lost_quit`).
* `HttpServerProofs`: `TypesAlwaysHold`; `BufferImplementsQueue`, the refinement of `ByteQueue`, from
  one lemma on each operation of a buffer (what `Content` is before and after) and a case for each
  action. The one on `ensureWritableBytes()` needs the test for room in `makeSpace()`, or the
  move would leave the vector too short for what is appended. `AnswersAlwaysMatch` follows from `AnswerInv`:
  so many lines of the request have been parsed, what is in the buffer and what is still to come is the rest
  of its text, and a pass of the parser waits for more, refuses the line, takes it or completes
  the request, whatever the segments are. `BufferAssumption` lets every size be any
  natural number, the second buffer of `readFd()` being not empty; `HttpAssumption` lets a script
  hold any number of requests with any number of headers.
* `ConnectorProofs`, in three layers. `AttemptInv` holds whatever the application does: the
  channel is watched exactly while the state is `kConnecting`, and a channel that was removed
  has exactly one `resetChannel()` queued, so that a late reset never drops a watched channel.
  `StartInv` holds for a client that is started once: there is at most one place from which
  `startInLoop()` may still be called (the user's call, the queue, one retry timer), and none
  while an attempt is under way. `ContractInv` adds that a due retry finds the channel reset and
  what is left of a destroyed client: nothing (`GoneInv`), or a stopped connector whose timers
  run out before the second for which it is kept (`StoppedInv`). `OneAttemptAlways`,
  `ContractMeetsNoFailedAssertion` and `OnlyLongRetriesEverDangle` follow. The last one holds for the
  contract, for every keep-alive and every maximum of the delay, and names its exception: a retry timer planned
  when the delay had grown to the time for which `~TcpClient()` keeps the connector, or to its
  maximum. The code keeps it for 1 s and doubles the delay from 0.5 s to 30 s, so that a client destroyed after
  a few failures has such a timer (hazard at `Connector.cc:108`).
* `ThreadPoolProofs`: `TasksAreFifo` from the fact that the ring is well formed (`QueueOK`)
  and lemmas that relate `PushBack` and `PopFront` to `Append` and `Tail` of its contents for
  every capacity. `LogAlwaysKeepsItsLimits` from `LogInv`: a replaced file is flushed and within
  its limits (`ClosedFile`); of the open one the counter since the last check bounds the lines
  of later days (`OpenFile`). Its last part is about a fatal line: a line that is not on
  disk is in the open file, and its thread is not between `g_flush()` and `abort()` (`Pending`).
* `RtspServerProofs`, for any number of connections and descriptors and whatever the clients
  send, in five layers. `Inv` gives the records their shape (`Typed`: among other things the
  parser returns a channel that exists), an RtpConnection to every connection that found its
  session (`Described`, without which SETUP could meet a dead one), and, while every set-up is over
  UDP and succeeds, a table of descriptors that is what the live objects own (`OwnInv`). For the
  latter a channel must hold no descriptor before its set-up (`Fresh`), and the lemmas on
  `LowestFree` say that the kernel's answers are free, distinct, and the spare one itself when
  the acceptor is out of descriptors. `DescriptorsAlwaysHaveOneOwner` and `NeverTwoChannels`
  follow. `OrderInv` holds whatever the transports are: the packets of a client stand in one line,
  those received before those of the running batch before those of the queue (`Lined`), none of
  them beyond what the sender has cut, and all of them before the packet that a client on the
  sender's list is going to get (`LineInv`); for that a connection must be on the list at most once,
  although `addClient()` looks only at the descriptor (`EntryInv`: an entry of a connection that
  still has its socket is under its descriptor). `FramesAlwaysInOrder` follows. `SeqInv` adds that
  a channel that plays was set up, while clean over UDP with a socket in the table, so that by
  `OwnInv` the packet is written to it and no number is lost; and that an RtpConnection is only
  replaced for a connection that has received nothing. `TalkInv` follows the text of the requests:
  the numbers that have been answered (`Told`), the one the parser holds, those in the buffer and
  those still to come stand in one increasing line (`InLine`), wherever the segments are cut, since
  the parser only takes text off the front (`ParsedIs`) and a line holds one number. For a client that
  sends whole requests nothing is left over between two of them, each has had its answer, and one
  DESCRIBE has made the RtpConnection (`Whole`); this rests on lemmas on what one call of the parser
  makes of the text of a whole request (`WholeRequest`) or packet (`WholePacket`).
  `AnswersAlwaysInOrder` follows, and `OrderlyClientsStaySafe` with `NeverTwoChannels`
  (`OrderlyGoOn`). `TcpInv` is about a client whose set-ups are all over TCP: no text on its way holds
  a UDP transport (`NoUdp`, from the lemma `NoUdpParsed` on the header the parser picks), so its
  packets leave through its own connection, and every number taken is delivered while that
  connection has its socket (`Dry`). `PacketsAlwaysInOrder` follows from `OrderInv`, `SeqInv`
  and `TcpInv`.

Only model-checked:

* all liveness: `WF_` and `ENABLED` are out of the prover's reach;
* `LinesTellTheTime`, `ConversionsAreExact` and `MediaPathIsLossless`: what calendar
  arithmetic, number formatting and the packetiser compute for every input needs induction over
  data, which the installed provers do not do.

## Not modelled

* Socket, SocketUtil, InetAddress and Endian are wrappers of system calls; what the kernel does is
  in the modules that use them.
* The text of messages, SDP, log lines and timestamps; the bits of the RTP header other
  than the sequence number; RTP timestamps.
* The client side of RTSP (`RtspResponse`, `handleRtspResponse()`), which the server does not use.
* `TcpClient::disconnect()` is `shutdown()` of its connection; `restart()` is unreachable.
* The exception handlers of `ThreadPool::runInThread()`; the destruction of an EventLoop with work
  left in it; `ReadSmallFile`, `ProcessInfo`, `Any`, `StringPiece`, `Exception`: I/O and plain data.
* The examples sudoku, pingpong, filetransfer and maxconnection and the test programs: they add
  little state to the library, and the solver of sudoku searches a space out of TLC's reach.
* A wall clock that is set back under the log, and another thread that opens descriptors between the
  two system calls of the acceptor.

## Plan

Every safety property and action property of the runs is proved, but for the three named above, which
need induction over data. What is left is to extend the model: the parts listed under "Not
modelled", and runs for the races that are only described under "Findings".
