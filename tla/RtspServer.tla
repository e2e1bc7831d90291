----------------------------- MODULE RtspServer -----------------------------
(***************************************************************************)
(* The RTSP media server: Acceptor, RtspServer, RtspConnection,            *)
(* MediaSession and RtpConnection on one event loop, and the thread of the *)
(* example that reads a file and pushes its frames.                        *)
(*                                                                         *)
(* The loop thread takes one event at a time (a new connection, a segment  *)
(* of a request, the end of a connection, the timer of TEARDOWN) and then  *)
(* runs the functors queued so far.  The sender thread reads a frame,      *)
(* packetises it and, for every packet, collects the session's clients     *)
(* under the mutex and queues one functor per client outside it.           *)
(*                                                                         *)
(* Objects are shared between the threads by reference counting: an        *)
(* RtpConnection lives while its RtspConnection is in the server's map or  *)
(* the sender holds it, and its destructor closes descriptors by number.   *)
(* The table of descriptors therefore is part of the state.  A behaviour   *)
(* ends when the code fails an assertion or uses a dead object: fault says *)
(* which.                                                                  *)
(***************************************************************************)
EXTENDS RtspMessage, H264

CONSTANTS
  NConns,      \* connections a behaviour accepts
  NFds,        \* RLIMIT_NOFILE, less the descriptors that never change
  File,        \* the bytes of the H.264 file
  MaxFrames,   \* most frames the sender pushes
  MaxMessage,  \* MAX_RTSP_MESSAGE_SIZE (2048 bytes), in symbols
  SeqModulus,      \* 2^16: packetSeq is a uint16_t
  Scripts      \* what happens outside the server: reqs, for each connection
               \* the requests its client sends; frames, the number of frames
               \* pushed; removes, whether the application may call
               \* removeMediaSession()

Conns == 1..NConns
Fds == 1..NFds
Channels == 0..1  \* MAX_MEDIA_CHANNEL

ASSUME RtspAssumption ==
  /\ {NConns, NFds, MaxFrames, MaxMessage, SeqModulus} \subseteq Nat
  /\ NFds > 0 /\ SeqModulus > 1
  /\ \A s \in Scripts : DOMAIN s.reqs = 1..NConns /\ s.frames \in 0..MaxFrames /\ s.removes \in BOOLEAN

VARIABLES
  owner,    \* who opened each descriptor: <<"free", 0>>, <<"idle", 0>>,
            \* <<"conn", c>> (accepted socket), <<"rtp", c>> (UDP socket)
  idleFd,   \* Acceptor::_idleFd
  conn,     \* TcpConnection and RtspConnection of each connection
  rtp,      \* RtpConnection of each connection
  clients,  \* MediaSession::_clients: pairs <<descriptor, connection>>
  session,  \* the published session is in _mediaSessions
  phase,    \* "events" or "functors": where the loop is
  queue,    \* EventLoop::_pendingFunctors
  batch,    \* the functors doPendingFunctors() swapped out
  sender,   \* sendFrameThread() and the send callback of MediaSession
  script,   \* the member of Scripts this behaviour follows
  client,   \* what each client has sent
  resp,     \* answers written to each connection
  recv,     \* RTP packets written to each client
  clean,    \* no set-up yet that makes an RtpConnection close descriptors
            \* it does not own
  fault     \* the assertion or dead object the code ran into

loopVars == <<phase, queue, batch>>
vars == <<owner, idleFd, conn, rtp, clients, session, phase, queue, batch,
          sender, script, client, resp, recv, clean, fault>>

Free == <<"free", 0>>
SessionId == 2  \* _lastMediaSessionId starts at 1 and is incremented first

\* packetSeq starts at a random number below 0xffff: the largest, so that
\* it wraps after two packets.  peer is the port in _peerRtpAddr: of the two
\* that the client named for RTP and RTCP, or none yet.
UdpPorts == {"rtp", "rtcp"}
NoChannel == [setup |-> FALSE, play |-> FALSE, rtpfd |-> 0, rtcpfd |-> 0, peer |-> "none",
              seq |-> SeqModulus - 2]
NewRtp == [alive |-> TRUE, closed |-> FALSE, idr |-> FALSE, mode |-> 0,
           ch |-> [n \in Channels |-> NoChannel]]
DeadRtp == [NewRtp EXCEPT !.alive = FALSE]

NoConn == [st |-> "none", fd |-> 0, buf |-> <<>>, req |-> NewRequest, sess |-> 0]

\* main() of the example: the session is published before the sender starts
\* and before the server listens.
Init ==
  /\ owner = [f \in Fds |-> IF f = 1 THEN <<"idle", 0>> ELSE Free]
  /\ idleFd = 1
  /\ conn = [c \in Conns |-> NoConn]
  /\ rtp = [c \in Conns |-> DeadRtp]
  /\ clients = {}
  /\ session = TRUE
  /\ phase = "events" /\ queue = <<>> /\ batch = <<>>
  /\ script \in Scripts
  /\ client = [c \in Conns |-> [pos |-> 0, pend |-> <<>>]]
  /\ sender = [pc |-> "idle", frame |-> 0, part |-> 0, todo |-> {}, held |-> {}]
  /\ resp = [c \in Conns |-> <<>>]
  /\ recv = [c \in Conns |-> <<>>]
  /\ clean = TRUE
  /\ fault = "none"

(***************************************************************************)
(* Descriptors                                                             *)
(***************************************************************************)

FreeFds(o) == {f \in Fds : o[f] = Free}

\* The n-th descriptor that the kernel would return, 0 (an error) if none.
LowestFree(o, n) ==
  LET s == {f \in FreeFds(o) : Cardinality({g \in FreeFds(o) : g <= f}) = n}
  IN IF s = {} THEN 0 ELSE Min(s)

Close(o, fds) == [f \in Fds |-> IF f \in fds THEN Free ELSE o[f]]

\* ~RtpConnection(): closes whatever numbers its channels hold.
RtpFds(c) == UNION {{rtp[c].ch[n].rtpfd, rtp[c].ch[n].rtcpfd} : n \in Channels}

\* Mutant: the RTCP descriptors are forgotten.
DestroyRtpLeak(c) ==
  /\ owner' = Close(owner, {rtp[c].ch[n].rtpfd : n \in Channels})
  /\ rtp' = [rtp EXCEPT ![c] = DeadRtp]

DestroyRtp(c) ==
  /\ owner' = Close(owner, RtpFds(c))
  /\ rtp' = [rtp EXCEPT ![c] = DeadRtp]

\* The RtspConnection of c is in RtspServer::_rtspConnMap.
HasRtsp(c) == conn[c].st \in {"kConnected", "kDisconnecting"}
\* The TcpConnection, and its channel in the poller, still exist.
HasTcp(c) == HasRtsp(c) \/ conn[c].st = "kDisconnected"

\* Its socket is open: events arrive and writes leave.
HasSocket(c) == HasRtsp(c) /\ owner[conn[c].fd] = <<"conn", c>>

(***************************************************************************)
(* Acceptor::handleRead(), TcpServer::newConnection(), connectEstablished()*)
(* and RtspServer::onConnection(): the single loop runs them in one go.    *)
(***************************************************************************)

InEvents == phase = "events" /\ fault = "none"

\* Registering the channel asserts that the poller knows no other channel
\* for the descriptor.
Accept(c) ==
  LET fd == LowestFree(owner, 1) IN
  /\ InEvents
  /\ conn[c].st = "none" /\ \A d \in 1..c - 1 : conn[d].st # "none"
  /\ fd # 0
  /\ IF \E d \in Conns : HasTcp(d) /\ conn[d].fd = fd
     THEN fault' = "epoll_assert" /\ UNCHANGED <<owner, conn>>
     ELSE /\ owner' = [owner EXCEPT ![fd] = <<"conn", c>>]
          /\ conn' = [conn EXCEPT ![c] = [NoConn EXCEPT !.st = "kConnected", !.fd = fd]]
          /\ UNCHANGED fault
  /\ UNCHANGED <<idleFd, rtp, clients, session, loopVars, sender, script, client, resp, recv, clean>>

\* Out of descriptors (EMFILE): the spare one is closed, the connection is
\* accepted with it and closed at once, and the spare one is opened again.
AcceptEMFILE(c) ==
  /\ InEvents
  /\ conn[c].st = "none" /\ \A d \in 1..c - 1 : conn[d].st # "none"
  /\ LowestFree(owner, 1) = 0
  /\ LET closed == Close(owner, {idleFd})
         connfd == LowestFree(closed, 1)
     IN /\ idleFd' = LowestFree(Close(closed, {connfd}), 1)
        /\ owner' = [closed EXCEPT ![idleFd'] = <<"idle", 0>>]
  /\ conn' = [conn EXCEPT ![c].st = "refused"]
  /\ UNCHANGED <<rtp, clients, session, loopVars, sender, script, client, resp, recv, clean, fault>>

(***************************************************************************)
(* The end of a connection: TcpConnection::handleClose() calls             *)
(* RtspServer::onConnection(), which drops the RtspConnection, and         *)
(* TcpServer::removeConnection(), which queues connectDestroyed().         *)
(***************************************************************************)

\* Mutant: the socket is closed at once, not when the channel has left.
HandleCloseEarly(c) ==
  /\ HasRtsp(c)
  /\ conn' = [conn EXCEPT ![c] = [NoConn EXCEPT !.st = "kDisconnected", !.fd = conn[c].fd]]
  /\ owner' = Close(owner, {conn[c].fd} \cup IF c \in sender.held THEN {} ELSE RtpFds(c))
  /\ rtp' = [rtp EXCEPT ![c] = IF c \in sender.held THEN @ ELSE DeadRtp]
  /\ queue' = Append(queue, [op |-> "connectDestroyed", c |-> c, frame |-> 0, part |-> 0])
  /\ UNCHANGED <<idleFd, clients, session, phase, batch, sender, script, client, resp, recv, clean, fault>>

HandleClose(c) ==
  /\ HasRtsp(c)
  /\ conn' = [conn EXCEPT ![c] = [NoConn EXCEPT !.st = "kDisconnected", !.fd = conn[c].fd]]
  /\ IF rtp[c].alive /\ c \notin sender.held
     THEN DestroyRtp(c)
     ELSE UNCHANGED <<owner, rtp>>
  /\ queue' = Append(queue, [op |-> "connectDestroyed", c |-> c, frame |-> 0, part |-> 0])
  /\ UNCHANGED <<idleFd, clients, session, phase, batch, sender, script, client, resp, recv, clean, fault>>

PeerCloses(c) == InEvents /\ HasSocket(c) /\ HandleClose(c)

\* forceCloseWithDelay(3.0): the timer holds a weak reference.
ForceCloseTimer(c) == InEvents /\ conn[c].st = "kDisconnecting" /\ HandleClose(c)

(***************************************************************************)
(* Requests.  A client sends the requests of its script in order; item i   *)
(* carries CSeq i and arrives in one segment, or in two when it has a cut. *)
(***************************************************************************)

\* A client puts one CSeq in a request.
Names == {"Accept", "Session", "Transport", "Other"}
Symbols == ({"hdr"} \X Names \X Nat) \cup {<<"data", "RTCP", 0>>}
Items == [m : Methods \cup {"RECORD", "RTCP"}, n : Nat, h : Seq(Symbols), cut : Nat]

Lines(h) == [j \in 1..2 * Len(h) |-> IF j % 2 = 1 THEN h[(j + 1) \div 2] ELSE Eol]

Text(item, i) ==
  IF item.m = "RTCP" THEN <<<<"rtcp", "$", item.n>>>> \o item.h
  ELSE <<Line(item.m, item.n), Eol, Hdr("CSeq", i), Eol>> \o Lines(item.h) \o <<Eol>>

ASSUME ScriptAssumption ==
  \A s \in Scripts : \A c \in Conns :
    /\ s.reqs[c] \in Seq(Items)
    /\ \A i \in 1..Len(s.reqs[c]) : s.reqs[c][i].cut <= Len(Text(s.reqs[c][i], i))

\* The segment of c that arrives next, <<>> when its script is over.
Segment(c) ==
  LET s == client[c] IN
  IF s.pend # <<>> THEN s.pend
  ELSE IF s.pos = Len(script.reqs[c]) THEN <<>>
  ELSE LET item == script.reqs[c][s.pos + 1]
           all  == Text(item, s.pos + 1)
       IN SubSeq(all, 1, IF item.cut = 0 THEN Len(all) ELSE item.cut)

Send(c) ==
  LET s == client[c]
      i == IF s.pend = <<>> THEN s.pos + 1 ELSE s.pos
      all == Text(script.reqs[c][i], i)
  IN client' = [client EXCEPT ![c].pos = i,
                  ![c].pend = IF s.pend = <<>> THEN SubSeq(all, Len(Segment(c)) + 1, Len(all)) ELSE <<>>]

\* The end of handleRtspMessage(): a buffer that grew too long is dropped.
Trim(buf) == IF Len(buf) > MaxMessage THEN <<>> ELSE buf

\* What the request leaves when it has been answered: reset() and sendMessage(),
\* which TcpConnection::send() drops unless the connection is up.
Answer(c, p, status, sess, st) ==
  /\ conn' = [conn EXCEPT ![c].req = Reset(p.q), ![c].buf = Trim(p.buf),
                          ![c].sess = sess, ![c].st = st]
  /\ resp' = IF conn[c].st = "kConnected"
             THEN [resp EXCEPT ![c] = Append(@, Response(status, p.q))] ELSE resp

\* _rtpConnPtr is null until the first DESCRIBE.
NullRtp(c) ==
  /\ ~rtp[c].alive
  /\ fault' = "null_rtp"
  /\ UNCHANGED <<owner, conn, rtp, clients, resp, clean>>

HandleCmdOption(c, p) ==
  /\ p.q.method = "OPTIONS"
  /\ Answer(c, p, 200, conn[c].sess, conn[c].st)
  /\ UNCHANGED <<owner, rtp, clients, clean, fault>>

\* addClient() keys the client by its descriptor and refuses one that is
\* present; handleCmdDescribe() does not look at the result.
AddClient(c) ==
  clients' = IF \E e \in clients : e[1] = conn[c].fd THEN clients
             ELSE clients \cup {<<conn[c].fd, c>>}

\* lookMediaSession() by the suffix of the url, and by the id DESCRIBE found.
LookSuffix(suffix) == suffix = 1 /\ session
LookId(id) == session /\ id = SessionId

HandleCmdDescribe(c, p) ==
  /\ p.q.method = "DESCRIBE"
  /\ rtp' = [rtp EXCEPT ![c] = IF @.alive THEN @ ELSE NewRtp]
  /\ IF LookSuffix(p.q.arg)
     THEN Answer(c, p, 200, SessionId, conn[c].st) /\ AddClient(c)
     ELSE Answer(c, p, 404, conn[c].sess, conn[c].st) /\ UNCHANGED clients
  /\ UNCHANGED <<owner, clean, fault>>

\* setupRtpOverTcp(): the channel's descriptors are the connection's own.
SetupRtpOverTcp(c, n) ==
  /\ rtp' = [rtp EXCEPT ![c].mode = Transports.tcp,
               ![c].ch[n] = [@ EXCEPT !.setup = TRUE, !.rtpfd = conn[c].fd, !.rtcpfd = conn[c].fd]]
  /\ clean' = FALSE
  /\ UNCHANGED owner

\* setupRtpOverUdp() with both sockets bound.  _peerRtpAddr, where RTP packets
\* will be sent, gets the port that the client named for RTCP.
SetupRtpOverUdp(c, n) ==
  LET f1 == LowestFree(owner, 1)
      f2 == LowestFree(owner, 2)
  IN /\ f2 # 0
     /\ owner' = [owner EXCEPT ![f1] = <<"rtp", c>>, ![f2] = <<"rtp", c>>]
     /\ rtp' = [rtp EXCEPT ![c].mode = Transports.udp,
                  ![c].ch[n] = [@ EXCEPT !.setup = TRUE, !.rtpfd = f1, !.rtcpfd = f2, !.peer = "rtcp"]]
     /\ clean' = (clean /\ ~rtp[c].ch[n].setup)

\* All ten tries failed: the fields keep the numbers of sockets that were
\* closed again (0 stands for the -1 of a failed socket()).
SetupRtpOverUdpFails(c, n) ==
  /\ \E rtcpfd \in {rtp[c].ch[n].rtcpfd, LowestFree(owner, 2)} :
       rtp' = [rtp EXCEPT ![c].ch[n].rtpfd = LowestFree(owner, 1), ![c].ch[n].rtcpfd = rtcpfd]
  /\ clean' = FALSE
  /\ UNCHANGED owner

HandleCmdSetup(c, p) ==
  LET n == p.q.channel
      found == LookId(conn[c].sess)
      t == p.q.transport
      Reply(status) == Answer(c, p, status, conn[c].sess, conn[c].st)
  IN /\ p.q.method = "SETUP"
     /\ \/ ~found /\ Reply(500) /\ UNCHANGED <<owner, rtp, clean>>
        \/ found /\ t = Transports.tcp /\ SetupRtpOverTcp(c, n) /\ Reply(200)
        \/ found /\ t = Transports.udp /\ SetupRtpOverUdp(c, n) /\ Reply(200)
        \/ found /\ t = Transports.udp /\ SetupRtpOverUdpFails(c, n) /\ Reply(500)
        \/ found /\ t = Transports.multicast /\ Reply(461) /\ UNCHANGED <<owner, rtp, clean>>
     /\ UNCHANGED <<clients, fault>>

\* RtpConnection::play() starts every channel that is set up.
StartPlay(r) == [r EXCEPT !.ch = [n \in Channels |-> [r.ch[n] EXCEPT !.play = @ \/ r.ch[n].setup]]]

HandleCmdPlay(c, p) ==
  /\ p.q.method = "PLAY"
  /\ \/ NullRtp(c)
     \/ /\ rtp[c].alive
        /\ rtp' = [rtp EXCEPT ![c] = StartPlay(@)]
        /\ Answer(c, p, 200, conn[c].sess, conn[c].st)
        /\ UNCHANGED <<owner, clients, clean, fault>>

\* RtpConnection::teardown()
Teardown(r) ==
  IF r.closed THEN r
  ELSE [r EXCEPT !.closed = TRUE, !.ch = [n \in Channels |-> [r.ch[n] EXCEPT !.play = FALSE]]]

\* The answer is sent before shutdown() and forceCloseWithDelay(3.0).
HandleCmdTeardown(c, p) ==
  /\ p.q.method = "TEARDOWN"
  /\ \/ NullRtp(c)
     \/ /\ rtp[c].alive
        /\ rtp' = [rtp EXCEPT ![c] = Teardown(@)]
        /\ Answer(c, p, 200, conn[c].sess, "kDisconnecting")
        /\ UNCHANGED <<owner, clients, clean, fault>>

\* getRtpSessionId() on a null pointer reads no member: no fault.
HandleCmdGetParamter(c, p) ==
  /\ p.q.method = "GET_PARAMETER"
  /\ Answer(c, p, 200, conn[c].sess, conn[c].st)
  /\ UNCHANGED <<owner, rtp, clients, clean, fault>>

\* handleRtcp(): the packet is taken off only when nothing follows it, and
\* retrieve() asserts that all of it has arrived.
HandleRtcp(c, p) ==
  LET have == Len(p.buf)
      len  == IF have > 1 /\ p.buf[1][1] = "rtcp" THEN p.buf[1][3] + 1 ELSE 0
      Keep(buf) == conn' = [conn EXCEPT ![c].req = p.q, ![c].buf = Trim(buf)]
  IN /\ p.ok /\ p.q.method = "RTCP"
     /\ \/ len > have /\ fault' = "retrieve_assert" /\ UNCHANGED conn
        \/ len = have /\ Keep(<<>>) /\ UNCHANGED fault
        \/ len < have /\ Keep(p.buf) /\ UNCHANGED fault
     /\ UNCHANGED <<owner, rtp, clients, resp, clean>>

\* The request is not complete, or its line or headers are refused.
KeepParsing(c, p) ==
  /\ ~p.ok \/ (p.q.method # "RTCP" /\ ~GotAll(p.q))
  /\ conn' = [conn EXCEPT ![c].req = p.q, ![c].buf = Trim(p.buf)]
  /\ UNCHANGED <<owner, rtp, clients, resp, clean, fault>>

\* RtspServer::onMessage() and RtspConnection::handleRtspMessage() on the
\* next segment; a connection that is shutting down still reads.
Receive(c) ==
  /\ InEvents /\ HasSocket(c)
  /\ Segment(c) # <<>> /\ Send(c)
  /\ LET p == ParseRequest(conn[c].req, conn[c].buf \o Segment(c))
     IN \/ HandleRtcp(c, p)
        \/ KeepParsing(c, p)
        \/ /\ p.ok /\ GotAll(p.q)
           /\ \/ HandleCmdOption(c, p)
              \/ HandleCmdDescribe(c, p)
              \/ HandleCmdSetup(c, p)
              \/ HandleCmdPlay(c, p)
              \/ HandleCmdTeardown(c, p)
              \/ HandleCmdGetParamter(c, p)
  /\ UNCHANGED <<idleFd, session, loopVars, sender, script, recv>>

(***************************************************************************)
(* The loop's functors                                                     *)
(***************************************************************************)

DoPendingFunctors ==
  /\ InEvents /\ queue # <<>>
  /\ phase' = "functors" /\ batch' = queue /\ queue' = <<>>
  /\ UNCHANGED <<owner, idleFd, conn, rtp, clients, session, sender, script, client, resp, recv, clean, fault>>

\* The batch without its first functor; the last one ends the phase.
PopFunctor ==
  /\ batch' = Tail(batch)
  /\ phase' = IF Len(batch) = 1 THEN "events" ELSE "functors"
  /\ UNCHANGED queue

\* TcpConnection::connectDestroyed(): the channel leaves the poller, the
\* last reference goes with the functor and ~Socket() closes the descriptor.
ConnectDestroyed ==
  LET c == Head(batch).c IN
  /\ phase = "functors" /\ fault = "none" /\ Head(batch).op = "connectDestroyed"
  /\ owner' = Close(owner, {conn[c].fd})
  /\ conn' = [conn EXCEPT ![c] = [NoConn EXCEPT !.st = "gone"]]
  /\ PopFunctor
  /\ UNCHANGED <<idleFd, rtp, clients, session, sender, script, client, resp, recv, clean, fault>>

\* Mutant: the sequence number does not wrap.
SetRtpHeaderNoWrap(r) ==
  [r EXCEPT !.idr = TRUE, !.ch[0].seq = IF r.ch[0].play THEN @ + 1 ELSE @]

\* setFrameType(): the example's frames have type 0, which counts as a key
\* frame.  setRtpHeader(): the next 16-bit sequence number.
SetRtpHeader(r) ==
  [r EXCEPT !.idr = TRUE,
            !.ch[0].seq = IF r.ch[0].play THEN (@ + 1) % SeqModulus ELSE @]

\* The functor of sendRtpPacket(), bound to the raw RtpConnection.
SendPacket ==
  LET f == Head(batch)
      c == f.c
      pkt(port) == [frame |-> f.frame, part |-> f.part, seq |-> rtp[c].ch[0].seq, port |-> port]
      Deliver(port) == recv' = [recv EXCEPT ![c] = Append(@, pkt(port))]
  IN /\ phase = "functors" /\ fault = "none" /\ f.op = "send"
     /\ PopFunctor
     /\ \/ /\ ~rtp[c].alive
           /\ fault' = "use_after_free" /\ UNCHANGED <<rtp, recv>>
        \/ /\ rtp[c].alive /\ ~rtp[c].ch[0].play
           /\ rtp' = [rtp EXCEPT ![c] = SetRtpHeader(@)] /\ UNCHANGED <<recv, fault>>
        \/ \* sendRtpOverTcp(): dropped unless the connection is up
           /\ rtp[c].alive /\ rtp[c].ch[0].play /\ rtp[c].mode = Transports.tcp
           /\ rtp' = [rtp EXCEPT ![c] = SetRtpHeader(@)]
           /\ IF conn[c].st = "kConnected" /\ HasSocket(c) THEN Deliver("interleaved") ELSE UNCHANGED recv
           /\ UNCHANGED fault
        \/ \* sendRtpOverUdp(), to _peerRtpAddr: a stale descriptor may be
           \* another's socket by now
           /\ rtp[c].alive /\ rtp[c].ch[0].play /\ rtp[c].mode = Transports.udp
           /\ rtp' = [rtp EXCEPT ![c] = SetRtpHeader(@)]
           /\ LET fd == rtp[c].ch[0].rtpfd IN
              /\ fd \in Fds
              /\ \/ owner[fd][1] = "conn" /\ UNCHANGED recv
                 \/ /\ owner[fd][1] = "rtp"
                    /\ \E port \in UdpPorts : port = rtp[c].ch[0].peer /\ Deliver(port)
           /\ UNCHANGED fault
        \/ \* sendto() failed
           /\ rtp[c].alive /\ rtp[c].ch[0].play /\ rtp[c].mode = Transports.udp
           /\ rtp' = [rtp EXCEPT ![c] = Teardown(SetRtpHeader(@))]
           /\ UNCHANGED <<recv, fault>>
     /\ UNCHANGED <<owner, idleFd, conn, clients, session, sender, script, client, resp, clean>>

(***************************************************************************)
(* The sender thread                                                       *)
(***************************************************************************)

senderKeeps == <<idleFd, conn, session, phase, batch, script, client, resp, recv, clean, fault>>

\* The frames that readFrame() returns one after the other, and their packets.
FileFrames == Reads(File, MaxFrames)
FramePackets == [k \in 1..Len(FileFrames) |-> Packetise(FileFrames[k])]

\* Mutant: a session with one client counts as empty.
PushFrameOffByOne ==
  /\ fault = "none" /\ sender.pc = "idle"
  /\ sender.frame < script.frames /\ sender.frame < Len(FramePackets)
  /\ sender' = [sender EXCEPT !.frame = @ + 1,
                              !.pc = IF session /\ Cardinality(clients) > 1 THEN "collect" ELSE "idle"]
  /\ UNCHANGED <<owner, rtp, clients, queue, senderKeeps>>

\* readFrame(), then pushFrame(): a frame for a session that is gone or has
\* no client is dropped; otherwise handleFrame() cuts it into packets.
PushFrame ==
  /\ fault = "none" /\ sender.pc = "idle"
  /\ sender.frame < script.frames /\ sender.frame < Len(FramePackets)
  /\ sender' = [sender EXCEPT !.frame = @ + 1,
                              !.pc = IF session /\ clients # {} THEN "collect" ELSE "idle"]
  /\ UNCHANGED <<owner, rtp, clients, queue, senderKeeps>>

\* The send callback, under _clientMutex: clients whose RtpConnection died
\* are erased, the others are held by shared_ptr.
Collect ==
  LET live == {e \in clients : rtp[e[2]].alive}
      held == {e \in live : HasTcp(e[2])}
  IN /\ fault = "none" /\ sender.pc = "collect"
     /\ clients' = live
     /\ sender' = [sender EXCEPT !.pc = "send", !.part = @ + 1, !.todo = held,
                                 !.held = {e[2] : e \in held}]
     /\ UNCHANGED <<owner, rtp, queue, senderKeeps>>

\* sendRtpPacket() of the next client, in the descending order of the
\* descriptors that emplace_front() gives the list: nothing for a closed one or when the
\* TcpConnection is gone, else a functor for the loop.
SendRtpPacket ==
  \E e \in sender.todo : LET c == e[2] IN
  /\ fault = "none" /\ sender.pc = "send"
  /\ \A d \in sender.todo : d[1] <= e[1]
  /\ sender' = [sender EXCEPT !.todo = @ \ {e}]
  /\ queue' = IF rtp[c].closed \/ ~HasTcp(c) THEN queue
              ELSE Append(queue, [op |-> "send", c |-> c, frame |-> sender.frame, part |-> sender.part])
  /\ UNCHANGED <<owner, rtp, clients, senderKeeps>>

\* The end of the callback drops the references; the last one destroys the
\* RtpConnection on this thread.
DropReferences ==
  LET dead == {c \in sender.held : ~HasRtsp(c)}
      more == sender.part < Len(FramePackets[sender.frame])
  IN /\ fault = "none" /\ sender.pc = "send" /\ sender.todo = {}
     /\ owner' = Close(owner, UNION {RtpFds(c) : c \in dead})
     /\ rtp' = [c \in Conns |-> IF c \in dead THEN DeadRtp ELSE rtp[c]]
     /\ sender' = [sender EXCEPT !.held = {}, !.pc = IF more THEN "collect" ELSE "idle",
                                 !.part = IF more THEN @ ELSE 0]
     /\ UNCHANGED <<clients, queue, senderKeeps>>

RemoveMediaSession ==
  /\ fault = "none" /\ script.removes /\ session
  /\ session' = FALSE
  /\ UNCHANGED <<owner, idleFd, conn, rtp, clients, loopVars, sender, script, client, resp, recv, clean, fault>>

SenderStep == PushFrame \/ Collect \/ SendRtpPacket \/ DropReferences
LoopStep == DoPendingFunctors \/ ConnectDestroyed \/ SendPacket

Next ==
  \/ \E c \in Conns : Accept(c) \/ AcceptEMFILE(c) \/ Receive(c) \/ PeerCloses(c) \/ ForceCloseTimer(c)
  \/ LoopStep
  \/ SenderStep
  \/ RemoveMediaSession

\* Both threads run: the loop polls again and again, the sender sleeps 40 ms
\* between frames.  Nothing is assumed of the clients.
Spec == Init /\ [][Next]_vars /\ WF_vars(LoopStep) /\ WF_vars(SenderStep)

(***************************************************************************)
(* Properties                                                              *)
(***************************************************************************)

\* While every set-up is over UDP and succeeds, the descriptor table is
\* exactly what the live objects own: nobody closes a descriptor of another
\* object and none leaks, on whichever thread the last reference to an
\* RtpConnection is dropped, and the acceptor never loses its spare one
\* (~RtpConnection(), Acceptor::handleRead(), ~Socket()).
DescriptorsHaveOneOwner ==
  clean /\ fault = "none" =>
    \A f \in Fds :
      /\ owner[f] = <<"idle", 0>> <=> f = idleFd
      /\ \A c \in Conns : owner[f] = <<"conn", c>> <=> HasTcp(c) /\ conn[c].fd = f
      /\ \A c \in Conns : owner[f] = <<"rtp", c>> <=> rtp[c].alive /\ f \in RtpFds(c)

\* No set-up of c in the script asks for UDP.
OverTcp(c) ==
  \A k \in 1..Len(script.reqs[c]) : \A j \in 1..Len(script.reqs[c][k].h) :
    script.reqs[c][k].h[j] # Hdr("Transport", Transports.udp)

\* The packets a client receives come in the order the frames were pushed
\* and cut, and while the connection is up their sequence numbers are
\* consecutive and wrap at 16 bits: neither thread reorders, repeats or skips
\* one between the sender's list, the loop's queue and the socket
\* (addMediaSource()'s callback, setRtpHeader()).  Over UDP the numbers may
\* have a gap once a channel holds a descriptor that is not its own any more.
PacketsInOrder ==
  \A c \in Conns : \A k \in 1..Len(recv[c]) - 1 :
    LET a == recv[c][k]
        b == recv[c][k + 1]
    IN /\ b.frame > a.frame \/ (b.frame = a.frame /\ b.part > a.part)
       /\ (clean \/ OverTcp(c)) /\ conn[c].st = "kConnected" /\ ~rtp[c].closed =>
            b.seq = (a.seq + 1) % SeqModulus

\* Nothing is lost or misplaced between the file and the packets the sender
\* has pushed: its reads return the access units in order and a decoder gets
\* each frame back; and so it is for every small file and frame size
\* (H264File::readFrame(), H264Source::handleFrame()).
MediaPathIsLossless ==
  sender.frame > 0 =>
    /\ Depacketise(FramePackets[sender.frame]) = FileFrames[sender.frame]
    /\ LosslessPath

\* The item carries every header the server waits for, and only ones it
\* understands; an interleaved packet is there in full.
Carries(item, name, values) ==
  /\ \E j \in 1..Len(item.h) : item.h[j][2] = name
  /\ \A j \in 1..Len(item.h) : item.h[j][2] = name => item.h[j][3] \in values

Complete(item) ==
  IF item.m = "RTCP" THEN item.n > 0 /\ item.n = Len(item.h)
  ELSE /\ item.m \in Methods /\ item.n # 9
       /\ item.m = "DESCRIBE" => Carries(item, "Accept", {1})
       /\ item.m = "SETUP" =>
            Carries(item, "Transport", {Transports.tcp, Transports.udp, Transports.multicast})
       /\ item.m = "PLAY" => Carries(item, "Session", {1})

\* What the client of c has sent so far was complete and came in one piece.
SentWhole(c) ==
  \A k \in 1..client[c].pos : Complete(script.reqs[c][k]) /\ script.reqs[c][k].cut = 0

\* A client that sends each request in one segment and waits for the answer
\* gets one answer per request, in order and with its CSeq, up to TEARDOWN;
\* and no client, however its segments are cut, gets an answer twice or out
\* of order (parseRequest(), the reset() after each command, sendMessage()).
AnswersInOrder ==
  \A c \in Conns :
    /\ \A j, k \in 1..Len(resp[c]) : j < k => resp[c][j].cseq < resp[c][k].cseq
    /\ SentWhole(c) /\ conn[c].st = "kConnected" /\ fault = "none" =>
         {resp[c][k].cseq : k \in 1..Len(resp[c])} =
           {k \in 1..client[c].pos : script.reqs[c][k].m # "RTCP"}

\* The client of c described a session before it used one, sent its requests
\* whole, and its interleaved packets too.
Orderly(c) ==
  /\ SentWhole(c)
  /\ \A k \in 1..client[c].pos :
       script.reqs[c][k].m \in {"PLAY", "TEARDOWN"} =>
         \E j \in 1..k : script.reqs[c][j].m = "DESCRIBE"

\* With orderly clients the server never dereferences a null RtpConnection or
\* takes more off a buffer than it holds, whatever they set up; and while
\* every set-up is over UDP and succeeds it never asks the poller for a
\* descriptor that it still knows, in whatever order connections end and
\* their descriptors are given to new ones (handleClose(),
\* connectDestroyed(), EpollPoller::updateChannel(), handleRtcp()).  A queued
\* packet may still find its connection destroyed.
OrderlyClientsAreSafe ==
  (\A c \in Conns : Orderly(c)) =>
    /\ fault \notin {"null_rtp", "retrieve_assert"}
    /\ clean => fault # "epoll_assert"

\* c plays over sockets that are its own, and the session's map leads to it.
Playing(c) ==
  /\ fault = "none" /\ session
  /\ conn[c].st = "kConnected" /\ HasSocket(c) /\ rtp[c].alive /\ ~rtp[c].closed
  /\ rtp[c].ch[0].play /\ <<conn[c].fd, c>> \in clients
  /\ rtp[c].mode = Transports.udp => \E f \in Fds : f = rtp[c].ch[0].rtpfd /\ owner[f] = <<"rtp", c>>

\* Where the packets of c go: over UDP to the port it keeps for RTCP.
PacketPort(c) == IF rtp[c].mode = Transports.tcp THEN "interleaved" ELSE "rtcp"
Received(c, f) == \E k \in 1..Len(recv[c]) : recv[c][k].frame = f /\ recv[c][k].port = PacketPort(c)

\* Every frame pushed while a registered client plays is sent to it, unless it
\* stops playing first: over TCP in its connection, over UDP to its RTCP port
\* (pushFrame(), sendRtpPacket() and the loop's queue).  That it should be the
\* RTP port is RtpReachesRtpPort.
PlayersGetFrames ==
  \A c \in Conns : \A f \in 1..MaxFrames :
    Playing(c) /\ sender.pc = "idle" /\ sender.frame = f - 1 /\ f <= script.frames
      ~> Received(c, f) \/ ~Playing(c)

\* "Supports unicast over UDP and TCP": a client that sets up UDP names a port
\* for RTP and one for RTCP, the answer repeats them, and no RTP packet comes
\* to the second.  setupRtpOverUdp() takes the peer's RTP address from
\* rtcpPort, so every one does.
RtpReachesRtpPort ==
  \A c \in Conns : \A k \in 1..Len(recv[c]) : recv[c][k].port # "rtcp"
=============================================================================
