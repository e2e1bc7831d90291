-------------------------- MODULE RtspServerProofs --------------------------
(***************************************************************************)
(* What RtspServer.tla promises for any number of connections, descriptors *)
(* and frames, whatever the clients send: as long as every set-up is over  *)
(* UDP and succeeds, the table of descriptors is what the live objects own *)
(* and the poller is never asked for a descriptor it still knows; then,    *)
(* and for a client that only uses TCP, no sequence number is lost;        *)
(* and always, a client's packets and answers come in order, and orderly   *)
(* clients over UDP do not stop the server.                                *)
(***************************************************************************)
EXTENDS RtspServer, SequenceTheorems, FiniteSetTheorems, WellFoundedInduction, TLAPS

-----------------------------------------------------------------------------
(* The inductive invariant                                                 *)

\* TcpConnection and its channel exist; the RtspConnection exists.
Tcp(r) == r.st \in {"kConnected", "kDisconnecting", "kDisconnected"}
Rtsp(r) == r.st \in {"kConnected", "kDisconnecting"}

\* The numbers that ~RtpConnection() closes.
FdsOf(r) == UNION {{r.ch[n].rtpfd, r.ch[n].rtcpfd} : n \in Channels}

ReqShape(q) == "channel" \in DOMAIN q /\ q.channel \in Channels

ConnShape(r) ==
  /\ {"st", "fd", "buf", "req", "sess"} \subseteq DOMAIN r
  /\ ReqShape(r.req)
  /\ ~Tcp(r) => r.fd = 0

\* A channel that was not set up holds no descriptor, nor does a dead object.
ChannelShape(h) == {"setup", "play", "rtpfd", "rtcpfd", "seq"} \subseteq DOMAIN h /\ h.seq \in Nat

RtpShape(r) ==
  /\ {"alive", "closed", "idr", "mode", "ch"} \subseteq DOMAIN r
  /\ r.alive \in BOOLEAN
  /\ DOMAIN r.ch = Channels /\ \A n \in Channels : ChannelShape(r.ch[n])
  /\ ~r.alive => FdsOf(r) = {0}

Functors == [op : {"connectDestroyed", "send"}, c : Conns, frame : Nat, part : Nat]

ConnTyped == DOMAIN conn = Conns /\ \A c \in Conns : ConnShape(conn[c])
RtpTyped == DOMAIN rtp = Conns /\ \A c \in Conns : RtpShape(rtp[c])
LoopTyped ==
  /\ queue \in Seq(Functors) /\ batch \in Seq(Functors)
  /\ phase = "functors" => batch # <<>>
SenderTyped ==
  /\ {"pc", "frame", "part", "todo", "held"} \subseteq DOMAIN sender
  /\ sender.frame \in Nat /\ sender.part \in Nat /\ sender.held \subseteq Conns
ClientsTyped == \A e \in sender.todo \cup clients : e[2] \in Conns

Typed == DOMAIN owner = Fds /\ ConnTyped /\ RtpTyped /\ LoopTyped /\ SenderTyped /\ ClientsTyped

\* A connection that found its session has an RtpConnection.
Described == \A c \in Conns : Rtsp(conn[c]) /\ conn[c].sess = SessionId => rtp[c].alive

\* The descriptor is the socket of the connection; one of its RTP sockets.
Sock(c, f) == Tcp(conn[c]) /\ conn[c].fd = f
Holds(c, f) == rtp[c].alive /\ f \in FdsOf(rtp[c])

Owned ==
  \A f \in Fds :
    /\ owner[f] = <<"idle", 0>> <=> f = idleFd
    /\ \A c \in Conns : owner[f] = <<"conn", c>> <=> Sock(c, f)
    /\ \A c \in Conns : owner[f] = <<"rtp", c>> <=> Holds(c, f)

\* A channel holds no descriptor before it is set up.
FreshRtp(r) == \A n \in Channels : ~r.ch[n].setup => r.ch[n].rtpfd = 0 /\ r.ch[n].rtcpfd = 0
Fresh == \A c \in Conns : FreshRtp(rtp[c])

OwnInv == clean /\ fault = "none" => idleFd \in Fds /\ Owned /\ Fresh

\* Registering a channel never finds another one for its descriptor.
NoEpollAssert == clean => fault # "epoll_assert"

Inv == Typed /\ Described /\ OwnInv /\ NoEpollAssert

-----------------------------------------------------------------------------
(* Descriptors                                                             *)

LEMMA FdsAreNats == Fds \subseteq Nat /\ 0 \notin Fds /\ NFds \in Nat /\ IsFiniteSet(Fds)
<1>1. NFds \in Nat
  BY RtspAssumption
<1>2. IsFiniteSet(1..NFds)
  BY <1>1, FS_Interval
<1> QED BY <1>1, <1>2 DEF Fds

LEMMA MinIsIn ==
    ASSUME NEW S, S \subseteq Nat, S # {}
    PROVE  Min(S) \in S /\ \A y \in S : Min(S) <= y
<1>1. PICK x \in S : \A y \in S : ~(<<y, x>> \in OpToRel(<, Nat))
  BY NatLessThanWellFounded, WFMin
<1>2. \A y \in S : x <= y
  <2> TAKE y \in S
  <2>1. x \in Nat /\ y \in Nat
    OBVIOUS
  <2>2. ~(y < x)
    BY <1>1, <2>1 DEF OpToRel
  <2> QED BY <2>1, <2>2
<1> QED BY <1>2, Zenon DEF Min

LEMMA FreeIsFree ==
    ASSUME NEW o
    PROVE  FreeFds(o) \subseteq Fds /\ \A f \in FreeFds(o) : o[f] = Free
BY DEF FreeFds

\* What the kernel returns is a free descriptor, the lowest one first.
LEMMA LowestFreeIs ==
    ASSUME NEW o, NEW n, LowestFree(o, n) # 0
    PROVE  /\ LowestFree(o, n) \in Fds /\ o[LowestFree(o, n)] = Free
           /\ Cardinality({g \in FreeFds(o) : g <= LowestFree(o, n)}) = n
<1> DEFINE s == {f \in FreeFds(o) : Cardinality({g \in FreeFds(o) : g <= f}) = n}
<1>1. s # {} /\ LowestFree(o, n) = Min(s)
  BY DEF LowestFree
<1>2. s \subseteq Nat
  BY FdsAreNats, FreeIsFree
<1>3. Min(s) \in s
  BY <1>1, <1>2, MinIsIn
<1> QED BY <1>1, <1>3, FreeIsFree

LEMMA FirstFree ==
    ASSUME NEW o, FreeFds(o) # {}
    PROVE  LowestFree(o, 1) # 0
<1> DEFINE s == {f \in FreeFds(o) : Cardinality({g \in FreeFds(o) : g <= f}) = 1}
<1>1. FreeFds(o) \subseteq Nat
  BY FdsAreNats, FreeIsFree
<1> DEFINE m == Min(FreeFds(o))
<1>2. m \in FreeFds(o) /\ \A y \in FreeFds(o) : m <= y
  BY <1>1, MinIsIn
<1> HIDE DEF m
<1>3. \A g \in FreeFds(o) : g <= m => g = m
  <2> TAKE g \in FreeFds(o)
  <2>1. g \in Nat /\ m \in Nat /\ m <= g
    BY <1>1, <1>2
  <2> QED BY <2>1
<1>4. {g \in FreeFds(o) : g <= m} = {m}
  <2>1. m \in Nat /\ m <= m
    BY <1>1, <1>2
  <2> QED BY <1>2, <1>3, <2>1
<1>5. Cardinality({g \in FreeFds(o) : g <= m}) = 1
  BY <1>4, FS_Singleton
<1>6. m \in s
  BY <1>2, <1>5
<1>7. s # {} /\ s \subseteq Nat
  BY <1>1, <1>6
<1>8. Min(s) \in s
  BY <1>7, MinIsIn
<1>9. LowestFree(o, 1) = Min(s)
  BY <1>7 DEF LowestFree
<1>10. Min(s) \in Fds
  BY <1>8, FreeIsFree
<1> QED BY <1>9, <1>10, FdsAreNats

LEMMA OnlyFree ==
    ASSUME NEW o, NEW x, FreeFds(o) = {x}
    PROVE  LowestFree(o, 1) = x
<1>1. LowestFree(o, 1) # 0
  BY FirstFree
<1>2. LowestFree(o, 1) \in FreeFds(o)
  BY <1>1, LowestFreeIs DEF FreeFds
<1> QED BY <1>2

\* The two sockets of a channel are two free descriptors.
LEMMA TwoFree ==
    ASSUME NEW o, LowestFree(o, 2) # 0
    PROVE  /\ LowestFree(o, 1) \in Fds /\ o[LowestFree(o, 1)] = Free
           /\ LowestFree(o, 2) \in Fds /\ o[LowestFree(o, 2)] = Free
           /\ LowestFree(o, 1) # LowestFree(o, 2)
<1>1. /\ LowestFree(o, 2) \in Fds /\ o[LowestFree(o, 2)] = Free
      /\ Cardinality({g \in FreeFds(o) : g <= LowestFree(o, 2)}) = 2
  BY LowestFreeIs
<1>2. FreeFds(o) # {}
  BY <1>1 DEF FreeFds
<1>3. /\ LowestFree(o, 1) \in Fds /\ o[LowestFree(o, 1)] = Free
      /\ Cardinality({g \in FreeFds(o) : g <= LowestFree(o, 1)}) = 1
  BY <1>2, FirstFree, LowestFreeIs
<1>4. LowestFree(o, 1) # LowestFree(o, 2)
  BY <1>1, <1>3
<1> QED BY <1>1, <1>3, <1>4

LEMMA CloseIs ==
    ASSUME NEW o, NEW S
    PROVE  /\ DOMAIN Close(o, S) = Fds
           /\ \A f \in Fds : Close(o, S)[f] = IF f \in S THEN Free ELSE o[f]
BY DEF Close

LEMMA InFdsOf ==
    ASSUME NEW r, NEW f
    PROVE  f \in FdsOf(r) <=> \E n \in Channels : f = r.ch[n].rtpfd \/ f = r.ch[n].rtcpfd
BY DEF FdsOf

LEMMA TheFunctions ==
    /\ \A c : RtpFds(c) = FdsOf(rtp[c])
    /\ \A c : HasRtsp(c) <=> Rtsp(conn[c])
    /\ \A c : HasTcp(c) <=> Tcp(conn[c])
<1>1. \A c : RtpFds(c) = FdsOf(rtp[c])
  BY Zenon DEF RtpFds, FdsOf
<1>2. \A c : HasRtsp(c) <=> Rtsp(conn[c])
  BY DEF HasRtsp, Rtsp
<1>3. \A c : HasTcp(c) <=> Tcp(conn[c])
  BY DEF HasTcp, HasRtsp, Tcp
<1> QED BY <1>1, <1>2, <1>3

-----------------------------------------------------------------------------
(* Records                                                                 *)

LEMMA ChannelNumbers == 0 \in Channels /\ 1 \in Channels
BY DEF Channels

LEMMA NewRequestShape == ReqShape(NewRequest)
BY ChannelNumbers, Zenon DEF ReqShape, NewRequest

LEMMA ResetShape ==
    ASSUME NEW q, ReqShape(q)
    PROVE  ReqShape(Reset(q))
BY Zenon DEF ReqShape, Reset

LEMMA SetField ==
    ASSUME NEW q, ReqShape(q), NEW x, NEW y, NEW z
    PROVE  /\ ReqShape([q EXCEPT !.method = x]) /\ ReqShape([q EXCEPT !.transport = x])
           /\ ReqShape([q EXCEPT !.state = x])
           /\ ReqShape([q EXCEPT !.method = x, !.arg = y, !.state = z])
           /\ ReqShape([q EXCEPT !.cseq = x, !.hasCSeq = TRUE])
           /\ x \in Channels => ReqShape([q EXCEPT !.channel = x, !.state = "kGotAll"])
<1>1. ReqShape([q EXCEPT !.method = x])
  BY Zenon DEF ReqShape
<1>2. ReqShape([q EXCEPT !.transport = x])
  BY Zenon DEF ReqShape
<1>3. ReqShape([q EXCEPT !.state = x])
  BY Zenon DEF ReqShape
<1>4. ReqShape([q EXCEPT !.method = x, !.arg = y, !.state = z])
  BY Zenon DEF ReqShape
<1>5. ReqShape([q EXCEPT !.cseq = x, !.hasCSeq = TRUE])
  BY Zenon DEF ReqShape
<1>6. ASSUME x \in Channels PROVE ReqShape([q EXCEPT !.channel = x, !.state = "kGotAll"])
  BY <1>6, Zenon DEF ReqShape
<1> QED BY <1>1, <1>2, <1>3, <1>4, <1>5, <1>6, Zenon

LEMMA RequestLineShape ==
    ASSUME NEW q, ReqShape(q), NEW text
    PROVE  ReqShape(ParseRequestLine(q, text).q)
BY SetField, Zenon DEF ParseRequestLine

LEMMA CSeqShape ==
    ASSUME NEW q, ReqShape(q), NEW text
    PROVE  ReqShape(ParseCSeq(q, text))
BY SetField, Zenon DEF ParseCSeq

LEMMA TransportShape ==
    ASSUME NEW q, ReqShape(q), NEW text
    PROVE  ReqShape(ParseTransport(q, text).q)
BY SetField, Zenon DEF ParseTransport

LEMMA MediaChannel == \A arg : ParseMediaChannel(arg) \in Channels
BY ChannelNumbers, Zenon DEF ParseMediaChannel

LEMMA HeadersLineShape ==
    ASSUME NEW q0, ReqShape(q0), NEW text
    PROVE  ReqShape(ParseHeadersLine(q0, text).q)
<1> DEFINE q == ParseCSeq(q0, text)
           t == ParseTransport(q, text)
           done == [q EXCEPT !.state = "kGotAll"]
           got == [t.q EXCEPT !.channel = ParseMediaChannel(q.arg), !.state = "kGotAll"]
<1>1. ReqShape(q)
  BY CSeqShape
<1>2. ParseHeadersLine(q0, text).q \in {q, t.q, done, got}
  BY Zenon DEF ParseHeadersLine
<1> HIDE DEF q
<1>3. ReqShape(t.q)
  BY <1>1, TransportShape
<1> HIDE DEF t
<1>4. ReqShape(done)
  BY <1>1, SetField, Zenon
<1>5. ReqShape(got)
  BY <1>3, MediaChannel, SetField, Zenon
<1> HIDE DEF done, got
<1> QED BY <1>1, <1>2, <1>3, <1>4, <1>5, Zenon

LEMMA ParsedRequest ==
    ASSUME NEW p, NEW ok, NEW q, NEW buf, p = [ok |-> ok, q |-> q, buf |-> buf], ReqShape(q)
    PROVE  ReqShape(p.q)
<1>1. p.q = q
  OBVIOUS
<1> QED BY <1>1, Zenon

LEMMA ParseShape ==
    ASSUME NEW q, ReqShape(q), NEW buf
    PROVE  ReqShape(ParseRequest(q, buf).q)
<1> DEFINE first == FindCRLF(buf)
           line == IF q.state = "kParseRequestLine" /\ first > 0
                   THEN ParseRequestLine(q, SubSeq(buf, 1, first - 1))
                   ELSE [ok |-> TRUE, q |-> q]
           rest == IF q.state = "kParseRequestLine" /\ first > 0
                   THEN SubSeq(buf, first + 1, Len(buf)) ELSE buf
           last == FindLastCRLF(rest)
           h == ParseHeadersLine(line.q, SubSeq(rest, 1, last - 1))
<1>1. ReqShape(line.q)
  <2>1. ReqShape(ParseRequestLine(q, SubSeq(buf, 1, first - 1)).q)
    BY RequestLineShape
  <2>2. CASE q.state = "kParseRequestLine" /\ first > 0
    BY <2>1, <2>2, Zenon
  <2>3. CASE ~(q.state = "kParseRequestLine" /\ first > 0)
    BY <2>3, Zenon
  <2> QED BY <2>2, <2>3
<1>2. ReqShape(h.q)
  <2> DEFINE lq == line.q
             text == SubSeq(rest, 1, last - 1)
  <2> HIDE DEF line, rest, last
  <2>1. ReqShape(lq)
    BY <1>1
  <2> HIDE DEF lq, text
  <2>2. ReqShape(ParseHeadersLine(lq, text).q)
    BY <2>1, HeadersLineShape, Zenon
  <2> QED BY <2>2, Zenon DEF lq, text
<1>3. ReqShape([q EXCEPT !.method = "RTCP"])
  BY SetField, Zenon
<1>4. CASE buf[1][1] = "rtcp"
  <2>1. ParseRequest(q, buf) = [ok |-> TRUE, q |-> [q EXCEPT !.method = "RTCP"], buf |-> buf]
    BY <1>4, Zenon DEF ParseRequest
  <2> QED BY <1>3, <2>1, ParsedRequest
<1>5. CASE buf[1][1] # "rtcp" /\ line.q.state = "kParseHeadersLine" /\ last > 0
  <2>1. ParseRequest(q, buf) = [ok |-> h.ok, q |-> h.q, buf |-> SubSeq(rest, last + 1, Len(rest))]
    BY <1>5, Zenon DEF ParseRequest
  <2> HIDE DEF h, rest, last
  <2> QED BY <1>2, <2>1, ParsedRequest
<1>6. CASE buf[1][1] # "rtcp" /\ ~(line.q.state = "kParseHeadersLine" /\ last > 0)
  <2>1. ParseRequest(q, buf) = [ok |-> line.ok, q |-> line.q, buf |-> rest]
    BY <1>6, Zenon DEF ParseRequest
  <2> HIDE DEF line, rest
  <2> QED BY <1>1, <2>1, ParsedRequest
<1> QED BY <1>4, <1>5, <1>6

\* The fields of the records that the steps write.
LEMMA NoConnShape ==
    ASSUME NEW x
    PROVE  /\ ConnShape(NoConn) /\ ~Tcp(NoConn) /\ NoConn.sess = 0 /\ NoConn.fd = 0
           /\ \A s : [NoConn EXCEPT !.st = s, !.fd = x].st = s
           /\ \A s : [NoConn EXCEPT !.st = s, !.fd = x].fd = x
           /\ \A s : [NoConn EXCEPT !.st = s, !.fd = x].sess = 0
           /\ ConnShape([NoConn EXCEPT !.st = "kConnected", !.fd = x])
           /\ ConnShape([NoConn EXCEPT !.st = "kDisconnected", !.fd = x])
           /\ ConnShape([NoConn EXCEPT !.st = "gone"]) /\ ~Tcp([NoConn EXCEPT !.st = "gone"])
           /\ [NoConn EXCEPT !.st = "gone"].fd = 0
<1>1. /\ {"st", "fd", "buf", "req", "sess"} \subseteq DOMAIN NoConn /\ NoConn.req = NewRequest
      /\ NoConn.sess = 0 /\ NoConn.fd = 0 /\ NoConn.st = "none"
  BY DEF NoConn
<1>2. ASSUME NEW s
      PROVE  LET r == [NoConn EXCEPT !.st = s, !.fd = x]
             IN /\ {"st", "fd", "buf", "req", "sess"} \subseteq DOMAIN r /\ r.req = NewRequest
                /\ r.sess = 0 /\ r.fd = x /\ r.st = s
  BY <1>1, Zenon
<1>3. LET r == [NoConn EXCEPT !.st = "gone"]
      IN /\ {"st", "fd", "buf", "req", "sess"} \subseteq DOMAIN r /\ r.req = NewRequest
         /\ r.sess = 0 /\ r.fd = 0 /\ r.st = "gone"
  BY <1>1, Zenon
<1>4. ConnShape(NoConn) /\ ~Tcp(NoConn)
  BY <1>1, NewRequestShape DEF ConnShape, Tcp
<1>5. ASSUME NEW r, {"st", "fd", "buf", "req", "sess"} \subseteq DOMAIN r, r.req = NewRequest,
             Tcp(r) \/ r.fd = 0
      PROVE  ConnShape(r)
  BY <1>5, NewRequestShape, Zenon DEF ConnShape
<1>6. ConnShape([NoConn EXCEPT !.st = "kConnected", !.fd = x])
  <2>1. Tcp([NoConn EXCEPT !.st = "kConnected", !.fd = x])
    BY <1>2, Zenon DEF Tcp
  <2> QED BY <1>2, <1>5, <2>1, Zenon
<1>7. ConnShape([NoConn EXCEPT !.st = "kDisconnected", !.fd = x])
  <2>1. Tcp([NoConn EXCEPT !.st = "kDisconnected", !.fd = x])
    BY <1>2, Zenon DEF Tcp
  <2> QED BY <1>2, <1>5, <2>1, Zenon
<1>8. ConnShape([NoConn EXCEPT !.st = "gone"])
  BY <1>3, <1>5, Zenon
<1>9. ~Tcp([NoConn EXCEPT !.st = "gone"])
  <2>1. [NoConn EXCEPT !.st = "gone"].st \notin {"kConnected", "kDisconnecting", "kDisconnected"}
    <3>1. [NoConn EXCEPT !.st = "gone"].st = "gone"
      BY <1>3, Zenon
    <3> DEFINE v == [NoConn EXCEPT !.st = "gone"].st
    <3>2. v = "gone"
      BY <3>1
    <3> HIDE DEF v
    <3>3. v \notin {"kConnected", "kDisconnecting", "kDisconnected"}
      BY <3>2
    <3> QED BY <3>3 DEF v
  <2> QED BY <2>1, Zenon DEF Tcp
<1> QED BY <1>1, <1>2, <1>3, <1>4, <1>6, <1>7, <1>8, <1>9, Zenon

LEMMA PutConn ==
    ASSUME ConnTyped, NEW c \in Conns, NEW x, conn' = [conn EXCEPT ![c] = x]
    PROVE  /\ DOMAIN conn' = Conns /\ conn'[c] = x
           /\ \A d \in Conns : d # c => conn'[d] = conn[d]
           /\ ConnShape(x) => ConnTyped'
<1>1. DOMAIN conn' = Conns /\ conn'[c] = x
  BY Zenon DEF ConnTyped
<1>2. \A d \in Conns : d # c => conn'[d] = conn[d]
  BY Zenon DEF ConnTyped
<1>3. ASSUME ConnShape(x) PROVE ConnTyped'
  BY <1>1, <1>2, <1>3, Zenon DEF ConnTyped
<1> QED BY <1>1, <1>2, <1>3

LEMMA PutRtp ==
    ASSUME RtpTyped, NEW c \in Conns, NEW x, rtp' = [rtp EXCEPT ![c] = x]
    PROVE  /\ DOMAIN rtp' = Conns /\ rtp'[c] = x
           /\ \A d \in Conns : d # c => rtp'[d] = rtp[d]
           /\ RtpShape(x) => RtpTyped'
<1>1. DOMAIN rtp' = Conns /\ rtp'[c] = x
  BY Zenon DEF RtpTyped
<1>2. \A d \in Conns : d # c => rtp'[d] = rtp[d]
  BY Zenon DEF RtpTyped
<1>3. ASSUME RtpShape(x) PROVE RtpTyped'
  BY <1>1, <1>2, <1>3, Zenon DEF RtpTyped
<1> QED BY <1>1, <1>2, <1>3

\* Two RtpConnections that own the same descriptors.
Alike(r, s) ==
  /\ s.alive = r.alive
  /\ \A n \in Channels : /\ s.ch[n].setup = r.ch[n].setup
                         /\ s.ch[n].rtpfd = r.ch[n].rtpfd /\ s.ch[n].rtcpfd = r.ch[n].rtcpfd

LEMMA AlikeOwn ==
    ASSUME NEW r, NEW s, Alike(r, s)
    PROVE  FdsOf(s) = FdsOf(r) /\ (FreshRtp(r) => FreshRtp(s))
<1>1. \A f : f \in FdsOf(s) <=> f \in FdsOf(r)
  BY InFdsOf DEF Alike
<1>2. FdsOf(s) = FdsOf(r)
  BY <1>1
<1>3. FreshRtp(r) => FreshRtp(s)
  BY Zenon DEF FreshRtp, Alike
<1> QED BY <1>2, <1>3

LEMMA AlikeShape ==
    ASSUME NEW r, RtpShape(r), NEW s, Alike(r, s),
           {"alive", "closed", "idr", "mode", "ch"} \subseteq DOMAIN s,
           DOMAIN s.ch = Channels, \A n \in Channels : ChannelShape(s.ch[n])
    PROVE  RtpShape(s)
<1>1. FdsOf(s) = FdsOf(r) /\ s.alive = r.alive
  BY AlikeOwn DEF Alike
<1> QED BY <1>1, Zenon DEF RtpShape

LEMMA StartPlayAlike ==
    ASSUME NEW r, RtpShape(r)
    PROVE  RtpShape(StartPlay(r)) /\ Alike(r, StartPlay(r))
<1> DEFINE g == [n \in Channels |-> [r.ch[n] EXCEPT !.play = @ \/ r.ch[n].setup]]
           s == StartPlay(r)
<1>1. /\ \A n \in Channels : ChannelShape(r.ch[n])
      /\ {"alive", "closed", "idr", "mode", "ch"} \subseteq DOMAIN r
  BY Zenon DEF RtpShape
<1>2. DOMAIN s = DOMAIN r /\ s.alive = r.alive /\ s.ch = g
  BY <1>1, Zenon DEF StartPlay
<1>3. DOMAIN g = Channels
  OBVIOUS
<1>4. ASSUME NEW n \in Channels
      PROVE  /\ ChannelShape(g[n]) /\ g[n].setup = r.ch[n].setup
             /\ g[n].rtpfd = r.ch[n].rtpfd /\ g[n].rtcpfd = r.ch[n].rtcpfd
  <2>1. ChannelShape(r.ch[n])
    BY <1>1
  <2> QED BY <2>1, Zenon DEF ChannelShape
<1> HIDE DEF g, s
<1>5. Alike(r, s)
  BY <1>2, <1>4, Zenon DEF Alike
<1>6. RtpShape(s)
  BY <1>1, <1>2, <1>3, <1>4, <1>5, AlikeShape, Zenon
<1> QED BY <1>5, <1>6 DEF s

LEMMA TeardownAlike ==
    ASSUME NEW r, RtpShape(r)
    PROVE  RtpShape(Teardown(r)) /\ Alike(r, Teardown(r))
<1> DEFINE g == [n \in Channels |-> [r.ch[n] EXCEPT !.play = FALSE]]
           s == [r EXCEPT !.closed = TRUE, !.ch = g]
<1>1. /\ \A n \in Channels : ChannelShape(r.ch[n])
      /\ {"alive", "closed", "idr", "mode", "ch"} \subseteq DOMAIN r
  BY Zenon DEF RtpShape
<1>2. DOMAIN s = DOMAIN r /\ s.alive = r.alive /\ s.ch = g
  BY <1>1, Zenon
<1>3. DOMAIN g = Channels
  OBVIOUS
<1>4. ASSUME NEW n \in Channels
      PROVE  /\ ChannelShape(g[n]) /\ g[n].setup = r.ch[n].setup
             /\ g[n].rtpfd = r.ch[n].rtpfd /\ g[n].rtcpfd = r.ch[n].rtcpfd
  <2>1. ChannelShape(r.ch[n])
    BY <1>1
  <2> QED BY <2>1, Zenon DEF ChannelShape
<1>7. Teardown(r) = r \/ Teardown(r) = s
  BY Zenon DEF Teardown
<1> HIDE DEF g, s
<1>5. Alike(r, s)
  BY <1>2, <1>4, Zenon DEF Alike
<1>6. RtpShape(s)
  BY <1>1, <1>2, <1>3, <1>4, <1>5, AlikeShape, Zenon
<1>8. Alike(r, r)
  BY DEF Alike
<1> QED BY <1>5, <1>6, <1>7, <1>8, Zenon

LEMMA SetRtpHeaderAlike ==
    ASSUME NEW r, RtpShape(r)
    PROVE  RtpShape(SetRtpHeader(r)) /\ Alike(r, SetRtpHeader(r))
<1> DEFINE x == IF r.ch[0].play THEN (r.ch[0].seq + 1) % SeqModulus ELSE r.ch[0].seq
           h == [r.ch[0] EXCEPT !.seq = x]
           g == [r.ch EXCEPT ![0] = h]
           s == SetRtpHeader(r)
<1>1. /\ \A n \in Channels : ChannelShape(r.ch[n])
      /\ {"alive", "closed", "idr", "mode", "ch"} \subseteq DOMAIN r
      /\ DOMAIN r.ch = Channels /\ 0 \in Channels
  BY ChannelNumbers, Zenon DEF RtpShape
<1>2. DOMAIN s = DOMAIN r /\ s.alive = r.alive /\ s.ch = g
  BY <1>1, Zenon DEF SetRtpHeader
<1>3. DOMAIN g = Channels /\ g[0] = h /\ \A n \in Channels : n # 0 => g[n] = r.ch[n]
  BY <1>1, Zenon
<1>8. x \in Nat
  <2>1. r.ch[0].seq \in Nat
    BY <1>1, Zenon DEF ChannelShape
  <2>2. (r.ch[0].seq + 1) % SeqModulus \in Nat
    BY <2>1, RtspAssumption
  <2> QED BY <2>1, <2>2
<1> HIDE DEF x
<1>4. /\ ChannelShape(h) /\ h.setup = r.ch[0].setup
      /\ h.rtpfd = r.ch[0].rtpfd /\ h.rtcpfd = r.ch[0].rtcpfd
  BY <1>1, <1>8, Zenon DEF ChannelShape
<1> HIDE DEF g, s, h
<1>5. ASSUME NEW n \in Channels
      PROVE  /\ ChannelShape(g[n]) /\ g[n].setup = r.ch[n].setup
             /\ g[n].rtpfd = r.ch[n].rtpfd /\ g[n].rtcpfd = r.ch[n].rtcpfd
  <2>1. CASE n = 0
    BY <1>3, <1>4, <2>1, Zenon
  <2>2. CASE n # 0
    BY <1>1, <1>3, <2>2, Zenon
  <2> QED BY <2>1, <2>2
<1>6. Alike(r, s)
  BY <1>2, <1>5, Zenon DEF Alike
<1>7. RtpShape(s)
  BY <1>1, <1>2, <1>3, <1>5, <1>6, AlikeShape, Zenon
<1> QED BY <1>6, <1>7 DEF s

\* A new RtpConnection, and a dead one, hold no descriptor.
LEMMA NewRtpShape ==
    /\ RtpShape(NewRtp) /\ NewRtp.alive /\ FdsOf(NewRtp) = {0} /\ FreshRtp(NewRtp)
    /\ RtpShape(DeadRtp) /\ ~DeadRtp.alive /\ FdsOf(DeadRtp) = {0} /\ FreshRtp(DeadRtp)
<1>1. ChannelShape(NoChannel) /\ NoChannel.rtpfd = 0 /\ NoChannel.rtcpfd = 0
  BY RtspAssumption DEF ChannelShape, NoChannel
<1> DEFINE g == [n \in Channels |-> NoChannel]
<1>2. ASSUME NEW r, r.ch = g
      PROVE  /\ DOMAIN r.ch = Channels /\ \A n \in Channels : ChannelShape(r.ch[n])
             /\ FdsOf(r) = {0} /\ FreshRtp(r)
  <2>1. DOMAIN r.ch = Channels /\ \A n \in Channels : r.ch[n] = NoChannel
    BY <1>2, Zenon
  <2>2. \A f : f \in FdsOf(r) <=> f = 0
    BY <1>1, <2>1, InFdsOf, ChannelNumbers
  <2>3. FreshRtp(r)
    BY <1>1, <2>1, Zenon DEF FreshRtp
  <2> QED BY <1>1, <2>1, <2>2, <2>3
<1>3. /\ {"alive", "closed", "idr", "mode", "ch"} \subseteq DOMAIN NewRtp
      /\ NewRtp.alive = TRUE /\ NewRtp.ch = g
  BY DEF NewRtp
<1>4. /\ {"alive", "closed", "idr", "mode", "ch"} \subseteq DOMAIN DeadRtp
      /\ DeadRtp.alive = FALSE /\ DeadRtp.ch = g
  BY <1>3, Zenon DEF DeadRtp
<1> HIDE DEF g
<1>5. RtpShape(NewRtp) /\ FdsOf(NewRtp) = {0} /\ FreshRtp(NewRtp)
  BY <1>2, <1>3, Zenon DEF RtpShape
<1>6. RtpShape(DeadRtp) /\ FdsOf(DeadRtp) = {0} /\ FreshRtp(DeadRtp)
  BY <1>2, <1>4, Zenon DEF RtpShape
<1> QED BY <1>3, <1>4, <1>5, <1>6

-----------------------------------------------------------------------------
(* Ownership                                                               *)

\* The step leaves every descriptor with its owner.
SameConns == \A d \in Conns : (Tcp(conn'[d]) <=> Tcp(conn[d])) /\ conn'[d].fd = conn[d].fd
SameRtps ==
  \A d \in Conns : /\ \A f \in Fds : Holds(d, f)' <=> Holds(d, f)
                   /\ FreshRtp(rtp[d]) => FreshRtp(rtp'[d])

LEMMA SameSocks ==
    ASSUME SameConns
    PROVE  \A d \in Conns, f \in Fds : Sock(d, f)' <=> Sock(d, f)
BY Zenon DEF SameConns, Sock

LEMMA AlikeSame ==
    ASSUME \A d \in Conns : Alike(rtp[d], rtp'[d])
    PROVE  SameRtps /\ \A d \in Conns : rtp[d].alive => rtp'[d].alive
<1>1. ASSUME NEW d \in Conns
      PROVE  /\ \A f \in Fds : Holds(d, f)' <=> Holds(d, f)
             /\ FreshRtp(rtp[d]) => FreshRtp(rtp'[d])
             /\ rtp[d].alive => rtp'[d].alive
  <2>1. FdsOf(rtp'[d]) = FdsOf(rtp[d]) /\ (FreshRtp(rtp[d]) => FreshRtp(rtp'[d]))
    BY AlikeOwn
  <2>2. rtp'[d].alive = rtp[d].alive
    BY Zenon DEF Alike
  <2> QED BY <2>1, <2>2, Zenon DEF Holds
<1> QED BY <1>1, Zenon DEF SameRtps

LEMMA AlikePut ==
    ASSUME RtpTyped, NEW c \in Conns, NEW x, RtpShape(x), Alike(rtp[c], x), rtp' = [rtp EXCEPT ![c] = x]
    PROVE  RtpTyped' /\ SameRtps /\ \A d \in Conns : rtp[d].alive => rtp'[d].alive
<1>1. RtpTyped' /\ rtp'[c] = x /\ \A d \in Conns : d # c => rtp'[d] = rtp[d]
  BY PutRtp
<1>2. ASSUME NEW d \in Conns PROVE Alike(rtp[d], rtp'[d])
  <2>1. CASE d = c
    BY <1>1, <2>1, Zenon
  <2>2. CASE d # c
    <3>1. rtp'[d] = rtp[d]
      BY <1>1, <2>2
    <3> QED BY <3>1, Zenon DEF Alike
  <2> QED BY <2>1, <2>2
<1> QED BY <1>1, <1>2, AlikeSame, Zenon

LEMMA RtpUnchanged ==
    ASSUME RtpTyped, rtp' = rtp
    PROVE  RtpTyped' /\ SameRtps /\ \A d \in Conns : rtp[d].alive => rtp'[d].alive
<1>1. \A d \in Conns : Alike(rtp[d], rtp'[d])
  BY Zenon DEF Alike
<1>2. RtpTyped'
  BY Zenon DEF RtpTyped
<1> QED BY <1>1, <1>2, AlikeSame, Zenon

LEMMA ConnUnchanged ==
    ASSUME ConnTyped, conn' = conn
    PROVE  ConnTyped' /\ SameConns
BY Zenon DEF ConnTyped, SameConns

LEMMA OwnedKept ==
    ASSUME Owned, \A f \in Fds : owner'[f] = owner[f], idleFd' = idleFd, SameConns, SameRtps
    PROVE  Owned'
<1> SUFFICES ASSUME NEW f \in Fds
             PROVE  /\ owner'[f] = <<"idle", 0>> <=> f = idleFd'
                    /\ \A c \in Conns : owner'[f] = <<"conn", c>> <=> Sock(c, f)'
                    /\ \A c \in Conns : owner'[f] = <<"rtp", c>> <=> Holds(c, f)'
  BY Zenon DEF Owned
<1>1. /\ owner[f] = <<"idle", 0>> <=> f = idleFd
      /\ \A c \in Conns : owner[f] = <<"conn", c>> <=> Sock(c, f)
      /\ \A c \in Conns : owner[f] = <<"rtp", c>> <=> Holds(c, f)
  BY Zenon DEF Owned
<1>2. \A c \in Conns : (Sock(c, f)' <=> Sock(c, f)) /\ (Holds(c, f)' <=> Holds(c, f))
  BY SameSocks, Zenon DEF SameRtps
<1> QED BY <1>1, <1>2, Zenon

\* Closing descriptors of objects that go leaves the others with theirs.
LEMMA OwnedClose ==
    ASSUME Owned, NEW S, idleFd \notin S, idleFd' = idleFd, owner' = Close(owner, S),
           \A c \in Conns, f \in Fds : Sock(c, f)' <=> Sock(c, f) /\ f \notin S,
           \A c \in Conns, f \in Fds : Holds(c, f)' <=> Holds(c, f) /\ f \notin S
    PROVE  Owned'
<1> SUFFICES ASSUME NEW f \in Fds
             PROVE  /\ owner'[f] = <<"idle", 0>> <=> f = idleFd'
                    /\ \A c \in Conns : owner'[f] = <<"conn", c>> <=> Sock(c, f)'
                    /\ \A c \in Conns : owner'[f] = <<"rtp", c>> <=> Holds(c, f)'
  BY Zenon DEF Owned
<1>1. /\ owner[f] = <<"idle", 0>> <=> f = idleFd
      /\ \A c \in Conns : owner[f] = <<"conn", c>> <=> Sock(c, f)
      /\ \A c \in Conns : owner[f] = <<"rtp", c>> <=> Holds(c, f)
  BY Zenon DEF Owned
<1>2. owner'[f] = IF f \in S THEN <<"free", 0>> ELSE owner[f]
  BY CloseIs DEF Free
<1>3. CASE f \in S
  <2>1. owner'[f] = <<"free", 0>>
    BY <1>2, <1>3
  <2>2. /\ <<"free", 0>> # <<"idle", 0>>
        /\ \A c \in Conns : <<"free", 0>> # <<"conn", c>> /\ <<"free", 0>> # <<"rtp", c>>
    OBVIOUS
  <2> QED BY <1>3, <2>1, <2>2, Zenon
<1>4. CASE f \notin S
  BY <1>1, <1>2, <1>4, Zenon
<1> QED BY <1>3, <1>4

\* Opening free descriptors for one connection or one RtpConnection.
LEMMA OwnedOpen ==
    ASSUME Owned, NEW S, \A f \in Fds : f \in S => owner[f] = Free, idleFd' = idleFd,
           NEW k \in {"conn", "rtp"}, NEW b \in Conns,
           \A f \in Fds : owner'[f] = IF f \in S THEN <<k, b>> ELSE owner[f],
           \A c \in Conns, f \in Fds : Sock(c, f)' <=> Sock(c, f) \/ (k = "conn" /\ c = b /\ f \in S),
           \A c \in Conns, f \in Fds : Holds(c, f)' <=> Holds(c, f) \/ (k = "rtp" /\ c = b /\ f \in S)
    PROVE  Owned'
<1> SUFFICES ASSUME NEW f \in Fds
             PROVE  /\ owner'[f] = <<"idle", 0>> <=> f = idleFd'
                    /\ \A c \in Conns : owner'[f] = <<"conn", c>> <=> Sock(c, f)'
                    /\ \A c \in Conns : owner'[f] = <<"rtp", c>> <=> Holds(c, f)'
  BY Zenon DEF Owned
<1>1. /\ owner[f] = <<"idle", 0>> <=> f = idleFd
      /\ \A c \in Conns : owner[f] = <<"conn", c>> <=> Sock(c, f)
      /\ \A c \in Conns : owner[f] = <<"rtp", c>> <=> Holds(c, f)
  BY Zenon DEF Owned
<1>2. CASE f \in S
  <2>1. owner[f] = <<"free", 0>> /\ owner'[f] = <<k, b>>
    BY <1>2 DEF Free
  <2>2. f # idleFd /\ \A c \in Conns : ~Sock(c, f) /\ ~Holds(c, f)
    BY <1>1, <2>1
  <2>3. \A c \in Conns : (Sock(c, f)' <=> k = "conn" /\ c = b) /\ (Holds(c, f)' <=> k = "rtp" /\ c = b)
    BY <1>2, <2>2, Zenon
  <2>4. /\ <<k, b>> # <<"idle", 0>>
        /\ \A c \in Conns : /\ <<k, b>> = <<"conn", c>> <=> k = "conn" /\ c = b
                            /\ <<k, b>> = <<"rtp", c>> <=> k = "rtp" /\ c = b
    OBVIOUS
  <2> QED BY <2>1, <2>2, <2>3, <2>4, Zenon
<1>3. CASE f \notin S
  BY <1>1, <1>3, Zenon
<1> QED BY <1>2, <1>3

\* A step that opens and closes nothing.
LEMMA Mild ==
    ASSUME Inv, fault = "none", fault' # "epoll_assert",
           UNCHANGED <<owner, idleFd, clean>>, SameConns, SameRtps,
           ConnTyped', RtpTyped', LoopTyped', SenderTyped', ClientsTyped', Described'
    PROVE  Inv'
<1>1. Typed' /\ Described' /\ NoEpollAssert'
  BY Zenon DEF Inv, Typed, NoEpollAssert
<1>2. OwnInv'
  <2> SUFFICES ASSUME clean' PROVE idleFd' \in Fds /\ Owned' /\ Fresh'
    BY Zenon DEF OwnInv
  <2>1. idleFd \in Fds /\ Owned /\ Fresh
    BY Zenon DEF Inv, OwnInv
  <2>2. Fresh'
    BY <2>1, Zenon DEF Fresh, SameRtps
  <2>3. Owned'
    BY <2>1, OwnedKept, Zenon
  <2> QED BY <2>1, <2>2, <2>3, Zenon
<1> QED BY <1>1, <1>2 DEF Inv

-----------------------------------------------------------------------------
(* The acceptor                                                            *)

LEMMA StepAccept ==
    ASSUME Inv, NEW c \in Conns, Accept(c)
    PROVE  Inv'
<1> DEFINE fd == LowestFree(owner, 1)
           new == [NoConn EXCEPT !.st = "kConnected", !.fd = fd]
           known == \E d \in Conns : HasTcp(d) /\ conn[d].fd = fd
<1>1. fault = "none" /\ fd # 0 /\ ConnTyped /\ DOMAIN owner = Fds
  BY Zenon DEF Inv, Typed, Accept, InEvents
<1>2. fd \in Fds /\ owner[fd] = Free
  BY <1>1, LowestFreeIs
<1>3. /\ UNCHANGED <<idleFd, rtp, clients, phase, queue, batch, sender, clean>>
      /\ known => fault' = "epoll_assert" /\ UNCHANGED <<owner, conn>>
      /\ ~known => /\ owner' = [owner EXCEPT ![fd] = <<"conn", c>>]
                   /\ conn' = [conn EXCEPT ![c] = new] /\ fault' = fault
  BY Zenon DEF Accept, loopVars
<1>4. RtpTyped' /\ SameRtps /\ LoopTyped' /\ SenderTyped' /\ ClientsTyped'
  <2>1. RtpTyped' /\ SameRtps
    BY <1>3, RtpUnchanged DEF Inv, Typed
  <2>2. LoopTyped'
    BY <1>3, Zenon DEF Inv, Typed, LoopTyped
  <2>3. SenderTyped' /\ ClientsTyped'
    BY <1>3, Zenon DEF Inv, Typed, SenderTyped, ClientsTyped
  <2> QED BY <2>1, <2>2, <2>3
<1>5. conn[c].st = "none" /\ ~Tcp(conn[c])
  BY DEF Accept, Tcp
<1>6. clean => ~known
  <2> SUFFICES ASSUME clean, NEW d \in Conns, HasTcp(d), conn[d].fd = fd PROVE FALSE
    OBVIOUS
  <2>1. Owned
    BY <1>1, Zenon DEF Inv, OwnInv
  <2>2. Sock(d, fd)
    BY TheFunctions, Zenon DEF Sock
  <2>3. owner[fd] = <<"conn", d>>
    BY <1>2, <2>1, <2>2, Zenon DEF Owned
  <2> QED BY <1>2, <2>3 DEF Free
<1> HIDE DEF fd, new, known
<1>7. CASE known
  <2>1. ConnTyped' /\ DOMAIN owner' = Fds /\ ~clean' /\ UNCHANGED <<conn, rtp>>
    BY <1>1, <1>3, <1>6, <1>7, Zenon DEF ConnTyped
  <2>2. Described'
    BY <2>1, Zenon DEF Inv, Described
  <2> QED BY <1>4, <2>1, <2>2, Zenon DEF Inv, Typed, OwnInv, NoEpollAssert
<1>8. CASE ~known
  <2>1. /\ owner' = [owner EXCEPT ![fd] = <<"conn", c>>]
        /\ conn' = [conn EXCEPT ![c] = new] /\ fault' = "none"
    BY <1>1, <1>3, <1>8, Zenon
  <2>2. /\ DOMAIN owner' = Fds
        /\ \A f \in Fds : owner'[f] = IF f \in {fd} THEN <<"conn", c>> ELSE owner[f]
    BY <1>1, <1>2, <2>1
  <2>3. ConnShape(new) /\ new.st = "kConnected" /\ new.fd = fd /\ new.sess = 0
    BY NoConnShape, Zenon DEF new
  <2>4. ConnTyped' /\ conn'[c] = new /\ \A d \in Conns : d # c => conn'[d] = conn[d]
    BY <1>1, <2>1, <2>3, PutConn, Zenon
  <2>5. Described'
    <3> SUFFICES ASSUME NEW d \in Conns, Rtsp(conn'[d]), conn'[d].sess = SessionId PROVE rtp'[d].alive
      BY Zenon DEF Described
    <3>1. d # c
      BY <2>3, <2>4 DEF SessionId
    <3>2. conn'[d] = conn[d] /\ rtp' = rtp
      BY <1>3, <2>4, <3>1
    <3> QED BY <3>2, Zenon DEF Inv, Described
  <2>6. OwnInv'
    <3> SUFFICES ASSUME clean' PROVE idleFd' \in Fds /\ Owned' /\ Fresh'
      BY Zenon DEF OwnInv
    <3>1. idleFd \in Fds /\ Owned /\ Fresh
      BY <1>1, <1>3, Zenon DEF Inv, OwnInv
    <3>2. Fresh' /\ idleFd' \in Fds
      BY <1>3, <3>1, Zenon DEF Fresh
    <3>3. Tcp(new)
      BY <2>3, Zenon DEF Tcp
    <3>4. ASSUME NEW d \in Conns, NEW f \in Fds
          PROVE  Sock(d, f)' <=> Sock(d, f) \/ ("conn" = "conn" /\ d = c /\ f \in {fd})
      <4>1. CASE d = c
        <5>1. conn'[d] = new /\ ~Sock(d, f)
          BY <1>5, <2>4, <4>1 DEF Sock
        <5> QED BY <2>3, <3>3, <4>1, <5>1 DEF Sock
      <4>2. CASE d # c
        <5>1. conn'[d] = conn[d]
          BY <2>4, <4>2
        <5> QED BY <4>2, <5>1, Zenon DEF Sock
      <4> QED BY <4>1, <4>2
    <3>5. \A d \in Conns, f \in Fds :
             Holds(d, f)' <=> Holds(d, f) \/ ("conn" = "rtp" /\ d = c /\ f \in {fd})
      <4>1. "conn" # "rtp"
        OBVIOUS
      <4> QED BY <1>4, <4>1, Zenon DEF SameRtps
    <3>6. \A f \in Fds : f \in {fd} => owner[f] = Free
      BY <1>2
    <3>7. "conn" \in {"conn", "rtp"} /\ idleFd' = idleFd
      BY <1>3
    <3>8. Owned'
      BY <2>2, <3>1, <3>4, <3>5, <3>6, <3>7, OwnedOpen, ZenonT(60)
    <3> QED BY <3>2, <3>8
  <2>7. NoEpollAssert'
    BY <2>1 DEF NoEpollAssert
  <2> QED BY <1>4, <2>2, <2>4, <2>5, <2>6, <2>7 DEF Inv, Typed
<1> QED BY <1>7, <1>8

\* The spare descriptor comes back as the one it was: nothing else is free.
LEMMA SpareComesBack ==
    ASSUME DOMAIN owner = Fds, idleFd \in Fds, owner[idleFd] = <<"idle", 0>>, LowestFree(owner, 1) = 0,
           idleFd' = LowestFree(Close(Close(owner, {idleFd}), {LowestFree(Close(owner, {idleFd}), 1)}), 1),
           owner' = [Close(owner, {idleFd}) EXCEPT ![idleFd'] = <<"idle", 0>>]
    PROVE  idleFd' = idleFd /\ \A f \in Fds : owner'[f] = owner[f]
<1> DEFINE closed == Close(owner, {idleFd})
           connfd == LowestFree(closed, 1)
           again == Close(closed, {connfd})
<1>1. FreeFds(owner) = {}
  BY FirstFree
<1>2. \A f \in Fds : owner[f] # Free
  BY <1>1 DEF FreeFds
<1>3. DOMAIN closed = Fds /\ \A f \in Fds : closed[f] = IF f \in {idleFd} THEN Free ELSE owner[f]
  BY CloseIs
<1>4. DOMAIN again = Fds /\ \A f \in Fds : again[f] = IF f \in {connfd} THEN Free ELSE closed[f]
  BY CloseIs
<1> HIDE DEF closed, again, connfd
<1>5. FreeFds(closed) = {idleFd}
  BY <1>2, <1>3 DEF FreeFds
<1>6. connfd = idleFd
  BY <1>5, OnlyFree DEF connfd
<1>7. FreeFds(again) = {idleFd}
  BY <1>2, <1>3, <1>4, <1>6 DEF FreeFds
<1>8. idleFd' = idleFd
  BY <1>7, OnlyFree DEF closed, again, connfd
<1>9. owner' = [closed EXCEPT ![idleFd'] = <<"idle", 0>>]
  BY Zenon DEF closed
<1>10. \A f \in Fds : owner'[f] = owner[f]
  BY <1>3, <1>8, <1>9
<1> QED BY <1>8, <1>10

LEMMA StepAcceptEMFILE ==
    ASSUME Inv, NEW c \in Conns, AcceptEMFILE(c)
    PROVE  Inv'
<1> DEFINE closed == Close(owner, {idleFd})
           connfd == LowestFree(closed, 1)
<1>1. /\ fault = "none" /\ ConnTyped /\ DOMAIN owner = Fds /\ LowestFree(owner, 1) = 0
      /\ conn[c].st = "none"
  BY Zenon DEF Inv, Typed, AcceptEMFILE, InEvents
<1>2. /\ UNCHANGED <<rtp, clients, phase, queue, batch, sender, clean, fault>>
      /\ idleFd' = LowestFree(Close(closed, {connfd}), 1)
      /\ owner' = [closed EXCEPT ![idleFd'] = <<"idle", 0>>]
      /\ conn' = [conn EXCEPT ![c].st = "refused"]
  BY Zenon DEF AcceptEMFILE, loopVars
<1>3. RtpTyped' /\ SameRtps /\ LoopTyped' /\ SenderTyped' /\ ClientsTyped'
  <2>1. RtpTyped' /\ SameRtps
    BY <1>2, RtpUnchanged DEF Inv, Typed
  <2>2. LoopTyped'
    BY <1>2, Zenon DEF Inv, Typed, LoopTyped
  <2>3. SenderTyped' /\ ClientsTyped'
    BY <1>2, Zenon DEF Inv, Typed, SenderTyped, ClientsTyped
  <2> QED BY <2>1, <2>2, <2>3
<1>4. /\ DOMAIN conn' = Conns /\ \A d \in Conns : d # c => conn'[d] = conn[d]
      /\ DOMAIN conn'[c] = DOMAIN conn[c] /\ conn'[c].st = "refused"
      /\ conn'[c].fd = conn[c].fd /\ conn'[c].req = conn[c].req
  BY <1>1, <1>2, Zenon DEF ConnTyped, ConnShape
<1>5. ~Tcp(conn[c]) /\ ~Tcp(conn'[c]) /\ ~Rtsp(conn'[c])
  BY <1>1, <1>4 DEF Tcp, Rtsp
<1>6. ConnTyped' /\ SameConns
  <2>1. ConnShape(conn'[c])
    BY <1>1, <1>4, <1>5, Zenon DEF ConnTyped, ConnShape
  <2> QED BY <1>1, <1>4, <1>5, <2>1, Zenon DEF ConnTyped, SameConns
<1>7. Described'
  BY <1>2, <1>4, <1>5, Zenon DEF Inv, Described
<1>8. DOMAIN owner' = Fds
  <2>1. DOMAIN closed = Fds
    BY CloseIs
  <2> HIDE DEF closed
  <2> QED BY <1>2, <2>1, Zenon
<1>9. OwnInv'
  <2> SUFFICES ASSUME clean' PROVE idleFd' \in Fds /\ Owned' /\ Fresh'
    BY Zenon DEF OwnInv
  <2>1. idleFd \in Fds /\ Owned /\ Fresh
    BY <1>1, <1>2, Zenon DEF Inv, OwnInv
  <2>2. owner[idleFd] = <<"idle", 0>>
    BY <2>1, Zenon DEF Owned
  <2>3. idleFd' = idleFd /\ \A f \in Fds : owner'[f] = owner[f]
    BY <1>1, <1>2, <2>1, <2>2, SpareComesBack
  <2>5. Owned'
    BY <1>3, <1>6, <2>1, <2>3, OwnedKept
  <2>6. Fresh'
    BY <1>3, <2>1, Zenon DEF Fresh, SameRtps
  <2> QED BY <2>1, <2>3, <2>5, <2>6
<1>10. NoEpollAssert'
  BY <1>1, <1>2 DEF NoEpollAssert
<1> QED BY <1>3, <1>6, <1>7, <1>8, <1>9, <1>10 DEF Inv, Typed

-----------------------------------------------------------------------------
(* Closing                                                                 *)

\* Dropping the last references to some RtpConnections closes what they own.
LEMMA RtpsGo ==
    ASSUME Owned, NEW D, D \subseteq Conns, idleFd' = idleFd,
           owner' = Close(owner, UNION {FdsOf(rtp[c]) : c \in D}),
           \A c \in D, f \in Fds : f \in FdsOf(rtp[c]) => Holds(c, f),
           \A c \in Conns, f \in Fds : Sock(c, f)' <=> Sock(c, f),
           \A c \in Conns, f \in Fds : Holds(c, f)' <=> Holds(c, f) /\ c \notin D
    PROVE  Owned'
<1> SUFFICES ASSUME NEW f \in Fds
             PROVE  /\ owner'[f] = <<"idle", 0>> <=> f = idleFd'
                    /\ \A c \in Conns : owner'[f] = <<"conn", c>> <=> Sock(c, f)'
                    /\ \A c \in Conns : owner'[f] = <<"rtp", c>> <=> Holds(c, f)'
  BY Zenon DEF Owned
<1>1. /\ owner[f] = <<"idle", 0>> <=> f = idleFd
      /\ \A c \in Conns : owner[f] = <<"conn", c>> <=> Sock(c, f)
      /\ \A c \in Conns : owner[f] = <<"rtp", c>> <=> Holds(c, f)
  BY Zenon DEF Owned
<1>2. CASE \E d \in D : f \in FdsOf(rtp[d])
  <2>1. PICK d \in D : f \in FdsOf(rtp[d])
    BY <1>2
  <2>2. owner'[f] = <<"free", 0>>
    BY <2>1, CloseIs DEF Free
  <2>3. owner[f] = <<"rtp", d>>
    BY <1>1, <2>1
  <2>4. f # idleFd /\ \A c \in Conns : ~Sock(c, f)
    BY <1>1, <2>3
  <2>5. \A c \in Conns : Holds(c, f) => c = d
    BY <1>1, <2>3
  <2>6. \A c \in Conns : ~Holds(c, f)'
    BY <2>1, <2>5
  <2>7. /\ <<"free", 0>> # <<"idle", 0>>
        /\ \A c \in Conns : <<"free", 0>> # <<"conn", c>> /\ <<"free", 0>> # <<"rtp", c>>
    OBVIOUS
  <2> QED BY <2>2, <2>4, <2>6, <2>7, Zenon
<1>3. CASE ~\E d \in D : f \in FdsOf(rtp[d])
  <2>1. f \notin UNION {FdsOf(rtp[c]) : c \in D}
    BY <1>3
  <2>2. owner'[f] = owner[f]
    BY <2>1, CloseIs
  <2>3. \A c \in Conns : Holds(c, f)' <=> Holds(c, f)
    BY <1>3 DEF Holds
  <2> QED BY <1>1, <2>2, <2>3
<1> QED BY <1>2, <1>3

\* A dead RtpConnection holds no descriptor: its numbers are closed numbers.
LEMMA HeldIsOwned ==
    ASSUME RtpTyped, NEW c \in Conns, NEW f \in Fds, f \in FdsOf(rtp[c])
    PROVE  Holds(c, f)
<1>1. f # 0
  BY FdsAreNats
<1>2. rtp[c].alive
  <2>1. ~rtp[c].alive => FdsOf(rtp[c]) = {0}
    BY Zenon DEF RtpTyped, RtpShape
  <2> QED BY <1>1, <2>1
<1> QED BY <1>2 DEF Holds

LEMMA StepHandleClose ==
    ASSUME Inv, fault = "none", NEW c \in Conns, HandleClose(c)
    PROVE  Inv'
<1> DEFINE new == [NoConn EXCEPT !.st = "kDisconnected", !.fd = conn[c].fd]
           functor == [op |-> "connectDestroyed", c |-> c, frame |-> 0, part |-> 0]
           D == IF rtp[c].alive /\ c \notin sender.held THEN {c} ELSE {}
<1>1. /\ ConnTyped /\ RtpTyped /\ DOMAIN owner = Fds
      /\ conn' = [conn EXCEPT ![c] = new] /\ queue' = Append(queue, functor)
      /\ UNCHANGED <<idleFd, clients, phase, batch, sender, clean, fault>>
      /\ Rtsp(conn[c])
  BY TheFunctions, Zenon DEF HandleClose, Inv, Typed
<1>2. /\ (rtp[c].alive /\ c \notin sender.held) =>
            owner' = Close(owner, RtpFds(c)) /\ rtp' = [rtp EXCEPT ![c] = DeadRtp]
      /\ ~(rtp[c].alive /\ c \notin sender.held) => UNCHANGED <<owner, rtp>>
  BY Zenon DEF HandleClose, DestroyRtp
<1>3. ConnShape(new) /\ Tcp(new) /\ ~Rtsp(new) /\ new.fd = conn[c].fd
  <2>1. ConnShape(new) /\ new.st = "kDisconnected" /\ new.fd = conn[c].fd
    BY NoConnShape, Zenon
  <2> HIDE DEF new
  <2> QED BY <2>1 DEF Tcp, Rtsp
<1> HIDE DEF new
<1>4. ConnTyped' /\ conn'[c] = new /\ \A d \in Conns : d # c => conn'[d] = conn[d]
  BY <1>1, <1>3, PutConn, Zenon
<1>5. SameConns
  <2>1. Tcp(conn[c])
    BY <1>1 DEF Rtsp, Tcp
  <2> QED BY <1>3, <1>4, <2>1, Zenon DEF SameConns
<1>6. LoopTyped'
  <2>1. functor \in Functors
    BY DEF Functors
  <2> HIDE DEF functor
  <2>2. queue \in Seq(Functors) /\ batch \in Seq(Functors) /\ (phase = "functors" => batch # <<>>)
    BY Zenon DEF Inv, Typed, LoopTyped
  <2>3. queue' \in Seq(Functors)
    BY <1>1, <2>1, <2>2, AppendProperties
  <2> QED BY <1>1, <2>2, <2>3, Zenon DEF LoopTyped
<1>7. SenderTyped' /\ ClientsTyped'
  BY <1>1, Zenon DEF Inv, Typed, SenderTyped, ClientsTyped
<1>8. CASE rtp[c].alive /\ c \notin sender.held
  <2>1. owner' = Close(owner, FdsOf(rtp[c])) /\ rtp' = [rtp EXCEPT ![c] = DeadRtp]
    BY <1>2, <1>8, TheFunctions
  <2>2. /\ RtpTyped' /\ rtp'[c] = DeadRtp /\ \A d \in Conns : d # c => rtp'[d] = rtp[d]
    BY <1>1, <2>1, NewRtpShape, PutRtp, Zenon
  <2>3. DOMAIN owner' = Fds
    BY <2>1, CloseIs
  <2>4. Described'
    <3> SUFFICES ASSUME NEW d \in Conns, Rtsp(conn'[d]), conn'[d].sess = SessionId PROVE rtp'[d].alive
      BY Zenon DEF Described
    <3>1. d # c
      BY <1>3, <1>4
    <3>2. conn'[d] = conn[d] /\ rtp'[d] = rtp[d]
      BY <1>4, <2>2, <3>1
    <3> QED BY <3>2, Zenon DEF Inv, Described
  <2>5. OwnInv'
    <3> SUFFICES ASSUME clean' PROVE idleFd' \in Fds /\ Owned' /\ Fresh'
      BY Zenon DEF OwnInv
    <3>1. idleFd \in Fds /\ Owned /\ Fresh
      BY <1>1, Zenon DEF Inv, OwnInv
    <3>2. Fresh'
      <4>1. ASSUME NEW d \in Conns PROVE FreshRtp(rtp'[d])
        <5>1. CASE d = c
          BY <2>2, <5>1, NewRtpShape
        <5>2. CASE d # c
          BY <2>2, <3>1, <5>2, Zenon DEF Fresh
        <5> QED BY <5>1, <5>2
      <4> QED BY <4>1 DEF Fresh
    <3>3. owner' = Close(owner, UNION {FdsOf(rtp[d]) : d \in {c}})
      <4>1. UNION {FdsOf(rtp[d]) : d \in {c}} = FdsOf(rtp[c])
        OBVIOUS
      <4> QED BY <2>1, <4>1
    <3>5. \A d \in {c}, f \in Fds : f \in FdsOf(rtp[d]) => Holds(d, f)
      BY <1>1, HeldIsOwned
    <3>6. \A d \in Conns, f \in Fds : Sock(d, f)' <=> Sock(d, f)
      BY <1>5, SameSocks
    <3>7. ASSUME NEW d \in Conns, NEW f \in Fds PROVE Holds(d, f)' <=> Holds(d, f) /\ d \notin {c}
      <4>1. CASE d = c
        BY <2>2, <4>1, NewRtpShape DEF Holds
      <4>2. CASE d # c
        <5>1. rtp'[d] = rtp[d] /\ d \notin {c}
          BY <2>2, <4>2
        <5> QED BY <5>1, Zenon DEF Holds
      <4> QED BY <4>1, <4>2
    <3>8. {c} \subseteq Conns /\ idleFd' = idleFd
      BY <1>1
    <3>9. Owned'
      BY <3>1, <3>3, <3>5, <3>6, <3>7, <3>8, RtpsGo
    <3> QED BY <1>1, <3>1, <3>2, <3>9
  <2>6. NoEpollAssert'
    BY <1>1 DEF NoEpollAssert
  <2> QED BY <1>4, <1>6, <1>7, <2>2, <2>3, <2>4, <2>5, <2>6 DEF Inv, Typed
<1>9. CASE ~(rtp[c].alive /\ c \notin sender.held)
  <2>1. UNCHANGED <<owner, rtp, idleFd, clean>>
    BY <1>1, <1>2, <1>9
  <2>2. RtpTyped' /\ SameRtps
    BY <1>1, <2>1, RtpUnchanged
  <2>3. Described'
    <3> SUFFICES ASSUME NEW d \in Conns, Rtsp(conn'[d]), conn'[d].sess = SessionId PROVE rtp'[d].alive
      BY Zenon DEF Described
    <3>1. d # c
      BY <1>3, <1>4
    <3>2. conn'[d] = conn[d] /\ rtp'[d] = rtp[d]
      BY <1>4, <2>1, <3>1
    <3> QED BY <3>2, Zenon DEF Inv, Described
  <2>4. fault' # "epoll_assert"
    BY <1>1
  <2> QED BY <1>4, <1>5, <1>6, <1>7, <2>1, <2>2, <2>3, <2>4, Mild
<1> QED BY <1>8, <1>9

\* The functors of the batch.
LEMMA Popped ==
    ASSUME LoopTyped, phase = "functors", PopFunctor
    PROVE  LoopTyped' /\ Head(batch) \in Functors
<1>1. batch \in Seq(Functors) /\ batch # <<>> /\ queue \in Seq(Functors)
  BY Zenon DEF LoopTyped
<1>2. /\ batch' = Tail(batch) /\ queue' = queue
      /\ phase' = IF Len(batch) = 1 THEN "events" ELSE "functors"
  BY Zenon DEF PopFunctor
<1>3. Head(batch) \in Functors /\ batch' \in Seq(Functors) /\ Len(batch') = Len(batch) - 1 /\ Len(batch) \in Nat
  BY <1>1, <1>2, HeadTailProperties, LenProperties
<1>4. phase' = "functors" => batch' # <<>>
  <2> SUFFICES ASSUME phase' = "functors", batch' = <<>> PROVE FALSE
    OBVIOUS
  <2>1. Len(batch) # 1
    BY <1>2
  <2>2. Len(batch') = 0
    OBVIOUS
  <2> QED BY <1>3, <2>1, <2>2
<1> QED BY <1>1, <1>2, <1>3, <1>4 DEF LoopTyped

LEMMA StepConnectDestroyed ==
    ASSUME Inv, ConnectDestroyed
    PROVE  Inv'
<1> DEFINE c == Head(batch).c
           gone == [NoConn EXCEPT !.st = "gone"]
<1>1. /\ ConnTyped /\ RtpTyped /\ DOMAIN owner = Fds /\ LoopTyped /\ phase = "functors" /\ fault = "none"
      /\ PopFunctor
      /\ owner' = Close(owner, {conn[c].fd}) /\ conn' = [conn EXCEPT ![c] = gone]
      /\ UNCHANGED <<idleFd, rtp, clients, sender, clean, fault>>
  BY Zenon DEF ConnectDestroyed, Inv, Typed
<1>2. LoopTyped' /\ Head(batch) \in Functors
  BY <1>1, Popped
<1>3. c \in Conns
  BY <1>2 DEF Functors
<1> HIDE DEF c
<1>4. ConnShape(gone) /\ ~Tcp(gone) /\ gone.fd = 0
  BY NoConnShape, Zenon
<1> HIDE DEF gone
<1>5. ConnTyped' /\ conn'[c] = gone /\ \A d \in Conns : d # c => conn'[d] = conn[d]
  BY <1>1, <1>3, <1>4, PutConn, Zenon
<1>6. ~Rtsp(gone)
  BY <1>4 DEF Tcp, Rtsp
<1>7. RtpTyped' /\ SameRtps
  BY <1>1, RtpUnchanged
<1>8. SenderTyped' /\ ClientsTyped'
  BY <1>1, Zenon DEF Inv, Typed, SenderTyped, ClientsTyped
<1>9. DOMAIN owner' = Fds
  BY <1>1, CloseIs
<1>10. Described'
  <2> SUFFICES ASSUME NEW d \in Conns, Rtsp(conn'[d]), conn'[d].sess = SessionId PROVE rtp'[d].alive
    BY Zenon DEF Described
  <2>1. d # c
    BY <1>5, <1>6
  <2>2. conn'[d] = conn[d] /\ rtp'[d] = rtp[d]
    BY <1>1, <1>5, <2>1
  <2> QED BY <2>2, Zenon DEF Inv, Described
<1>11. OwnInv'
  <2> SUFFICES ASSUME clean' PROVE idleFd' \in Fds /\ Owned' /\ Fresh'
    BY Zenon DEF OwnInv
  <2>1. idleFd \in Fds /\ Owned /\ Fresh
    BY <1>1, Zenon DEF Inv, OwnInv
  <2>2. Fresh'
    BY <1>7, <2>1, Zenon DEF Fresh, SameRtps
  <2>3. ASSUME NEW f \in Fds, f = conn[c].fd PROVE owner[f] = <<"conn", c>>
    <3>1. Tcp(conn[c])
      <4>1. ~Tcp(conn[c]) => conn[c].fd = 0
        BY <1>1, <1>3, Zenon DEF ConnTyped, ConnShape
      <4> QED BY <2>3, <4>1, FdsAreNats
    <3> QED BY <1>3, <2>1, <2>3, <3>1, Zenon DEF Owned, Sock
  <2>4. idleFd \notin {conn[c].fd}
    <3>1. owner[idleFd] = <<"idle", 0>>
      BY <2>1, Zenon DEF Owned
    <3> QED BY <2>1, <2>3, <3>1
  <2>5. ASSUME NEW d \in Conns, NEW f \in Fds
        PROVE  Sock(d, f)' <=> Sock(d, f) /\ f \notin {conn[c].fd}
    <3>1. CASE d = c
      <4>1. ~Sock(d, f)'
        BY <1>4, <1>5, <3>1 DEF Sock
      <4>2. Sock(d, f) => f = conn[c].fd
        BY <3>1 DEF Sock
      <4> QED BY <4>1, <4>2
    <3>2. CASE d # c
      <4>1. Sock(d, f)' <=> Sock(d, f)
        BY <1>5, <3>2, Zenon DEF Sock
      <4>2. Sock(d, f) => owner[f] = <<"conn", d>>
        BY <2>1, Zenon DEF Owned
      <4>3. Sock(d, f) => f # conn[c].fd
        BY <2>3, <3>2, <4>2
      <4> QED BY <4>1, <4>3
    <3> QED BY <3>1, <3>2
  <2>6. ASSUME NEW d \in Conns, NEW f \in Fds
        PROVE  Holds(d, f)' <=> Holds(d, f) /\ f \notin {conn[c].fd}
    <3>1. Holds(d, f)' <=> Holds(d, f)
      BY <1>7, Zenon DEF SameRtps
    <3>2. Holds(d, f) => owner[f] = <<"rtp", d>>
      BY <2>1, Zenon DEF Owned
    <3>3. Holds(d, f) => f # conn[c].fd
      BY <2>3, <3>2
    <3> QED BY <3>1, <3>3
  <2>7. Owned'
    BY <1>1, <2>1, <2>4, <2>5, <2>6, OwnedClose, Zenon
  <2> QED BY <1>1, <2>1, <2>2, <2>7
<1>12. NoEpollAssert'
  BY <1>1 DEF NoEpollAssert
<1> QED BY <1>2, <1>5, <1>7, <1>8, <1>9, <1>10, <1>11, <1>12 DEF Inv, Typed

LEMMA StepDropReferences ==
    ASSUME Inv, DropReferences
    PROVE  Inv'
<1> DEFINE D == {c \in sender.held : ~HasRtsp(c)}
           more == sender.part < Len(FramePackets[sender.frame])
           pc1 == IF more THEN "collect" ELSE "idle"
           part1 == IF more THEN sender.part ELSE 0
<1>1. /\ ConnTyped /\ RtpTyped /\ LoopTyped /\ SenderTyped /\ ClientsTyped /\ fault = "none"
      /\ owner' = Close(owner, UNION {RtpFds(c) : c \in D})
      /\ rtp' = [c \in Conns |-> IF c \in D THEN DeadRtp ELSE rtp[c]]
      /\ sender' = [sender EXCEPT !.held = {}, !.pc = pc1, !.part = part1]
      /\ UNCHANGED <<clients, queue, idleFd, conn, phase, batch, clean, fault>>
  BY Zenon DEF DropReferences, senderKeeps, Inv, Typed
<1>2. SenderTyped' /\ ClientsTyped'
  <2>1. {"pc", "frame", "part", "todo", "held"} \subseteq DOMAIN sender /\ sender.frame \in Nat /\ sender.part \in Nat
    BY <1>1, Zenon DEF SenderTyped
  <2>2. part1 \in Nat
    BY <2>1
  <2> HIDE DEF pc1, part1
  <2>3. /\ {"pc", "frame", "part", "todo", "held"} \subseteq DOMAIN sender'
        /\ sender'.frame = sender.frame /\ sender'.part = part1 /\ sender'.held = {}
        /\ sender'.todo = sender.todo
    BY <1>1, <2>1, Zenon
  <2>4. {} \subseteq Conns
    OBVIOUS
  <2> QED BY <1>1, <2>1, <2>2, <2>3, <2>4, Zenon DEF SenderTyped, ClientsTyped
<1>3. LoopTyped' /\ ConnTyped' /\ SameConns
  <2>1. ConnTyped' /\ SameConns
    BY <1>1, ConnUnchanged
  <2> QED BY <1>1, <2>1, Zenon DEF LoopTyped
<1>4. D \subseteq Conns /\ \A c \in D : ~Rtsp(conn[c])
  <2>1. sender.held \subseteq Conns
    BY <1>1, Zenon DEF SenderTyped
  <2> QED BY <2>1, TheFunctions
<1> HIDE DEF D
<1>5. /\ DOMAIN rtp' = Conns /\ \A c \in D : rtp'[c] = DeadRtp
      /\ \A c \in Conns : c \notin D => rtp'[c] = rtp[c]
  BY <1>1, <1>4
<1>6. RtpTyped'
  <2> SUFFICES ASSUME NEW c \in Conns PROVE RtpShape(rtp'[c])
    BY <1>5 DEF RtpTyped
  <2>1. CASE c \in D
    BY <1>5, <2>1, NewRtpShape
  <2>2. CASE c \notin D
    BY <1>1, <1>5, <2>2, Zenon DEF RtpTyped
  <2> QED BY <2>1, <2>2
<1>7. Described'
  <2> SUFFICES ASSUME NEW d \in Conns, Rtsp(conn'[d]), conn'[d].sess = SessionId PROVE rtp'[d].alive
    BY Zenon DEF Described
  <2>1. conn'[d] = conn[d]
    BY <1>1
  <2>2. d \notin D
    BY <1>4, <2>1
  <2>3. rtp'[d] = rtp[d]
    BY <1>5, <2>2
  <2> QED BY <2>1, <2>3, Zenon DEF Inv, Described
<1>8. owner' = Close(owner, UNION {FdsOf(rtp[c]) : c \in D}) /\ DOMAIN owner' = Fds
  <2>1. owner' = Close(owner, UNION {FdsOf(rtp[c]) : c \in D})
    BY <1>1, Zenon DEF RtpFds, FdsOf
  <2> QED BY <2>1, CloseIs
<1>9. OwnInv'
  <2> SUFFICES ASSUME clean' PROVE idleFd' \in Fds /\ Owned' /\ Fresh'
    BY Zenon DEF OwnInv
  <2>1. idleFd \in Fds /\ Owned /\ Fresh
    BY <1>1, Zenon DEF Inv, OwnInv
  <2>2. Fresh'
    <3>1. ASSUME NEW d \in Conns PROVE FreshRtp(rtp'[d])
      <4>1. CASE d \in D
        BY <1>5, <4>1, NewRtpShape
      <4>2. CASE d \notin D
        BY <1>5, <2>1, <4>2, Zenon DEF Fresh
      <4> QED BY <4>1, <4>2
    <3> QED BY <3>1 DEF Fresh
  <2>3. \A d \in D, f \in Fds : f \in FdsOf(rtp[d]) => Holds(d, f)
    BY <1>1, <1>4, HeldIsOwned
  <2>4. \A d \in Conns, f \in Fds : Sock(d, f)' <=> Sock(d, f)
    BY <1>3, SameSocks
  <2>5. ASSUME NEW d \in Conns, NEW f \in Fds PROVE Holds(d, f)' <=> Holds(d, f) /\ d \notin D
    <3>1. CASE d \in D
      BY <1>5, <3>1, NewRtpShape DEF Holds
    <3>2. CASE d \notin D
      <4>1. rtp'[d] = rtp[d]
        BY <1>5, <3>2
      <4> QED BY <3>2, <4>1, Zenon DEF Holds
    <3> QED BY <3>1, <3>2
  <2>6. Owned'
    BY <1>1, <1>4, <1>8, <2>1, <2>3, <2>4, <2>5, RtpsGo
  <2> QED BY <1>1, <2>1, <2>2, <2>6
<1>10. NoEpollAssert'
  BY <1>1 DEF NoEpollAssert
<1> QED BY <1>2, <1>3, <1>6, <1>7, <1>8, <1>9, <1>10 DEF Inv, Typed

-----------------------------------------------------------------------------
(* The sender, and the functors it queues                                  *)

\* A step that touches neither connections nor RtpConnections.
LEMMA Untouched ==
    ASSUME Inv, fault = "none", UNCHANGED <<owner, idleFd, conn, rtp, clean, fault>>,
           LoopTyped', SenderTyped', ClientsTyped'
    PROVE  Inv'
<1>1. ConnTyped' /\ SameConns
  BY ConnUnchanged DEF Inv, Typed
<1>2. RtpTyped' /\ SameRtps
  BY RtpUnchanged DEF Inv, Typed
<1>3. Described'
  BY Zenon DEF Inv, Described
<1> QED BY <1>1, <1>2, <1>3, Mild

LEMMA StepPushFrame ==
    ASSUME Inv, PushFrame
    PROVE  Inv'
<1> DEFINE pc1 == IF session /\ clients # {} THEN "collect" ELSE "idle"
<1>1. /\ LoopTyped /\ SenderTyped /\ ClientsTyped /\ fault = "none"
      /\ sender' = [sender EXCEPT !.frame = sender.frame + 1, !.pc = pc1]
      /\ UNCHANGED <<owner, idleFd, conn, rtp, clean, fault, clients, queue, phase, batch>>
  BY Zenon DEF PushFrame, senderKeeps, Inv, Typed
<1> HIDE DEF pc1
<1>2. SenderTyped' /\ ClientsTyped'
  <2>1. /\ {"pc", "frame", "part", "todo", "held"} \subseteq DOMAIN sender
        /\ sender.frame \in Nat /\ sender.part \in Nat /\ sender.held \subseteq Conns
    BY <1>1, Zenon DEF SenderTyped
  <2>2. /\ {"pc", "frame", "part", "todo", "held"} \subseteq DOMAIN sender'
        /\ sender'.frame = sender.frame + 1 /\ sender'.part = sender.part
        /\ sender'.held = sender.held /\ sender'.todo = sender.todo
    BY <1>1, <2>1, Zenon
  <2>3. sender'.frame \in Nat
    BY <2>1, <2>2
  <2> QED BY <1>1, <2>1, <2>2, <2>3, Zenon DEF SenderTyped, ClientsTyped
<1>3. LoopTyped'
  BY <1>1, Zenon DEF LoopTyped
<1> QED BY <1>1, <1>2, <1>3, Untouched

LEMMA StepCollect ==
    ASSUME Inv, Collect
    PROVE  Inv'
<1> DEFINE live == {e \in clients : rtp[e[2]].alive}
           held == {e \in live : HasTcp(e[2])}
           refs == {e[2] : e \in held}
<1>1. /\ LoopTyped /\ SenderTyped /\ ClientsTyped /\ fault = "none"
      /\ clients' = live
      /\ sender' = [sender EXCEPT !.pc = "send", !.part = sender.part + 1, !.todo = held, !.held = refs]
      /\ UNCHANGED <<owner, idleFd, conn, rtp, clean, fault, queue, phase, batch>>
  BY Zenon DEF Collect, senderKeeps, Inv, Typed
<1>2. live \subseteq clients /\ held \subseteq clients
  OBVIOUS
<1>3. refs \subseteq Conns
  BY <1>1, <1>2 DEF ClientsTyped
<1> HIDE DEF live, held, refs
<1>4. SenderTyped' /\ ClientsTyped'
  <2>1. /\ {"pc", "frame", "part", "todo", "held"} \subseteq DOMAIN sender
        /\ sender.frame \in Nat /\ sender.part \in Nat
    BY <1>1, Zenon DEF SenderTyped
  <2>2. /\ {"pc", "frame", "part", "todo", "held"} \subseteq DOMAIN sender'
        /\ sender'.frame = sender.frame /\ sender'.part = sender.part + 1
        /\ sender'.held = refs /\ sender'.todo = held
    BY <1>1, <2>1, Zenon
  <2>3. sender'.part \in Nat
    BY <2>1, <2>2
  <2>4. SenderTyped'
    BY <1>3, <2>1, <2>2, <2>3, Zenon DEF SenderTyped
  <2>5. ClientsTyped'
    BY <1>1, <1>2, <2>2 DEF ClientsTyped
  <2> QED BY <2>4, <2>5
<1>5. LoopTyped'
  BY <1>1, Zenon DEF LoopTyped
<1> QED BY <1>1, <1>4, <1>5, Untouched

LEMMA StepSendRtpPacket ==
    ASSUME Inv, SendRtpPacket
    PROVE  Inv'
<1>0. LoopTyped /\ SenderTyped /\ ClientsTyped
  BY DEF Inv, Typed
<1>1. PICK e \in sender.todo :
        /\ fault = "none" /\ sender' = [sender EXCEPT !.todo = sender.todo \ {e}]
        /\ queue' = IF rtp[e[2]].closed \/ ~HasTcp(e[2]) THEN queue
                    ELSE Append(queue, [op |-> "send", c |-> e[2], frame |-> sender.frame, part |-> sender.part])
        /\ UNCHANGED <<owner, idleFd, conn, rtp, clean, fault, clients, phase, batch>>
  BY Zenon DEF SendRtpPacket, senderKeeps
<1> DEFINE functor == [op |-> "send", c |-> e[2], frame |-> sender.frame, part |-> sender.part]
<1>2. /\ {"pc", "frame", "part", "todo", "held"} \subseteq DOMAIN sender
      /\ sender.frame \in Nat /\ sender.part \in Nat /\ sender.held \subseteq Conns
  BY <1>0, Zenon DEF SenderTyped
<1>3. functor \in Functors
  <2>1. e[2] \in Conns
    BY <1>0 DEF ClientsTyped
  <2> QED BY <1>2, <2>1 DEF Functors
<1>4. queue' = queue \/ queue' = Append(queue, functor)
  BY <1>1, Zenon
<1> HIDE DEF functor
<1>5. LoopTyped'
  <2>1. queue \in Seq(Functors) /\ batch \in Seq(Functors) /\ (phase = "functors" => batch # <<>>)
    BY <1>0, Zenon DEF LoopTyped
  <2>2. queue' \in Seq(Functors)
    BY <1>3, <1>4, <2>1, AppendProperties
  <2> QED BY <1>1, <2>1, <2>2, Zenon DEF LoopTyped
<1>6. SenderTyped' /\ ClientsTyped'
  <2>1. /\ {"pc", "frame", "part", "todo", "held"} \subseteq DOMAIN sender'
        /\ sender'.frame = sender.frame /\ sender'.part = sender.part
        /\ sender'.held = sender.held /\ sender'.todo = sender.todo \ {e}
    BY <1>1, <1>2, Zenon
  <2>2. SenderTyped'
    BY <1>2, <2>1, Zenon DEF SenderTyped
  <2>3. ClientsTyped'
    BY <1>0, <1>1, <2>1 DEF ClientsTyped
  <2> QED BY <2>2, <2>3
<1> QED BY <1>1, <1>5, <1>6, Untouched

LEMMA StepDoPendingFunctors ==
    ASSUME Inv, DoPendingFunctors
    PROVE  Inv'
<1>1. /\ LoopTyped /\ SenderTyped /\ ClientsTyped /\ fault = "none"
      /\ queue # <<>> /\ phase' = "functors" /\ batch' = queue /\ queue' = <<>>
      /\ UNCHANGED <<owner, idleFd, conn, rtp, clean, fault, clients, sender>>
  BY Zenon DEF DoPendingFunctors, InEvents, Inv, Typed
<1>2. LoopTyped'
  <2>1. queue \in Seq(Functors)
    BY <1>1, Zenon DEF LoopTyped
  <2>2. queue' \in Seq(Functors)
    BY <1>1, EmptySeq
  <2> QED BY <1>1, <2>1, <2>2, Zenon DEF LoopTyped
<1>3. SenderTyped' /\ ClientsTyped'
  BY <1>1, Zenon DEF SenderTyped, ClientsTyped
<1> QED BY <1>1, <1>2, <1>3, Untouched

LEMMA StepRemoveMediaSession ==
    ASSUME Inv, RemoveMediaSession
    PROVE  Inv'
<1>1. /\ LoopTyped /\ SenderTyped /\ ClientsTyped /\ fault = "none"
      /\ UNCHANGED <<owner, idleFd, conn, rtp, clean, fault, clients, sender, phase, queue, batch>>
  BY Zenon DEF RemoveMediaSession, loopVars, Inv, Typed
<1>2. LoopTyped' /\ SenderTyped' /\ ClientsTyped'
  BY <1>1, Zenon DEF LoopTyped, SenderTyped, ClientsTyped
<1> QED BY <1>1, <1>2, Untouched

\* A packet leaves the RtpConnection with the descriptors it has, or finds it dead.
LEMMA StepSendPacket ==
    ASSUME Inv, SendPacket
    PROVE  Inv'
<1> DEFINE c == Head(batch).c
<1>1. /\ ConnTyped /\ RtpTyped /\ LoopTyped /\ SenderTyped /\ ClientsTyped
      /\ phase = "functors" /\ fault = "none" /\ PopFunctor
      /\ UNCHANGED <<owner, idleFd, conn, clients, sender, clean>>
  BY Zenon DEF SendPacket, Inv, Typed
<1>2. \/ fault' = "use_after_free" /\ rtp' = rtp
      \/ fault' = fault /\ rtp' = [rtp EXCEPT ![c] = SetRtpHeader(rtp[c])]
      \/ fault' = fault /\ rtp' = [rtp EXCEPT ![c] = Teardown(SetRtpHeader(rtp[c]))]
  BY Zenon DEF SendPacket
<1>3. LoopTyped' /\ Head(batch) \in Functors
  BY <1>1, Popped
<1>4. c \in Conns
  BY <1>3 DEF Functors
<1> HIDE DEF c
<1>5. RtpTyped' /\ SameRtps /\ \A d \in Conns : rtp[d].alive => rtp'[d].alive
  <2>1. RtpShape(rtp[c])
    BY <1>1, <1>4, Zenon DEF RtpTyped
  <2>2. RtpShape(SetRtpHeader(rtp[c])) /\ Alike(rtp[c], SetRtpHeader(rtp[c]))
    BY <2>1, SetRtpHeaderAlike
  <2>3. RtpShape(Teardown(SetRtpHeader(rtp[c]))) /\ Alike(SetRtpHeader(rtp[c]), Teardown(SetRtpHeader(rtp[c])))
    BY <2>2, TeardownAlike
  <2>4. Alike(rtp[c], Teardown(SetRtpHeader(rtp[c])))
    BY <2>2, <2>3, Zenon DEF Alike
  <2>5. CASE rtp' = rtp
    BY <1>1, <2>5, RtpUnchanged
  <2>6. CASE rtp' = [rtp EXCEPT ![c] = SetRtpHeader(rtp[c])]
    BY <1>1, <1>4, <2>2, <2>6, AlikePut
  <2>7. CASE rtp' = [rtp EXCEPT ![c] = Teardown(SetRtpHeader(rtp[c]))]
    BY <1>1, <1>4, <2>3, <2>4, <2>7, AlikePut
  <2> QED BY <1>2, <2>5, <2>6, <2>7
<1>6. ConnTyped' /\ SameConns
  BY <1>1, ConnUnchanged
<1>7. SenderTyped' /\ ClientsTyped'
  BY <1>1, Zenon DEF SenderTyped, ClientsTyped
<1>8. Described'
  BY <1>1, <1>5, Zenon DEF Inv, Described
<1>9. fault' # "epoll_assert"
  BY <1>1, <1>2
<1> QED BY <1>1, <1>3, <1>5, <1>6, <1>7, <1>8, <1>9, Mild

-----------------------------------------------------------------------------
(* Requests                                                                *)

\* What is left of the connection when a request has been answered.
LEMMA AnswerIs ==
    ASSUME ConnTyped, NEW c \in Conns, NEW p, ReqShape(p.q), NEW status, NEW sess, NEW st,
           Rtsp(conn[c]), st \in {"kConnected", "kDisconnecting"}, Answer(c, p, status, sess, st)
    PROVE  /\ ConnTyped' /\ SameConns /\ conn'[c].sess = sess /\ conn'[c].st = st
           /\ \A d \in Conns : d # c => conn'[d] = conn[d]
<1> DEFINE q == Reset(p.q)
           b == Trim(p.buf)
<1>1. conn' = [conn EXCEPT ![c].req = q, ![c].buf = b, ![c].sess = sess, ![c].st = st]
  BY Zenon DEF Answer
<1>2. ReqShape(q)
  BY ResetShape
<1> HIDE DEF q, b
<1>3. DOMAIN conn = Conns /\ {"st", "fd", "buf", "req", "sess"} \subseteq DOMAIN conn[c]
  BY Zenon DEF ConnTyped, ConnShape
<1>4. /\ DOMAIN conn' = Conns /\ \A d \in Conns : d # c => conn'[d] = conn[d]
      /\ {"st", "fd", "buf", "req", "sess"} \subseteq DOMAIN conn'[c]
      /\ conn'[c].req = q /\ conn'[c].sess = sess /\ conn'[c].st = st /\ conn'[c].fd = conn[c].fd
  BY <1>1, <1>3, Zenon
<1>5. Tcp(conn'[c]) /\ Tcp(conn[c])
  BY <1>4 DEF Rtsp, Tcp
<1>6. ConnShape(conn'[c])
  BY <1>2, <1>4, <1>5, Zenon DEF ConnShape
<1> QED BY <1>4, <1>5, <1>6, Zenon DEF ConnTyped, SameConns

\* A step of the parser changes nothing but the parser and its buffer.
LEMMA ParsingIs ==
    ASSUME ConnTyped, NEW c \in Conns, NEW q, ReqShape(q), NEW b,
           conn' = [conn EXCEPT ![c].req = q, ![c].buf = b]
    PROVE  /\ ConnTyped' /\ SameConns
           /\ \A d \in Conns : conn'[d].st = conn[d].st /\ conn'[d].sess = conn[d].sess
<1>1. DOMAIN conn = Conns /\ ConnShape(conn[c])
  BY Zenon DEF ConnTyped
<1>2. /\ DOMAIN conn' = Conns /\ \A d \in Conns : d # c => conn'[d] = conn[d]
      /\ {"st", "fd", "buf", "req", "sess"} \subseteq DOMAIN conn'[c]
      /\ conn'[c].req = q /\ conn'[c].sess = conn[c].sess /\ conn'[c].st = conn[c].st
      /\ conn'[c].fd = conn[c].fd
  BY <1>1, Zenon DEF ConnShape
<1>3. Tcp(conn'[c]) <=> Tcp(conn[c])
  BY <1>2, Zenon DEF Tcp
<1>4. ConnShape(conn'[c])
  BY <1>1, <1>2, <1>3, Zenon DEF ConnShape
<1>5. ConnTyped' /\ SameConns
  BY <1>2, <1>3, <1>4, Zenon DEF ConnTyped, SameConns
<1> QED BY <1>2, <1>5, Zenon

\* What every request leaves alone.
ReceiveKeeps == UNCHANGED <<idleFd, session, phase, queue, batch, sender>>

\* A request that is answered, for a connection that keeps its session or
\* has an RtpConnection, and that moves no descriptor.
LEMMA Answered ==
    ASSUME Inv, fault = "none", NEW c \in Conns, Rtsp(conn[c]), NEW p, ReqShape(p.q), ReceiveKeeps,
           NEW status, NEW sess, NEW st, st \in {"kConnected", "kDisconnecting"},
           Answer(c, p, status, sess, st), sess = conn[c].sess \/ rtp'[c].alive,
           UNCHANGED <<owner, clean, fault>>, RtpTyped', SameRtps, ClientsTyped',
           \A d \in Conns : rtp[d].alive => rtp'[d].alive
    PROVE  Inv'
<1>1. /\ ConnTyped' /\ SameConns /\ conn'[c].sess = sess
      /\ \A d \in Conns : d # c => conn'[d] = conn[d]
  BY AnswerIs DEF Inv, Typed
<1>2. Described'
  <2> SUFFICES ASSUME NEW d \in Conns, Rtsp(conn'[d]), conn'[d].sess = SessionId PROVE rtp'[d].alive
    BY Zenon DEF Described
  <2>1. CASE d = c
    BY <1>1, <2>1, Zenon DEF Inv, Described
  <2>2. CASE d # c
    <3>1. conn'[d] = conn[d]
      BY <1>1, <2>2
    <3> QED BY <3>1, Zenon DEF Inv, Described
  <2> QED BY <2>1, <2>2
<1>3. LoopTyped' /\ SenderTyped'
  BY Zenon DEF ReceiveKeeps, Inv, Typed, LoopTyped, SenderTyped
<1>4. UNCHANGED idleFd /\ fault' # "epoll_assert"
  BY DEF ReceiveKeeps
<1> QED BY <1>1, <1>2, <1>3, <1>4, Mild

\* A step that leaves the RtpConnections alone and may end the behaviour.
LEMMA Parsed ==
    ASSUME Inv, fault = "none", fault' # "epoll_assert", ReceiveKeeps,
           UNCHANGED <<owner, rtp, clients, clean>>, ConnTyped', SameConns,
           \A d \in Conns : conn'[d].st = conn[d].st /\ conn'[d].sess = conn[d].sess
    PROVE  Inv'
<1>1. RtpTyped' /\ SameRtps
  BY RtpUnchanged DEF Inv, Typed
<1>2. LoopTyped' /\ SenderTyped' /\ ClientsTyped'
  BY Zenon DEF ReceiveKeeps, Inv, Typed, LoopTyped, SenderTyped, ClientsTyped
<1>3. Described'
  BY Zenon DEF Inv, Described, Rtsp
<1>4. UNCHANGED idleFd
  BY DEF ReceiveKeeps
<1> QED BY <1>1, <1>2, <1>3, <1>4, Mild

LEMMA StepParsing ==
    ASSUME Inv, fault = "none", NEW c \in Conns, NEW p, ReqShape(p.q), ReceiveKeeps,
           HandleRtcp(c, p) \/ KeepParsing(c, p)
    PROVE  Inv'
<1>1. /\ UNCHANGED <<owner, rtp, clients, clean>>
      /\ \/ fault' = "retrieve_assert" /\ UNCHANGED conn
         \/ fault' = fault /\ conn' = [conn EXCEPT ![c].req = p.q, ![c].buf = Trim(<<>>)]
         \/ fault' = fault /\ conn' = [conn EXCEPT ![c].req = p.q, ![c].buf = Trim(p.buf)]
  BY Zenon DEF HandleRtcp, KeepParsing
<1>2. fault' # "epoll_assert"
  BY <1>1
<1>3. ConnTyped
  BY DEF Inv, Typed
<1>4. CASE UNCHANGED conn
  BY <1>1, <1>2, <1>3, <1>4, ConnUnchanged, Parsed
<1>5. CASE conn' = [conn EXCEPT ![c].req = p.q, ![c].buf = Trim(<<>>)]
  <2>1. /\ ConnTyped' /\ SameConns
        /\ \A d \in Conns : conn'[d].st = conn[d].st /\ conn'[d].sess = conn[d].sess
    BY <1>3, <1>5, ParsingIs
  <2> QED BY <1>1, <1>2, <2>1, Parsed
<1>6. CASE conn' = [conn EXCEPT ![c].req = p.q, ![c].buf = Trim(p.buf)]
  <2>1. /\ ConnTyped' /\ SameConns
        /\ \A d \in Conns : conn'[d].st = conn[d].st /\ conn'[d].sess = conn[d].sess
    BY <1>3, <1>6, ParsingIs
  <2> QED BY <1>1, <1>2, <2>1, Parsed
<1> QED BY <1>1, <1>4, <1>5, <1>6

LEMMA StepNullRtp ==
    ASSUME Inv, fault = "none", NEW c \in Conns, ReceiveKeeps, NullRtp(c)
    PROVE  Inv'
<1>1. fault' = "null_rtp" /\ UNCHANGED <<owner, conn, rtp, clients, clean>>
  BY Zenon DEF NullRtp
<1>2. ConnTyped' /\ SameConns
  BY <1>1, ConnUnchanged DEF Inv, Typed
<1>3. fault' # "epoll_assert" /\ \A d \in Conns : conn'[d].st = conn[d].st /\ conn'[d].sess = conn[d].sess
  BY <1>1
<1> QED BY <1>1, <1>2, <1>3, Parsed

LEMMA StepOptionOrGetParameter ==
    ASSUME Inv, fault = "none", NEW c \in Conns, Rtsp(conn[c]), NEW p, ReqShape(p.q), ReceiveKeeps,
           HandleCmdOption(c, p) \/ HandleCmdGetParamter(c, p)
    PROVE  Inv'
<1>1. Answer(c, p, 200, conn[c].sess, conn[c].st) /\ UNCHANGED <<owner, rtp, clients, clean, fault>>
  BY Zenon DEF HandleCmdOption, HandleCmdGetParamter
<1>2. RtpTyped' /\ SameRtps /\ \A d \in Conns : rtp[d].alive => rtp'[d].alive
  BY <1>1, RtpUnchanged DEF Inv, Typed
<1>3. ClientsTyped'
  BY <1>1, Zenon DEF ReceiveKeeps, Inv, Typed, ClientsTyped
<1>4. conn[c].st \in {"kConnected", "kDisconnecting"}
  BY DEF Rtsp
<1> QED BY <1>1, <1>2, <1>3, <1>4, Answered

LEMMA StepPlayOrTeardown ==
    ASSUME Inv, fault = "none", NEW c \in Conns, Rtsp(conn[c]), NEW p, ReqShape(p.q), ReceiveKeeps,
           HandleCmdPlay(c, p) \/ HandleCmdTeardown(c, p)
    PROVE  Inv'
<1>1. \/ NullRtp(c)
      \/ /\ rtp' = [rtp EXCEPT ![c] = StartPlay(rtp[c])]
         /\ Answer(c, p, 200, conn[c].sess, conn[c].st)
         /\ UNCHANGED <<owner, clients, clean, fault>>
      \/ /\ rtp' = [rtp EXCEPT ![c] = Teardown(rtp[c])]
         /\ Answer(c, p, 200, conn[c].sess, "kDisconnecting")
         /\ UNCHANGED <<owner, clients, clean, fault>>
  BY Zenon DEF HandleCmdPlay, HandleCmdTeardown
<1>2. conn[c].st \in {"kConnected", "kDisconnecting"} /\ "kDisconnecting" \in {"kConnected", "kDisconnecting"}
  BY DEF Rtsp
<1>3. RtpTyped /\ RtpShape(rtp[c])
  BY Zenon DEF Inv, Typed, RtpTyped
<1>4. CASE NullRtp(c)
  BY <1>4, StepNullRtp
<1>5. CASE /\ rtp' = [rtp EXCEPT ![c] = StartPlay(rtp[c])]
           /\ Answer(c, p, 200, conn[c].sess, conn[c].st)
           /\ UNCHANGED <<owner, clients, clean, fault>>
  <2>1. RtpTyped' /\ SameRtps /\ \A d \in Conns : rtp[d].alive => rtp'[d].alive
    BY <1>3, <1>5, StartPlayAlike, AlikePut
  <2>2. ClientsTyped'
    BY <1>5, Zenon DEF ReceiveKeeps, Inv, Typed, ClientsTyped
  <2> QED BY <1>2, <1>5, <2>1, <2>2, Answered
<1>6. CASE /\ rtp' = [rtp EXCEPT ![c] = Teardown(rtp[c])]
           /\ Answer(c, p, 200, conn[c].sess, "kDisconnecting")
           /\ UNCHANGED <<owner, clients, clean, fault>>
  <2>1. RtpTyped' /\ SameRtps /\ \A d \in Conns : rtp[d].alive => rtp'[d].alive
    BY <1>3, <1>6, TeardownAlike, AlikePut
  <2>2. ClientsTyped'
    BY <1>6, Zenon DEF ReceiveKeeps, Inv, Typed, ClientsTyped
  <2> QED BY <1>2, <1>6, <2>1, <2>2, Answered
<1> QED BY <1>1, <1>4, <1>5, <1>6

LEMMA StepDescribe ==
    ASSUME Inv, fault = "none", NEW c \in Conns, Rtsp(conn[c]), NEW p, ReqShape(p.q), ReceiveKeeps,
           HandleCmdDescribe(c, p)
    PROVE  Inv'
<1> DEFINE x == IF rtp[c].alive THEN rtp[c] ELSE NewRtp
<1>1. /\ rtp' = [rtp EXCEPT ![c] = x] /\ UNCHANGED <<owner, clean, fault>>
      /\ \/ Answer(c, p, 200, SessionId, conn[c].st) /\ AddClient(c)
         \/ Answer(c, p, 404, conn[c].sess, conn[c].st) /\ UNCHANGED clients
  BY Zenon DEF HandleCmdDescribe
<1>2. conn[c].st \in {"kConnected", "kDisconnecting"}
  BY DEF Rtsp
<1>3. RtpTyped /\ RtpShape(rtp[c]) /\ ClientsTyped
  BY Zenon DEF Inv, Typed, RtpTyped
<1>4. ClientsTyped'
  <2>1. UNCHANGED sender
    BY DEF ReceiveKeeps
  <2>2. CASE UNCHANGED clients
    BY <1>3, <2>1, <2>2, Zenon DEF ClientsTyped
  <2>3. CASE AddClient(c)
    <3>1. clients' \subseteq clients \cup {<<conn[c].fd, c>>}
      BY <2>3 DEF AddClient
    <3> QED BY <1>3, <2>1, <3>1 DEF ClientsTyped
  <2> QED BY <1>1, <2>2, <2>3
<1>5. RtpTyped' /\ SameRtps /\ (\A d \in Conns : rtp[d].alive => rtp'[d].alive) /\ rtp'[c].alive
  <2>1. RtpShape(x) /\ x.alive
    BY <1>3, NewRtpShape, Zenon
  <2>2. rtp[c].alive => x = rtp[c]
    BY Zenon
  <2>3. ~rtp[c].alive => x = NewRtp
    BY Zenon
  <2> HIDE DEF x
  <2>4. RtpTyped' /\ rtp'[c] = x /\ \A d \in Conns : d # c => rtp'[d] = rtp[d]
    BY <1>1, <1>3, <2>1, PutRtp, Zenon
  <2>5. ASSUME NEW d \in Conns
        PROVE  /\ \A f \in Fds : Holds(d, f)' <=> Holds(d, f)
               /\ FreshRtp(rtp[d]) => FreshRtp(rtp'[d])
               /\ rtp[d].alive => rtp'[d].alive
    <3>1. CASE rtp'[d] = rtp[d]
      BY <3>1, Zenon DEF Holds
    <3>2. CASE rtp'[d] # rtp[d]
      <4>1. d = c
        BY <2>4, <3>2
      <4>2. ~rtp[c].alive
        BY <2>2, <2>4, <3>2, <4>1
      <4>3. rtp'[d] = NewRtp
        BY <2>3, <2>4, <4>1, <4>2
      <4>4. ASSUME NEW f \in Fds PROVE ~Holds(d, f) /\ ~Holds(d, f)'
        <5>1. f \notin {0}
          BY FdsAreNats
        <5>2. ~Holds(d, f)'
          BY <4>3, <5>1, NewRtpShape, Zenon DEF Holds
        <5>3. ~Holds(d, f)
          BY <4>1, <4>2, Zenon DEF Holds
        <5> QED BY <5>2, <5>3
      <4>5. FreshRtp(rtp'[d])
        BY <4>3, NewRtpShape
      <4> QED BY <4>1, <4>2, <4>4, <4>5, Zenon
    <3> QED BY <3>1, <3>2
  <2>6. SameRtps
    BY <2>5, Zenon DEF SameRtps
  <2>7. rtp'[c].alive
    BY <2>1, <2>4, Zenon
  <2> QED BY <2>4, <2>5, <2>6, <2>7, Zenon
<1> HIDE DEF x
<1>6. CASE Answer(c, p, 200, SessionId, conn[c].st)
  BY <1>1, <1>2, <1>4, <1>5, <1>6, Answered
<1>7. CASE Answer(c, p, 404, conn[c].sess, conn[c].st)
  BY <1>1, <1>2, <1>4, <1>5, <1>7, Answered
<1> QED BY <1>1, <1>6, <1>7

\* One channel of a live RtpConnection is written.
LEMMA ChannelPut ==
    ASSUME RtpTyped, NEW c \in Conns, rtp[c].alive, NEW n \in Channels,
           DOMAIN rtp' = Conns, \A d \in Conns : d # c => rtp'[d] = rtp[d],
           DOMAIN rtp'[c] = DOMAIN rtp[c], rtp'[c].alive = rtp[c].alive,
           DOMAIN rtp'[c].ch = DOMAIN rtp[c].ch,
           \A k \in Channels : k # n => rtp'[c].ch[k] = rtp[c].ch[k],
           DOMAIN rtp'[c].ch[n] = DOMAIN rtp[c].ch[n], rtp'[c].ch[n].seq = rtp[c].ch[n].seq
    PROVE  RtpTyped' /\ \A d \in Conns : rtp[d].alive => rtp'[d].alive
<1>1. /\ {"alive", "closed", "idr", "mode", "ch"} \subseteq DOMAIN rtp[c]
      /\ rtp[c].alive \in BOOLEAN /\ DOMAIN rtp[c].ch = Channels
      /\ \A k \in Channels : ChannelShape(rtp[c].ch[k])
  BY Zenon DEF RtpTyped, RtpShape
<1>2. ASSUME NEW k \in Channels PROVE ChannelShape(rtp'[c].ch[k])
  <2>1. CASE k = n
    BY <1>1, <2>1, Zenon DEF ChannelShape
  <2>2. CASE k # n
    <3>1. rtp'[c].ch[k] = rtp[c].ch[k]
      BY <2>2
    <3> QED BY <1>1, <3>1, Zenon
  <2> QED BY <2>1, <2>2
<1>3. RtpShape(rtp'[c])
  BY <1>1, <1>2, Zenon DEF RtpShape
<1>4. RtpTyped'
  <2>1. ASSUME NEW d \in Conns PROVE RtpShape(rtp'[d])
    <3>1. CASE d = c
      BY <1>3, <3>1
    <3>2. CASE d # c
      BY <3>2, Zenon DEF RtpTyped
    <3> QED BY <3>1, <3>2
  <2> QED BY <2>1, Zenon DEF RtpTyped
<1>5. ASSUME NEW d \in Conns, rtp[d].alive PROVE rtp'[d].alive
  <2>1. CASE d = c
    BY <2>1, Zenon
  <2>2. CASE d # c
    BY <1>5, <2>2, Zenon
  <2> QED BY <2>1, <2>2
<1> QED BY <1>4, <1>5

\* A set-up, whatever it does to the descriptors.
LEMMA SetUp ==
    ASSUME Inv, fault = "none", NEW c \in Conns, Rtsp(conn[c]), NEW p, ReqShape(p.q), ReceiveKeeps,
           NEW status, Answer(c, p, status, conn[c].sess, conn[c].st),
           DOMAIN owner' = Fds, UNCHANGED <<clients, fault>>, clean' => clean,
           RtpTyped', \A d \in Conns : rtp[d].alive => rtp'[d].alive,
           clean /\ clean' /\ idleFd \in Fds /\ Owned /\ Fresh /\ SameConns => Owned' /\ Fresh'
    PROVE  Inv'
<1>1. conn[c].st \in {"kConnected", "kDisconnecting"}
  BY DEF Rtsp
<1>2. /\ ConnTyped' /\ SameConns /\ conn'[c].sess = conn[c].sess
      /\ \A d \in Conns : d # c => conn'[d] = conn[d]
  BY <1>1, AnswerIs DEF Inv, Typed
<1>3. Described'
  <2> SUFFICES ASSUME NEW d \in Conns, Rtsp(conn'[d]), conn'[d].sess = SessionId PROVE rtp'[d].alive
    BY Zenon DEF Described
  <2>1. CASE d = c
    BY <1>2, <2>1, Zenon DEF Inv, Described
  <2>2. CASE d # c
    <3>1. conn'[d] = conn[d]
      BY <1>2, <2>2
    <3> QED BY <3>1, Zenon DEF Inv, Described
  <2> QED BY <2>1, <2>2
<1>4. LoopTyped' /\ SenderTyped' /\ ClientsTyped'
  BY Zenon DEF ReceiveKeeps, Inv, Typed, LoopTyped, SenderTyped, ClientsTyped
<1>5. NoEpollAssert'
  BY DEF NoEpollAssert
<1>6. OwnInv'
  <2> SUFFICES ASSUME clean' PROVE idleFd' \in Fds /\ Owned' /\ Fresh'
    BY Zenon DEF OwnInv
  <2>1. clean /\ idleFd \in Fds /\ Owned /\ Fresh
    BY Zenon DEF Inv, OwnInv
  <2>2. idleFd' = idleFd
    BY DEF ReceiveKeeps
  <2> QED BY <1>2, <2>1, <2>2, Zenon
<1> QED BY <1>2, <1>3, <1>4, <1>5, <1>6 DEF Inv, Typed

\* The two sockets of a channel that had none.
LEMMA UdpOwns ==
    ASSUME Inv, NEW c \in Conns, rtp[c].alive, NEW n \in Channels, SetupRtpOverUdp(c, n),
           SameConns, idleFd' = idleFd
    PROVE  /\ DOMAIN owner' = Fds /\ (clean' => clean)
           /\ RtpTyped' /\ \A d \in Conns : rtp[d].alive => rtp'[d].alive
           /\ clean' /\ Owned /\ Fresh => Owned' /\ Fresh'
<1> DEFINE f1 == LowestFree(owner, 1)
           f2 == LowestFree(owner, 2)
<1>1. /\ f2 # 0
      /\ owner' = [owner EXCEPT ![f1] = <<"rtp", c>>, ![f2] = <<"rtp", c>>]
      /\ rtp' = [rtp EXCEPT ![c].mode = Transports.udp,
                   ![c].ch[n] = [rtp[c].ch[n] EXCEPT !.setup = TRUE, !.rtpfd = f1, !.rtcpfd = f2, !.peer = "rtcp"]]
      /\ clean' = (clean /\ ~rtp[c].ch[n].setup)
  BY Zenon DEF SetupRtpOverUdp
<1>2. f1 \in Fds /\ f2 \in Fds /\ owner[f1] = Free /\ owner[f2] = Free
  BY <1>1, TwoFree
<1> HIDE DEF f1, f2
<1>3. RtpTyped /\ DOMAIN owner = Fds
  BY DEF Inv, Typed
<1>4. /\ DOMAIN rtp = Conns /\ {"alive", "closed", "idr", "mode", "ch"} \subseteq DOMAIN rtp[c]
      /\ DOMAIN rtp[c].ch = Channels /\ ChannelShape(rtp[c].ch[n])
  BY <1>3, Zenon DEF RtpTyped, RtpShape
<1>5. /\ DOMAIN rtp' = Conns /\ \A d \in Conns : d # c => rtp'[d] = rtp[d]
      /\ DOMAIN rtp'[c] = DOMAIN rtp[c] /\ rtp'[c].alive = rtp[c].alive
      /\ rtp'[c].ch = [rtp[c].ch EXCEPT ![n] =
                         [rtp[c].ch[n] EXCEPT !.setup = TRUE, !.rtpfd = f1, !.rtcpfd = f2, !.peer = "rtcp"]]
  BY <1>1, <1>4, Zenon
<1>6. /\ DOMAIN rtp'[c].ch = DOMAIN rtp[c].ch
      /\ \A k \in Channels : k # n => rtp'[c].ch[k] = rtp[c].ch[k]
      /\ rtp'[c].ch[n] = [rtp[c].ch[n] EXCEPT !.setup = TRUE, !.rtpfd = f1, !.rtcpfd = f2, !.peer = "rtcp"]
  BY <1>4, <1>5, Zenon
<1>7. /\ DOMAIN rtp'[c].ch[n] = DOMAIN rtp[c].ch[n]
      /\ rtp'[c].ch[n].setup = TRUE /\ rtp'[c].ch[n].rtpfd = f1 /\ rtp'[c].ch[n].rtcpfd = f2
      /\ rtp'[c].ch[n].seq = rtp[c].ch[n].seq
  BY <1>4, <1>6, Zenon DEF ChannelShape
<1>8. RtpTyped' /\ \A d \in Conns : rtp[d].alive => rtp'[d].alive
  <2>1. /\ DOMAIN rtp' = Conns /\ \A d \in Conns : d # c => rtp'[d] = rtp[d]
        /\ DOMAIN rtp'[c] = DOMAIN rtp[c] /\ rtp'[c].alive = rtp[c].alive
        /\ DOMAIN rtp'[c].ch = DOMAIN rtp[c].ch
        /\ \A k \in Channels : k # n => rtp'[c].ch[k] = rtp[c].ch[k]
        /\ DOMAIN rtp'[c].ch[n] = DOMAIN rtp[c].ch[n] /\ rtp'[c].ch[n].seq = rtp[c].ch[n].seq
    BY <1>5, <1>6, <1>7, Zenon
  <2> QED BY <1>3, <2>1, ChannelPut
<1>9. /\ DOMAIN owner' = Fds
      /\ \A f \in Fds : owner'[f] = IF f \in {f1, f2} THEN <<"rtp", c>> ELSE owner[f]
  BY <1>1, <1>2, <1>3
<1>10. ASSUME clean', Owned, Fresh PROVE Owned' /\ Fresh'
  <2>1. rtp[c].ch[n].rtpfd = 0 /\ rtp[c].ch[n].rtcpfd = 0
    BY <1>1, <1>10, Zenon DEF Fresh, FreshRtp
  <2>2. Fresh'
    <3>1. ASSUME NEW d \in Conns PROVE FreshRtp(rtp'[d])
      <4>1. CASE d = c
        <5>1. ASSUME NEW k \in Channels, ~rtp'[c].ch[k].setup
              PROVE  rtp'[c].ch[k].rtpfd = 0 /\ rtp'[c].ch[k].rtcpfd = 0
          <6>1. k # n
            BY <1>7, <5>1
          <6>2. rtp'[c].ch[k] = rtp[c].ch[k]
            BY <1>6, <6>1
          <6> QED BY <1>10, <5>1, <6>2, Zenon DEF Fresh, FreshRtp
        <5> QED BY <4>1, <5>1, Zenon DEF FreshRtp
      <4>2. CASE d # c
        BY <1>5, <1>10, <4>2, Zenon DEF Fresh
      <4> QED BY <4>1, <4>2
    <3> QED BY <3>1, Zenon DEF Fresh
  <2>3. ASSUME NEW f \in Fds PROVE f \in FdsOf(rtp'[c]) <=> f \in FdsOf(rtp[c]) \/ f \in {f1, f2}
    <3>1. f # 0
      BY FdsAreNats
    <3>2. f \in FdsOf(rtp'[c]) <=> \E k \in Channels : f = rtp'[c].ch[k].rtpfd \/ f = rtp'[c].ch[k].rtcpfd
      BY InFdsOf
    <3>3. f \in FdsOf(rtp[c]) <=> \E k \in Channels : f = rtp[c].ch[k].rtpfd \/ f = rtp[c].ch[k].rtcpfd
      BY InFdsOf
    <3>4. ASSUME f \in FdsOf(rtp'[c]) PROVE f \in FdsOf(rtp[c]) \/ f \in {f1, f2}
      <4>1. PICK k \in Channels : f = rtp'[c].ch[k].rtpfd \/ f = rtp'[c].ch[k].rtcpfd
        BY <3>2, <3>4, Zenon
      <4>2. CASE k = n
        <5>1. f = f1 \/ f = f2
          BY <1>7, <4>1, <4>2, Zenon
        <5> QED BY <5>1
      <4>3. CASE k # n
        BY <1>6, <3>3, <4>1, <4>3, Zenon
      <4> QED BY <4>2, <4>3
    <3>5. ASSUME f \in FdsOf(rtp[c]) PROVE f \in FdsOf(rtp'[c])
      <4>1. PICK k \in Channels : f = rtp[c].ch[k].rtpfd \/ f = rtp[c].ch[k].rtcpfd
        BY <3>3, <3>5, Zenon
      <4>2. k # n
        BY <2>1, <3>1, <4>1, Zenon
      <4> QED BY <1>6, <3>2, <4>1, <4>2, Zenon
    <3>6. ASSUME f \in {f1, f2} PROVE f \in FdsOf(rtp'[c])
      <4>1. f = rtp'[c].ch[n].rtpfd \/ f = rtp'[c].ch[n].rtcpfd
        BY <1>7, <3>6, Zenon
      <4> QED BY <3>2, <4>1, Zenon
    <3> QED BY <3>4, <3>5, <3>6
  <2>4. \A f \in Fds : f \in {f1, f2} => owner[f] = Free
    BY <1>2
  <2>5. "rtp" \in {"conn", "rtp"} /\ "rtp" # "conn"
    OBVIOUS
  <2>6. \A d \in Conns, f \in Fds :
           Sock(d, f)' <=> Sock(d, f) \/ ("rtp" = "conn" /\ d = c /\ f \in {f1, f2})
    BY <2>5, SameSocks, Zenon
  <2>7. ASSUME NEW d \in Conns, NEW f \in Fds
        PROVE  Holds(d, f)' <=> Holds(d, f) \/ ("rtp" = "rtp" /\ d = c /\ f \in {f1, f2})
    <3>1. CASE d = c
      <4>1. rtp'[c].alive
        BY <1>5, Zenon
      <4> QED BY <2>3, <3>1, <4>1, Zenon DEF Holds
    <3>2. CASE d # c
      <4>1. rtp'[d] = rtp[d]
        BY <1>5, <3>2
      <4> QED BY <3>2, <4>1, Zenon DEF Holds
    <3> QED BY <3>1, <3>2
  <2>8. Owned'
    <3> DEFINE S == {f1, f2}
    <3>1. /\ \A f \in Fds : f \in S => owner[f] = Free
          /\ \A f \in Fds : owner'[f] = IF f \in S THEN <<"rtp", c>> ELSE owner[f]
          /\ \A d \in Conns, f \in Fds : Sock(d, f)' <=> Sock(d, f) \/ ("rtp" = "conn" /\ d = c /\ f \in S)
          /\ \A d \in Conns, f \in Fds : Holds(d, f)' <=> Holds(d, f) \/ ("rtp" = "rtp" /\ d = c /\ f \in S)
      BY <1>9, <2>4, <2>6, <2>7
    <3> HIDE DEF S
    <3> QED BY <1>10, <2>5, <3>1, OwnedOpen, Zenon
  <2> QED BY <2>2, <2>8
<1>11. clean' => clean
  BY <1>1, Zenon
<1> QED BY <1>8, <1>9, <1>10, <1>11, Zenon

\* The other set-ups write numbers that the RtpConnection does not own.
LEMMA DirtyOwns ==
    ASSUME Inv, NEW c \in Conns, rtp[c].alive, NEW n \in Channels,
           SetupRtpOverTcp(c, n) \/ SetupRtpOverUdpFails(c, n)
    PROVE  /\ DOMAIN owner' = Fds /\ ~clean'
           /\ RtpTyped' /\ \A d \in Conns : rtp[d].alive => rtp'[d].alive
<1>1. RtpTyped /\ DOMAIN owner = Fds
  BY DEF Inv, Typed
<1>2. /\ DOMAIN rtp = Conns /\ {"alive", "closed", "idr", "mode", "ch"} \subseteq DOMAIN rtp[c]
      /\ DOMAIN rtp[c].ch = Channels /\ ChannelShape(rtp[c].ch[n])
  BY <1>1, Zenon DEF RtpTyped, RtpShape
<1>3. clean' = FALSE /\ owner' = owner
  BY Zenon DEF SetupRtpOverTcp, SetupRtpOverUdpFails
<1>4. /\ DOMAIN rtp' = Conns /\ \A d \in Conns : d # c => rtp'[d] = rtp[d]
      /\ DOMAIN rtp'[c] = DOMAIN rtp[c] /\ rtp'[c].alive = rtp[c].alive
      /\ DOMAIN rtp'[c].ch = DOMAIN rtp[c].ch
      /\ \A k \in Channels : k # n => rtp'[c].ch[k] = rtp[c].ch[k]
      /\ DOMAIN rtp'[c].ch[n] = DOMAIN rtp[c].ch[n] /\ rtp'[c].ch[n].seq = rtp[c].ch[n].seq
  <2>1. CASE SetupRtpOverTcp(c, n)
    <3> DEFINE h == [rtp[c].ch[n] EXCEPT !.setup = TRUE, !.rtpfd = conn[c].fd, !.rtcpfd = conn[c].fd]
    <3>1. rtp' = [rtp EXCEPT ![c].mode = Transports.tcp, ![c].ch[n] = h]
      BY <2>1, Zenon DEF SetupRtpOverTcp
    <3>2. DOMAIN h = DOMAIN rtp[c].ch[n] /\ h.seq = rtp[c].ch[n].seq
      BY <1>2, Zenon DEF ChannelShape
    <3> HIDE DEF h
    <3>3. /\ DOMAIN rtp' = Conns /\ \A d \in Conns : d # c => rtp'[d] = rtp[d]
          /\ DOMAIN rtp'[c] = DOMAIN rtp[c] /\ rtp'[c].alive = rtp[c].alive
          /\ rtp'[c].ch = [rtp[c].ch EXCEPT ![n] = h]
      BY <1>2, <3>1, Zenon
    <3> QED BY <1>2, <3>2, <3>3, Zenon
  <2>2. CASE SetupRtpOverUdpFails(c, n)
    <3>1. PICK x, y : rtp' = [rtp EXCEPT ![c].ch[n].rtpfd = x, ![c].ch[n].rtcpfd = y]
      BY <2>2, Zenon DEF SetupRtpOverUdpFails
    <3> DEFINE h == [rtp[c].ch[n] EXCEPT !.rtpfd = x, !.rtcpfd = y]
    <3>2. DOMAIN h = DOMAIN rtp[c].ch[n] /\ h.seq = rtp[c].ch[n].seq
      BY <1>2, Zenon DEF ChannelShape
    <3>3. /\ DOMAIN rtp' = Conns /\ \A d \in Conns : d # c => rtp'[d] = rtp[d]
          /\ DOMAIN rtp'[c] = DOMAIN rtp[c] /\ rtp'[c].alive = rtp[c].alive
          /\ DOMAIN rtp'[c].ch = DOMAIN rtp[c].ch
          /\ \A k \in Channels : k # n => rtp'[c].ch[k] = rtp[c].ch[k]
          /\ rtp'[c].ch[n] = h
      BY <1>2, <3>1, Zenon
    <3> QED BY <1>2, <3>2, <3>3, Zenon
  <2> QED BY <2>1, <2>2
<1>5. RtpTyped' /\ \A d \in Conns : rtp[d].alive => rtp'[d].alive
  BY <1>1, <1>4, ChannelPut
<1> QED BY <1>1, <1>3, <1>5

LEMMA SetupIs ==
    ASSUME NEW c, NEW p, HandleCmdSetup(c, p)
    PROVE  /\ UNCHANGED <<clients, fault>>
           /\ \/ Answer(c, p, 500, conn[c].sess, conn[c].st) /\ UNCHANGED <<owner, rtp, clean>>
              \/ /\ LookId(conn[c].sess) /\ SetupRtpOverTcp(c, p.q.channel)
                 /\ Answer(c, p, 200, conn[c].sess, conn[c].st)
              \/ /\ LookId(conn[c].sess) /\ SetupRtpOverUdp(c, p.q.channel)
                 /\ Answer(c, p, 200, conn[c].sess, conn[c].st)
              \/ /\ LookId(conn[c].sess) /\ SetupRtpOverUdpFails(c, p.q.channel)
                 /\ Answer(c, p, 500, conn[c].sess, conn[c].st)
              \/ Answer(c, p, 461, conn[c].sess, conn[c].st) /\ UNCHANGED <<owner, rtp, clean>>
BY ZenonT(60) DEF HandleCmdSetup

LEMMA StepSetup ==
    ASSUME Inv, fault = "none", NEW c \in Conns, Rtsp(conn[c]), NEW p, ReqShape(p.q), ReceiveKeeps,
           HandleCmdSetup(c, p)
    PROVE  Inv'
<1> DEFINE n == p.q.channel
<1>1. /\ UNCHANGED <<clients, fault>>
      /\ \/ Answer(c, p, 500, conn[c].sess, conn[c].st) /\ UNCHANGED <<owner, rtp, clean>>
         \/ /\ LookId(conn[c].sess) /\ SetupRtpOverTcp(c, n)
            /\ Answer(c, p, 200, conn[c].sess, conn[c].st)
         \/ /\ LookId(conn[c].sess) /\ SetupRtpOverUdp(c, n)
            /\ Answer(c, p, 200, conn[c].sess, conn[c].st)
         \/ /\ LookId(conn[c].sess) /\ SetupRtpOverUdpFails(c, n)
            /\ Answer(c, p, 500, conn[c].sess, conn[c].st)
         \/ Answer(c, p, 461, conn[c].sess, conn[c].st) /\ UNCHANGED <<owner, rtp, clean>>
  BY SetupIs
<1>3. n \in Channels
  BY Zenon DEF ReqShape
<1> HIDE DEF n
<1>4. conn[c].st \in {"kConnected", "kDisconnecting"} /\ ConnTyped
  BY DEF Rtsp, Inv, Typed
<1>5. \A status : Answer(c, p, status, conn[c].sess, conn[c].st) => SameConns
  BY <1>4, AnswerIs
<1>6. idleFd' = idleFd
  BY DEF ReceiveKeeps
<1>7. LookId(conn[c].sess) => rtp[c].alive
  BY Zenon DEF LookId, Inv, Described
<1>8. ASSUME UNCHANGED <<owner, rtp, clean>>, NEW status, Answer(c, p, status, conn[c].sess, conn[c].st)
      PROVE  Inv'
  <2>1. RtpTyped' /\ SameRtps /\ \A d \in Conns : rtp[d].alive => rtp'[d].alive
    BY <1>8, RtpUnchanged DEF Inv, Typed
  <2>2. ClientsTyped'
    BY <1>1, Zenon DEF ReceiveKeeps, Inv, Typed, ClientsTyped
  <2> QED BY <1>1, <1>4, <1>8, <2>1, <2>2, Answered
<1>9. CASE LookId(conn[c].sess) /\ SetupRtpOverUdp(c, n) /\ Answer(c, p, 200, conn[c].sess, conn[c].st)
  <2>1. /\ DOMAIN owner' = Fds /\ (clean' => clean)
        /\ RtpTyped' /\ \A d \in Conns : rtp[d].alive => rtp'[d].alive
        /\ clean' /\ Owned /\ Fresh => Owned' /\ Fresh'
    BY <1>3, <1>5, <1>6, <1>7, <1>9, UdpOwns
  <2> QED BY <1>1, <1>9, <2>1, SetUp
<1>10. ASSUME LookId(conn[c].sess), SetupRtpOverTcp(c, n) \/ SetupRtpOverUdpFails(c, n),
              NEW status, Answer(c, p, status, conn[c].sess, conn[c].st)
       PROVE  Inv'
  <2>1. /\ DOMAIN owner' = Fds /\ ~clean'
        /\ RtpTyped' /\ \A d \in Conns : rtp[d].alive => rtp'[d].alive
    BY <1>3, <1>7, <1>10, DirtyOwns
  <2> QED BY <1>1, <1>10, <2>1, SetUp
<1> QED BY <1>1, <1>8, <1>9, <1>10, ZenonT(60)

LEMMA StepReceive ==
    ASSUME Inv, NEW c \in Conns, Receive(c)
    PROVE  Inv'
<1> DEFINE p == ParseRequest(conn[c].req, conn[c].buf \o Segment(c))
<1>1. /\ fault = "none" /\ HasSocket(c)
      /\ UNCHANGED <<idleFd, session, phase, queue, batch, sender>>
      /\ \/ HandleRtcp(c, p) \/ KeepParsing(c, p)
         \/ HandleCmdOption(c, p) \/ HandleCmdDescribe(c, p) \/ HandleCmdSetup(c, p)
         \/ HandleCmdPlay(c, p) \/ HandleCmdTeardown(c, p) \/ HandleCmdGetParamter(c, p)
  BY Zenon DEF Receive, InEvents, loopVars
<1>2. ReqShape(p.q)
  <2>1. ReqShape(conn[c].req)
    BY Zenon DEF Inv, Typed, ConnTyped, ConnShape
  <2> QED BY <2>1, ParseShape
<1>3. ReceiveKeeps
  BY <1>1 DEF ReceiveKeeps
<1>4. Rtsp(conn[c])
  BY <1>1, TheFunctions, Zenon DEF HasSocket
<1> HIDE DEF p
<1>5. CASE HandleRtcp(c, p) \/ KeepParsing(c, p)
  BY <1>1, <1>2, <1>3, <1>5, StepParsing
<1>6. CASE HandleCmdOption(c, p) \/ HandleCmdGetParamter(c, p)
  BY <1>1, <1>2, <1>3, <1>4, <1>6, StepOptionOrGetParameter
<1>7. CASE HandleCmdDescribe(c, p)
  BY <1>1, <1>2, <1>3, <1>4, <1>7, StepDescribe
<1>8. CASE HandleCmdSetup(c, p)
  BY <1>1, <1>2, <1>3, <1>4, <1>8, StepSetup
<1>9. CASE HandleCmdPlay(c, p) \/ HandleCmdTeardown(c, p)
  BY <1>1, <1>2, <1>3, <1>4, <1>9, StepPlayOrTeardown
<1> QED BY <1>1, <1>5, <1>6, <1>7, <1>8, <1>9

-----------------------------------------------------------------------------
(* The theorems                                                            *)

LEMMA InitInv == Init => Inv
<1> SUFFICES ASSUME Init PROVE Inv
  OBVIOUS
<1>1. /\ owner = [f \in Fds |-> IF f = 1 THEN <<"idle", 0>> ELSE Free] /\ idleFd = 1
      /\ conn = [c \in Conns |-> NoConn] /\ rtp = [c \in Conns |-> DeadRtp] /\ clients = {}
      /\ phase = "events" /\ queue = <<>> /\ batch = <<>> /\ fault = "none"
      /\ sender = [pc |-> "idle", frame |-> 0, part |-> 0, todo |-> {}, held |-> {}]
  BY Zenon DEF Init
<1>2. /\ DOMAIN owner = Fds /\ DOMAIN conn = Conns /\ DOMAIN rtp = Conns
      /\ \A c \in Conns : conn[c] = NoConn /\ rtp[c] = DeadRtp
  BY <1>1
<1>3. ConnTyped /\ RtpTyped
  BY <1>2, NoConnShape, NewRtpShape DEF ConnTyped, RtpTyped
<1>4. LoopTyped
  BY <1>1, EmptySeq DEF LoopTyped
<1>5. SenderTyped /\ ClientsTyped
  BY <1>1 DEF SenderTyped, ClientsTyped
<1>6. \A c \in Conns : ~Tcp(conn[c]) /\ ~Rtsp(conn[c])
  BY <1>2, NoConnShape DEF Tcp, Rtsp
<1>7. Described
  BY <1>6 DEF Described
<1>8. \A c \in Conns, f \in Fds : ~Sock(c, f) /\ ~Holds(c, f)
  BY <1>2, <1>6, NewRtpShape DEF Sock, Holds
<1>9. Owned
  BY <1>1, <1>8 DEF Owned, Free
<1>10. Fresh
  BY <1>2, NewRtpShape DEF Fresh
<1>11. idleFd \in Fds
  BY <1>1, RtspAssumption DEF Fds
<1> QED BY <1>1, <1>2, <1>3, <1>4, <1>5, <1>7, <1>9, <1>10, <1>11
        DEF Inv, Typed, OwnInv, NoEpollAssert

LEMMA NextInv == Inv /\ [Next]_vars => Inv'
<1> SUFFICES ASSUME Inv, [Next]_vars PROVE Inv'
  OBVIOUS
<1>1. ASSUME NEW c \in Conns, Accept(c) PROVE Inv'
  BY <1>1, StepAccept
<1>2. ASSUME NEW c \in Conns, AcceptEMFILE(c) PROVE Inv'
  BY <1>2, StepAcceptEMFILE
<1>3. ASSUME NEW c \in Conns, Receive(c) PROVE Inv'
  BY <1>3, StepReceive
<1>4. ASSUME NEW c \in Conns, PeerCloses(c) \/ ForceCloseTimer(c) PROVE Inv'
  <2>1. fault = "none" /\ HandleClose(c)
    BY <1>4, Zenon DEF PeerCloses, ForceCloseTimer, InEvents
  <2> QED BY <2>1, StepHandleClose
<1>5. CASE LoopStep
  BY <1>5, StepDoPendingFunctors, StepConnectDestroyed, StepSendPacket DEF LoopStep
<1>6. CASE SenderStep
  BY <1>6, StepPushFrame, StepCollect, StepSendRtpPacket, StepDropReferences DEF SenderStep
<1>7. CASE RemoveMediaSession
  BY <1>7, StepRemoveMediaSession
<1>8. CASE UNCHANGED vars
  <2>1. UNCHANGED <<owner, idleFd, conn, rtp, clients, phase, queue, batch, sender, clean, fault>>
    BY <1>8 DEF vars
  <2>2. Typed'
    BY <2>1, Zenon DEF Inv, Typed, ConnTyped, RtpTyped, LoopTyped, SenderTyped, ClientsTyped
  <2>3. Described' /\ NoEpollAssert'
    BY <2>1, Zenon DEF Inv, Described, NoEpollAssert
  <2>4. OwnInv'
    <3> SUFFICES ASSUME clean', fault' = "none" PROVE idleFd' \in Fds /\ Owned' /\ Fresh'
      BY Zenon DEF OwnInv
    <3>1. idleFd \in Fds /\ Owned /\ Fresh
      BY <2>1, Zenon DEF Inv, OwnInv
    <3>2. SameConns /\ SameRtps
      BY <2>1, ConnUnchanged, RtpUnchanged DEF Inv, Typed
    <3>3. Owned'
      BY <2>1, <3>1, <3>2, OwnedKept
    <3>4. Fresh'
      BY <3>1, <3>2, Zenon DEF Fresh, SameRtps
    <3> QED BY <2>1, <3>1, <3>3, <3>4
  <2> QED BY <2>2, <2>3, <2>4 DEF Inv
<1> QED BY <1>1, <1>2, <1>3, <1>4, <1>5, <1>6, <1>7, <1>8, Zenon DEF Next

\* The records keep their shape, a described connection has its
\* RtpConnection, and the descriptor table is right, from the handlers'
\* first step on (RtspServer, RtspConnection, RtpConnection, Acceptor).
THEOREM RtspInvariant == Spec => []Inv
BY InitInv, NextInv, PTL DEF Spec

\* For any number of connections and descriptors, any file and whatever the
\* clients send: while every set-up is over UDP and succeeds, each open
\* descriptor belongs to the one live object that will close it
\* (~RtpConnection(), ~Socket(), Acceptor::handleRead()).
THEOREM DescriptorsAlwaysHaveOneOwner == Spec => []DescriptorsHaveOneOwner
<1>1. Inv => DescriptorsHaveOneOwner
  <2> SUFFICES ASSUME Inv, clean, fault = "none", NEW f \in Fds
               PROVE  /\ owner[f] = <<"idle", 0>> <=> f = idleFd
                      /\ \A c \in Conns : owner[f] = <<"conn", c>> <=> HasTcp(c) /\ conn[c].fd = f
                      /\ \A c \in Conns : owner[f] = <<"rtp", c>> <=> rtp[c].alive /\ f \in RtpFds(c)
    BY Zenon DEF DescriptorsHaveOneOwner
  <2>1. /\ owner[f] = <<"idle", 0>> <=> f = idleFd
        /\ \A c \in Conns : owner[f] = <<"conn", c>> <=> Sock(c, f)
        /\ \A c \in Conns : owner[f] = <<"rtp", c>> <=> Holds(c, f)
    BY Zenon DEF Inv, OwnInv, Owned
  <2> QED BY <2>1, TheFunctions, Zenon DEF Sock, Holds
<1> QED BY <1>1, RtspInvariant, PTL

\* In the same behaviours a new connection never gets a descriptor whose
\* channel is still in the poller, however connections end and on whichever
\* thread their sockets are closed (the assertion of
\* EpollPoller::updateChannel()).
THEOREM NeverTwoChannels == Spec => [](clean => fault # "epoll_assert")
<1>1. Inv => (clean => fault # "epoll_assert")
  BY DEF Inv, NoEpollAssert
<1> QED BY <1>1, RtspInvariant, PTL

-----------------------------------------------------------------------------
(* The order of packets                                                    *)

Ports == UdpPorts \cup {"interleaved"}
Packets == [frame : Nat, part : Nat, seq : Nat, port : Ports]
RecvTyped == DOMAIN recv = Conns /\ \A c \in Conns : recv[c] \in Seq(Packets)

\* What a client has received, and the packets queued for it.
Elements(s) == {s[k] : k \in 1..Len(s)}
IsSend(f, c) == f.op = "send" /\ f.c = c
Sends(s, c) == {s[i] : i \in {k \in 1..Len(s) : IsSend(s[k], c)}}

Before(a, b) == a.frame < b.frame \/ (a.frame = b.frame /\ a.part < b.part)
AllBefore(A, B) == \A a \in A, b \in B : Before(a, b)
Ordered(s) == \A i, j \in 1..Len(s) : i < j => Before(s[i], s[j])
OrderedFor(s, c) == \A i, j \in 1..Len(s) : i < j /\ IsSend(s[i], c) /\ IsSend(s[j], c) => Before(s[i], s[j])

\* The packets of c stand in one line: those received, then those of the
\* batch that is running, then those of the queue.
Lined(c) ==
  /\ Ordered(recv[c]) /\ OrderedFor(batch, c) /\ OrderedFor(queue, c)
  /\ AllBefore(Elements(recv[c]), Sends(batch, c)) /\ AllBefore(Elements(recv[c]), Sends(queue, c))
  /\ AllBefore(Sends(batch, c), Sends(queue, c))

\* How far the sender has come: the packet has been cut, and it is an earlier
\* one than what a client that is still on the list is going to get.
Reached(a) ==
  a.frame < sender.frame \/ (a.frame = sender.frame /\ (sender.pc = "idle" \/ a.part <= sender.part))
Passed(a) == a.frame < sender.frame \/ (a.frame = sender.frame /\ a.part < sender.part)
Waits(c) == \E e \in sender.todo : e[2] = c
Known(c) == Elements(recv[c]) \cup Sends(batch, c) \cup Sends(queue, c)

LineInv ==
  /\ phase = "events" => batch = <<>>
  /\ sender.pc # "send" => sender.todo = {}
  /\ \A c \in Conns : Lined(c)
  /\ \A c \in Conns : \A a \in Known(c) : Reached(a) /\ (Waits(c) => Passed(a))

\* A connection is at most once on the list of clients, under its descriptor.
OneEntry(S) == \A e, f \in S : e[2] = f[2] => e = f
EntryInv ==
  /\ OneEntry(clients) /\ OneEntry(sender.todo)
  /\ \A e \in clients : conn[e[2]].st # "none" /\ (Tcp(conn[e[2]]) => e[1] = conn[e[2]].fd)

OrderInv == RecvTyped /\ LineInv /\ EntryInv

LEMMA SendsAppend ==
    ASSUME NEW s \in Seq(Functors), NEW f \in Functors, NEW c
    PROVE  /\ \A a : a \in Sends(Append(s, f), c) <=> a \in Sends(s, c) \/ (a = f /\ IsSend(f, c))
           /\ OrderedFor(s, c) /\ (IsSend(f, c) => \A a \in Sends(s, c) : Before(a, f))
                => OrderedFor(Append(s, f), c)
<1> DEFINE t == Append(s, f)
           n == Len(s)
<1>1. /\ t \in Seq(Functors) /\ n \in Nat /\ Len(t) = n + 1
      /\ t[n + 1] = f /\ \A i \in 1..n : t[i] = s[i]
  BY AppendProperties, LenProperties
<1> HIDE DEF t
<1>2. ASSUME NEW a PROVE a \in Sends(t, c) <=> a \in Sends(s, c) \/ (a = f /\ IsSend(f, c))
  <2>1. a \in Sends(t, c) <=> \E i \in 1..n + 1 : IsSend(t[i], c) /\ a = t[i]
    BY <1>1 DEF Sends
  <2>2. a \in Sends(s, c) <=> \E i \in 1..n : IsSend(s[i], c) /\ a = s[i]
    BY DEF Sends
  <2>3. 1..n + 1 = 1..n \cup {n + 1}
    BY <1>1
  <2> HIDE DEF n
  <2> QED BY <1>1, <2>1, <2>2, <2>3, Zenon
<1>3. ASSUME OrderedFor(s, c), IsSend(f, c) => \A a \in Sends(s, c) : Before(a, f)
      PROVE  OrderedFor(t, c)
  <2> SUFFICES ASSUME NEW i \in 1..n + 1, NEW j \in 1..n + 1, i < j, IsSend(t[i], c), IsSend(t[j], c)
               PROVE  Before(t[i], t[j])
    BY <1>1 DEF OrderedFor
  <2>1. i \in 1..n /\ t[i] = s[i]
    BY <1>1
  <2>2. s[i] \in Sends(s, c)
    BY <2>1 DEF Sends
  <2>3. CASE j = n + 1
    <3>1. t[j] = f
      BY <1>1, <2>3
    <3>2. \A a \in Sends(s, c) : Before(a, f)
      BY <1>3, <3>1
    <3> QED BY <2>1, <2>2, <3>1, <3>2
  <2>4. CASE j # n + 1
    <3>1. j \in 1..n
      BY <1>1, <2>4
    <3>2. t[j] = s[j]
      BY <1>1, <3>1
    <3> QED BY <1>3, <2>1, <3>1, <3>2 DEF OrderedFor
  <2> QED BY <2>3, <2>4
<1> QED BY <1>2, <1>3 DEF t

LEMMA SendsTail ==
    ASSUME NEW s \in Seq(Functors), s # <<>>, NEW c
    PROVE  /\ Sends(Tail(s), c) \subseteq Sends(s, c)
           /\ IsSend(Head(s), c) => Head(s) \in Sends(s, c)
           /\ OrderedFor(s, c) => OrderedFor(Tail(s), c)
           /\ OrderedFor(s, c) /\ IsSend(Head(s), c) => \A a \in Sends(Tail(s), c) : Before(Head(s), a)
<1> DEFINE t == Tail(s)
           n == Len(s)
<1>1. /\ t \in Seq(Functors) /\ n \in Nat /\ n > 0 /\ Len(t) = n - 1 /\ Head(s) = s[1]
      /\ \A i \in 1..n - 1 : t[i] = s[i + 1]
  BY HeadTailProperties, LenProperties, EmptySeq
<1> HIDE DEF t, n
<1>2. \A a : a \in Sends(t, c) <=> \E i \in 1..n - 1 : IsSend(s[i + 1], c) /\ a = s[i + 1]
  BY <1>1 DEF Sends
<1>3. \A a : a \in Sends(s, c) <=> \E i \in 1..n : IsSend(s[i], c) /\ a = s[i]
  BY DEF Sends, n
<1>4. 1 \in 1..n /\ \A i \in 1..n - 1 : i + 1 \in 1..n /\ 1 < i + 1
  BY <1>1
<1>5. Sends(t, c) \subseteq Sends(s, c)
  BY <1>2, <1>3, <1>4, Zenon
<1>6. IsSend(Head(s), c) => Head(s) \in Sends(s, c)
  BY <1>1, <1>3, <1>4, Zenon
<1>7. ASSUME OrderedFor(s, c)
      PROVE  OrderedFor(t, c) /\ (IsSend(Head(s), c) => \A a \in Sends(t, c) : Before(Head(s), a))
  <2>1. \A i, j \in 1..n : i < j /\ IsSend(s[i], c) /\ IsSend(s[j], c) => Before(s[i], s[j])
    BY <1>7 DEF OrderedFor, n
  <2>2. OrderedFor(t, c)
    <3> SUFFICES ASSUME NEW i \in 1..n - 1, NEW j \in 1..n - 1, i < j, IsSend(t[i], c), IsSend(t[j], c)
                 PROVE  Before(t[i], t[j])
      BY <1>1 DEF OrderedFor
    <3>1. t[i] = s[i + 1] /\ t[j] = s[j + 1] /\ i + 1 < j + 1
      BY <1>1
    <3> QED BY <1>4, <2>1, <3>1
  <2>3. ASSUME IsSend(Head(s), c), NEW a \in Sends(t, c) PROVE Before(Head(s), a)
    <3>1. PICK i \in 1..n - 1 : IsSend(s[i + 1], c) /\ a = s[i + 1]
      BY <1>2
    <3> QED BY <1>1, <1>4, <2>1, <2>3, <3>1
  <2> QED BY <2>2, <2>3
<1> QED BY <1>5, <1>6, <1>7 DEF t

LEMMA ElementsAppend ==
    ASSUME NEW s \in Seq(Packets), NEW e \in Packets
    PROVE  /\ \A a : a \in Elements(Append(s, e)) <=> a \in Elements(s) \/ a = e
           /\ Ordered(s) /\ (\A a \in Elements(s) : Before(a, e)) => Ordered(Append(s, e))
<1> DEFINE t == Append(s, e)
           n == Len(s)
<1>1. /\ n \in Nat /\ Len(t) = n + 1 /\ t[n + 1] = e /\ \A i \in 1..n : t[i] = s[i]
  BY AppendProperties, LenProperties
<1> HIDE DEF t
<1>2. ASSUME NEW a PROVE a \in Elements(t) <=> a \in Elements(s) \/ a = e
  <2>1. a \in Elements(t) <=> \E i \in 1..n + 1 : a = t[i]
    BY <1>1 DEF Elements
  <2>2. a \in Elements(s) <=> \E i \in 1..n : a = s[i]
    BY DEF Elements
  <2>3. 1..n + 1 = 1..n \cup {n + 1}
    BY <1>1
  <2> HIDE DEF n
  <2> QED BY <1>1, <2>1, <2>2, <2>3, Zenon
<1>3. ASSUME Ordered(s), \A a \in Elements(s) : Before(a, e)
      PROVE  Ordered(t)
  <2> SUFFICES ASSUME NEW i \in 1..n + 1, NEW j \in 1..n + 1, i < j PROVE Before(t[i], t[j])
    BY <1>1 DEF Ordered
  <2>1. i \in 1..n /\ t[i] = s[i]
    BY <1>1
  <2>2. s[i] \in Elements(s)
    BY <2>1 DEF Elements
  <2>3. CASE j = n + 1
    BY <1>1, <1>3, <2>1, <2>2, <2>3
  <2>4. CASE j # n + 1
    <3>1. j \in 1..n
      BY <1>1, <2>4
    <3>2. t[j] = s[j]
      BY <1>1, <3>1
    <3> QED BY <1>3, <2>1, <3>1, <3>2 DEF Ordered
  <2> QED BY <2>3, <2>4
<1> QED BY <1>2, <1>3 DEF t

LEMMA EmptyHasNoSends == \A c : Sends(<<>>, c) = {} /\ OrderedFor(<<>>, c) /\ Elements(<<>>) = {} /\ Ordered(<<>>)
<1>1. 1..Len(<<>>) = {}
  BY EmptySeq
<1> QED BY <1>1 DEF Sends, OrderedFor, Elements, Ordered

\* A connection that was accepted keeps its socket until it is gone.
Onward ==
  \A d \in Conns : conn[d].st # "none" =>
    conn'[d].st # "none" /\ (Tcp(conn'[d]) => Tcp(conn[d]) /\ conn'[d].fd = conn[d].fd)

LEMMA EntriesKept ==
    ASSUME EntryInv, ClientsTyped, Onward, clients' \subseteq clients, sender'.todo \subseteq clients \cup sender.todo,
           sender'.todo \subseteq clients \/ sender'.todo \subseteq sender.todo
    PROVE  EntryInv'
<1>1. OneEntry(clients') /\ OneEntry(sender'.todo)
  BY Zenon DEF EntryInv, OneEntry
<1>2. ASSUME NEW e \in clients'
      PROVE  conn'[e[2]].st # "none" /\ (Tcp(conn'[e[2]]) => e[1] = conn'[e[2]].fd)
  <2>1. e \in clients /\ e[2] \in Conns
    BY DEF ClientsTyped
  <2> QED BY <2>1, Zenon DEF EntryInv, Onward
<1> QED BY <1>1, <1>2, Zenon DEF EntryInv

\* A step that touches neither the line of packets nor the sender.
LEMMA OrderUntouched ==
    ASSUME OrderInv, ClientsTyped, Onward, UNCHANGED <<recv, phase, queue, batch, sender, clients>>
    PROVE  OrderInv'
<1>1. RecvTyped'
  BY Zenon DEF OrderInv, RecvTyped
<1>2. EntryInv'
  BY EntriesKept DEF OrderInv
<1>3. LineInv'
  BY Zenon DEF OrderInv, LineInv, Lined, Known, Waits, Reached, Passed
<1> QED BY <1>1, <1>2, <1>3 DEF OrderInv

\* No packet joins the line.
LEMMA NobodyJoins ==
    ASSUME LineInv, UNCHANGED <<recv, sender>>, phase' = "events" => batch' = <<>>,
           \A c \in Conns : /\ Sends(batch', c) \subseteq Sends(batch, c) /\ OrderedFor(batch', c)
                            /\ Sends(queue', c) \subseteq Sends(queue, c) /\ OrderedFor(queue', c)
    PROVE  LineInv'
<1>1. ASSUME NEW c \in Conns
      PROVE  Lined(c)' /\ \A a \in Known(c)' : Reached(a)' /\ (Waits(c)' => Passed(a)')
  <2>1. /\ Sends(batch', c) \subseteq Sends(batch, c) /\ OrderedFor(batch', c)
        /\ Sends(queue', c) \subseteq Sends(queue, c) /\ OrderedFor(queue', c)
    OBVIOUS
  <2>2. Lined(c) /\ \A a \in Known(c) : Reached(a) /\ (Waits(c) => Passed(a))
    BY Zenon DEF LineInv
  <2>3. Lined(c)'
    BY <2>1, <2>2, Zenon DEF Lined, AllBefore
  <2>4. Known(c)' \subseteq Known(c)
    BY <2>1, Zenon DEF Known
  <2>5. ASSUME NEW a \in Known(c)' PROVE Reached(a)' /\ (Waits(c)' => Passed(a)')
    <3>1. Reached(a) /\ (Waits(c) => Passed(a))
      BY <2>2, <2>4
    <3> QED BY <3>1, Zenon DEF Reached, Passed, Waits
  <2> QED BY <2>3, <2>5
<1> QED BY <1>1, Zenon DEF LineInv

LEMMA OrderHandleClose ==
    ASSUME Inv, OrderInv, NEW c \in Conns, HandleClose(c)
    PROVE  OrderInv'
<1> DEFINE new == [NoConn EXCEPT !.st = "kDisconnected", !.fd = conn[c].fd]
           functor == [op |-> "connectDestroyed", c |-> c, frame |-> 0, part |-> 0]
<1>1. /\ ConnTyped /\ LoopTyped /\ ClientsTyped /\ Rtsp(conn[c])
      /\ conn' = [conn EXCEPT ![c] = new] /\ queue' = Append(queue, functor)
      /\ UNCHANGED <<clients, phase, batch, sender, recv>>
  BY TheFunctions, Zenon DEF HandleClose, Inv, Typed
<1>2. functor \in Functors /\ \A d : ~IsSend(functor, d)
  BY DEF Functors, IsSend
<1> HIDE DEF functor
<1>3. Onward
  <2>1. new.st = "kDisconnected" /\ new.fd = conn[c].fd
    BY Zenon DEF NoConn
  <2> HIDE DEF new
  <2>2. conn'[c] = new /\ \A d \in Conns : d # c => conn'[d] = conn[d]
    BY <1>1, PutConn, Zenon
  <2>3. Tcp(conn[c])
    BY <1>1 DEF Rtsp, Tcp
  <2> QED BY <2>1, <2>2, <2>3, Zenon DEF Onward
<1>4. EntryInv' /\ RecvTyped'
  <2>1. RecvTyped'
    BY <1>1, Zenon DEF OrderInv, RecvTyped
  <2> QED BY <1>1, <1>3, <2>1, EntriesKept DEF OrderInv
<1>5. LineInv'
  <2>1. queue \in Seq(Functors) /\ LineInv
    BY <1>1, Zenon DEF LoopTyped, OrderInv
  <2>2. phase' = "events" => batch' = <<>>
    BY <1>1, <2>1, Zenon DEF LineInv
  <2>3. ASSUME NEW d \in Conns
        PROVE  /\ Sends(batch', d) \subseteq Sends(batch, d) /\ OrderedFor(batch', d)
               /\ Sends(queue', d) \subseteq Sends(queue, d) /\ OrderedFor(queue', d)
    <3>1. Lined(d)
      BY <2>1, Zenon DEF LineInv
    <3>2. Sends(batch', d) \subseteq Sends(batch, d) /\ OrderedFor(batch', d)
      BY <1>1, <3>1, Zenon DEF Lined
    <3>3. OrderedFor(queue, d)
      BY <3>1 DEF Lined
    <3>4. Sends(queue', d) \subseteq Sends(queue, d) /\ OrderedFor(queue', d)
      BY <1>1, <1>2, <2>1, <3>3, SendsAppend
    <3> QED BY <3>2, <3>4
  <2> QED BY <1>1, <2>1, <2>2, <2>3, NobodyJoins
<1> QED BY <1>4, <1>5 DEF OrderInv

LEMMA OrderDoPendingFunctors ==
    ASSUME Inv, OrderInv, DoPendingFunctors
    PROVE  OrderInv'
<1>1. /\ ClientsTyped /\ LineInv /\ phase = "events" /\ phase' = "functors" /\ batch' = queue /\ queue' = <<>>
      /\ UNCHANGED <<conn, clients, sender, recv>>
  BY Zenon DEF DoPendingFunctors, InEvents, Inv, Typed, OrderInv
<1>2. Onward
  BY <1>1, Zenon DEF Onward
<1>3. EntryInv' /\ RecvTyped'
  <2>1. RecvTyped'
    BY <1>1, Zenon DEF OrderInv, RecvTyped
  <2> QED BY <1>1, <1>2, <2>1, EntriesKept DEF OrderInv
<1>4. ASSUME NEW c \in Conns
      PROVE  Lined(c)' /\ \A a \in Known(c)' : Reached(a)' /\ (Waits(c)' => Passed(a)')
  <2>1. Lined(c) /\ \A a \in Known(c) : Reached(a) /\ (Waits(c) => Passed(a))
    BY <1>1, Zenon DEF LineInv
  <2>2. Sends(queue', c) = {} /\ OrderedFor(queue', c)
    BY <1>1, EmptyHasNoSends
  <2>3. Lined(c)'
    BY <1>1, <2>1, <2>2, Zenon DEF Lined, AllBefore
  <2>4. Known(c)' \subseteq Known(c)
    BY <1>1, <2>2, Zenon DEF Known
  <2>5. ASSUME NEW a \in Known(c)' PROVE Reached(a)' /\ (Waits(c)' => Passed(a)')
    <3>1. Reached(a) /\ (Waits(c) => Passed(a))
      BY <2>1, <2>4
    <3> QED BY <1>1, <3>1, Zenon DEF Reached, Passed, Waits
  <2> QED BY <2>3, <2>5
<1>5. LineInv'
  BY <1>1, <1>4, Zenon DEF LineInv
<1> QED BY <1>3, <1>5 DEF OrderInv

\* The functor that ran is out of the batch; an empty batch ends the phase.
LEMMA PoppedLine ==
    ASSUME LoopTyped, LineInv, phase = "functors", PopFunctor
    PROVE  /\ phase' = "events" => batch' = <<>>
           /\ queue' = queue
           /\ \A c \in Conns : /\ Sends(batch', c) \subseteq Sends(batch, c) /\ OrderedFor(batch', c)
                               /\ IsSend(Head(batch), c) =>
                                    /\ Head(batch) \in Sends(batch, c)
                                    /\ \A a \in Sends(batch', c) : Before(Head(batch), a)
<1>1. batch \in Seq(Functors) /\ batch # <<>>
  BY Zenon DEF LoopTyped
<1>2. /\ batch' = Tail(batch) /\ queue' = queue
      /\ phase' = IF Len(batch) = 1 THEN "events" ELSE "functors"
  BY Zenon DEF PopFunctor
<1>3. phase' = "events" => batch' = <<>>
  <2> SUFFICES ASSUME phase' = "events" PROVE batch' = <<>>
    OBVIOUS
  <2>1. Len(batch) = 1
    BY <1>2
  <2>2. batch' \in Seq(Functors) /\ Len(batch') = 0
    BY <1>1, <1>2, <2>1, HeadTailProperties, LenProperties
  <2> QED BY <2>2, EmptySeq
<1>4. \A c \in Conns : OrderedFor(batch, c)
  BY Zenon DEF LineInv, Lined
<1>5. ASSUME NEW c \in Conns
      PROVE  /\ Sends(batch', c) \subseteq Sends(batch, c) /\ OrderedFor(batch', c)
             /\ IsSend(Head(batch), c) =>
                  /\ Head(batch) \in Sends(batch, c)
                  /\ \A a \in Sends(batch', c) : Before(Head(batch), a)
  BY <1>1, <1>2, <1>4, SendsTail
<1> QED BY <1>2, <1>3, <1>5

LEMMA OrderConnectDestroyed ==
    ASSUME Inv, OrderInv, ConnectDestroyed
    PROVE  OrderInv'
<1> DEFINE c == Head(batch).c
           new == [NoConn EXCEPT !.st = "gone"]
<1>1. /\ ConnTyped /\ LoopTyped /\ ClientsTyped /\ LineInv /\ phase = "functors" /\ PopFunctor
      /\ conn' = [conn EXCEPT ![c] = new]
      /\ UNCHANGED <<clients, sender, recv>>
  BY Zenon DEF ConnectDestroyed, Inv, Typed, OrderInv
<1>2. c \in Conns
  BY <1>1, Popped DEF Functors
<1> HIDE DEF c
<1>3. Onward
  <2>1. new.st = "gone"
    BY Zenon DEF NoConn
  <2> HIDE DEF new
  <2>2. conn'[c] = new /\ \A d \in Conns : d # c => conn'[d] = conn[d]
    BY <1>1, <1>2, PutConn, Zenon
  <2>3. new.st # "none" /\ ~Tcp(new)
    BY <2>1 DEF Tcp
  <2> QED BY <2>2, <2>3, Zenon DEF Onward
<1>4. EntryInv' /\ RecvTyped'
  <2>1. RecvTyped'
    BY <1>1, Zenon DEF OrderInv, RecvTyped
  <2> QED BY <1>1, <1>3, <2>1, EntriesKept DEF OrderInv
<1>5. LineInv'
  <2>1. /\ phase' = "events" => batch' = <<>>
        /\ queue' = queue
        /\ \A d \in Conns : Sends(batch', d) \subseteq Sends(batch, d) /\ OrderedFor(batch', d)
    BY <1>1, PoppedLine
  <2>2. \A d \in Conns : OrderedFor(queue, d)
    BY <1>1, Zenon DEF LineInv, Lined
  <2>3. \A d \in Conns : Sends(queue', d) \subseteq Sends(queue, d) /\ OrderedFor(queue', d)
    BY <2>1, <2>2, Zenon
  <2> QED BY <1>1, <2>1, <2>3, NobodyJoins
<1> QED BY <1>4, <1>5 DEF OrderInv

\* The packet at the head of the batch is later than all received ones.
LEMMA OrderSendPacket ==
    ASSUME Inv, OrderInv, SendPacket
    PROVE  OrderInv'
<1> DEFINE f == Head(batch)
           c == f.c
           packet(port) == [frame |-> f.frame, part |-> f.part, seq |-> rtp[c].ch[0].seq, port |-> port]
<1>1. /\ RtpTyped /\ LoopTyped /\ ClientsTyped /\ LineInv /\ RecvTyped /\ phase = "functors"
      /\ PopFunctor /\ f.op = "send"
      /\ UNCHANGED <<conn, clients, sender>>
      /\ \/ recv' = recv
         \/ recv' = [recv EXCEPT ![c] = Append(recv[c], packet("interleaved"))]
         \/ \E port \in UdpPorts : recv' = [recv EXCEPT ![c] = Append(recv[c], packet(port))]
  BY ZenonT(60) DEF SendPacket, Inv, Typed, OrderInv
<1>2. f \in Functors
  BY <1>1, Popped
<1>3. c \in Conns /\ IsSend(f, c) /\ f.frame \in Nat /\ f.part \in Nat
  BY <1>1, <1>2 DEF Functors, IsSend
<1> HIDE DEF packet
<1>3a. PICK port \in Ports : recv' = recv \/ recv' = [recv EXCEPT ![c] = Append(recv[c], packet(port))]
  <2>1. "interleaved" \in Ports /\ UdpPorts \subseteq Ports
    BY DEF Ports
  <2> QED BY <1>1, <2>1, Zenon
<1> DEFINE pkt == packet(port)
<1>4. pkt \in Packets /\ pkt.frame = f.frame /\ pkt.part = f.part
  <2>1. rtp[c].ch[0].seq \in Nat
    BY <1>1, <1>3, ChannelNumbers, Zenon DEF RtpTyped, RtpShape, ChannelShape
  <2> QED BY <1>3, <2>1 DEF Packets, packet
<1>5. /\ phase' = "events" => batch' = <<>>
      /\ queue' = queue
      /\ \A d \in Conns : Sends(batch', d) \subseteq Sends(batch, d) /\ OrderedFor(batch', d)
      /\ f \in Sends(batch, c) /\ \A a \in Sends(batch', c) : Before(f, a)
  BY <1>1, <1>3, PoppedLine
<1> HIDE DEF f, c, pkt
<1>6. Onward
  BY <1>1, Zenon DEF Onward
<1>7. EntryInv'
  BY <1>1, <1>6, EntriesKept DEF OrderInv
<1>8. \A d \in Conns : Sends(queue', d) \subseteq Sends(queue, d) /\ OrderedFor(queue', d)
  BY <1>1, <1>5, Zenon DEF LineInv, Lined
<1>9. CASE recv' = recv
  <2>1. RecvTyped'
    BY <1>1, <1>9, Zenon DEF RecvTyped
  <2>2. LineInv'
    BY <1>1, <1>5, <1>8, <1>9, NobodyJoins
  <2> QED BY <1>7, <2>1, <2>2 DEF OrderInv
<1>10. CASE recv' = [recv EXCEPT ![c] = Append(recv[c], pkt)]
  <2>1. /\ DOMAIN recv = Conns /\ recv[c] \in Seq(Packets)
    BY <1>1, <1>3, Zenon DEF RecvTyped
  <2>2. /\ DOMAIN recv' = Conns /\ recv'[c] = Append(recv[c], pkt)
        /\ \A d \in Conns : d # c => recv'[d] = recv[d]
    BY <1>3, <1>10, <2>1, Zenon
  <2>3. RecvTyped'
    <3>1. recv'[c] \in Seq(Packets)
      BY <1>4, <2>1, <2>2, AppendProperties
    <3> QED BY <1>1, <2>2, <3>1, Zenon DEF RecvTyped
  <2>4. ASSUME NEW d \in Conns
        PROVE  Lined(d)' /\ \A a \in Known(d)' : Reached(a)' /\ (Waits(d)' => Passed(a)')
    <3>1. Lined(d) /\ \A a \in Known(d) : Reached(a) /\ (Waits(d) => Passed(a))
      BY <1>1, Zenon DEF LineInv
    <3>2. /\ Sends(batch', d) \subseteq Sends(batch, d) /\ OrderedFor(batch', d)
          /\ Sends(queue', d) \subseteq Sends(queue, d) /\ OrderedFor(queue', d)
      BY <1>5, <1>8
    <3>3. CASE d # c
      <4>1. recv'[d] = recv[d]
        BY <2>2, <3>3
      <4>2. Lined(d)'
        BY <3>1, <3>2, <4>1, Zenon DEF Lined, AllBefore
      <4>3. Known(d)' \subseteq Known(d)
        BY <3>2, <4>1, Zenon DEF Known
      <4>4. ASSUME NEW a \in Known(d)' PROVE Reached(a)' /\ (Waits(d)' => Passed(a)')
        <5>1. Reached(a) /\ (Waits(d) => Passed(a))
          BY <3>1, <4>3
        <5> QED BY <1>1, <5>1, Zenon DEF Reached, Passed, Waits
      <4> QED BY <4>2, <4>4
    <3>4. CASE d = c
      <4>1. /\ \A a : a \in Elements(recv'[c]) <=> a \in Elements(recv[c]) \/ a = pkt
            /\ Ordered(recv[c]) /\ (\A a \in Elements(recv[c]) : Before(a, pkt)) => Ordered(recv'[c])
        BY <1>4, <2>1, <2>2, ElementsAppend
      <4>2. \A a : (Before(f, a) <=> Before(pkt, a)) /\ (Before(a, f) <=> Before(a, pkt))
        BY <1>4, Zenon DEF Before
      <4>3. \A a \in Elements(recv[c]) : Before(a, pkt)
        BY <1>5, <3>1, <3>4, <4>2, Zenon DEF Lined, AllBefore
      <4>4. Ordered(recv'[c])
        BY <3>1, <3>4, <4>1, <4>3 DEF Lined
      <4>5. AllBefore(Elements(recv'[c]), Sends(batch', c))
        <5>1. \A a \in Elements(recv[c]), b \in Sends(batch', c) : Before(a, b)
          BY <3>1, <3>2, <3>4, Zenon DEF Lined, AllBefore
        <5>2. \A b \in Sends(batch', c) : Before(pkt, b)
          BY <1>5, <4>2
        <5> QED BY <4>1, <5>1, <5>2, Zenon DEF AllBefore
      <4>6. AllBefore(Elements(recv'[c]), Sends(queue', c))
        <5>1. \A a \in Elements(recv[c]), b \in Sends(queue', c) : Before(a, b)
          BY <3>1, <3>2, <3>4, Zenon DEF Lined, AllBefore
        <5>2. \A b \in Sends(queue', c) : Before(pkt, b)
          BY <1>5, <3>1, <3>2, <3>4, <4>2, Zenon DEF Lined, AllBefore
        <5> QED BY <4>1, <5>1, <5>2, Zenon DEF AllBefore
      <4>7. AllBefore(Sends(batch', c), Sends(queue', c))
        BY <3>1, <3>2, <3>4, Zenon DEF Lined, AllBefore
      <4>8. Lined(d)'
        BY <3>2, <3>4, <4>4, <4>5, <4>6, <4>7, Zenon DEF Lined
      <4>9. ASSUME NEW a \in Known(d)' PROVE Reached(a)' /\ (Waits(d)' => Passed(a)')
        <5>1. a \in Known(d) \/ a = pkt
          BY <3>2, <3>4, <4>1, Zenon DEF Known
        <5>2. f \in Known(d)
          BY <1>5, <3>4 DEF Known
        <5>3. Reached(pkt) /\ (Waits(d) => Passed(pkt))
          BY <1>4, <3>1, <5>2, Zenon DEF Reached, Passed
        <5>4. Reached(a) /\ (Waits(d) => Passed(a))
          BY <3>1, <5>1, <5>3
        <5> QED BY <1>1, <5>4, Zenon DEF Reached, Passed, Waits
      <4> QED BY <4>8, <4>9
    <3> QED BY <3>3, <3>4
  <2>5. sender'.pc # "send" => sender'.todo = {}
    BY <1>1, Zenon DEF LineInv
  <2>6. LineInv'
    BY <1>5, <2>4, <2>5, Zenon DEF LineInv
  <2> QED BY <1>7, <2>3, <2>6 DEF OrderInv
<1>11. recv' = recv \/ recv' = [recv EXCEPT ![c] = Append(recv[c], pkt)]
  <2> USE DEF pkt
  <2> QED BY <1>3a, Zenon
<1> QED BY <1>9, <1>10, <1>11

\* A step of the sender that queues nothing.
LEMMA OrderSenderOnly ==
    ASSUME OrderInv, ClientsTyped, UNCHANGED <<conn, recv, phase, queue, batch>>,
           clients' \subseteq clients,
           sender'.todo \subseteq clients \/ sender'.todo \subseteq sender.todo,
           sender'.pc # "send" => sender'.todo = {},
           \A c \in Conns : \A a \in Known(c) : Reached(a)' /\ (sender'.todo # {} => Passed(a)')
    PROVE  OrderInv'
<1>1. Onward
  BY Zenon DEF Onward
<1>2. EntryInv'
  BY <1>1, EntriesKept, Zenon DEF OrderInv
<1>3. RecvTyped'
  BY Zenon DEF OrderInv, RecvTyped
<1>4. \A c \in Conns : Waits(c)' => sender'.todo # {}
  BY DEF Waits
<1>5. \A c \in Conns : Known(c)' = Known(c) /\ Lined(c)'
  BY Zenon DEF Known, Lined, OrderInv, LineInv
<1>6. ASSUME NEW c \in Conns, NEW a \in Known(c)' PROVE Reached(a)' /\ (Waits(c)' => Passed(a)')
  <2>1. a \in Known(c)
    BY <1>5, <1>6
  <2> QED BY <1>4, <2>1
<1>7. LineInv'
  BY <1>5, <1>6, Zenon DEF OrderInv, LineInv
<1> QED BY <1>2, <1>3, <1>7 DEF OrderInv

\* What stands in the line has numbers.
LEMMA KnownNumbers ==
    ASSUME RecvTyped, LoopTyped, NEW c \in Conns, NEW a \in Known(c)
    PROVE  a.frame \in Nat /\ a.part \in Nat
<1>1. recv[c] \in Seq(Packets) /\ batch \in Seq(Functors) /\ queue \in Seq(Functors)
  BY Zenon DEF RecvTyped, LoopTyped
<1>2. a \in Packets \/ a \in Functors
  <2>1. CASE a \in Elements(recv[c])
    BY <1>1, <2>1 DEF Elements
  <2>2. CASE a \in Sends(batch, c)
    BY <1>1, <2>2 DEF Sends
  <2>3. CASE a \in Sends(queue, c)
    BY <1>1, <2>3 DEF Sends
  <2> QED BY <2>1, <2>2, <2>3 DEF Known
<1> QED BY <1>2 DEF Packets, Functors

LEMMA OrderPushFrame ==
    ASSUME Inv, OrderInv, PushFrame
    PROVE  OrderInv'
<1> DEFINE pc1 == IF session /\ clients # {} THEN "collect" ELSE "idle"
<1>1. /\ LoopTyped /\ SenderTyped /\ ClientsTyped /\ RecvTyped /\ LineInv /\ sender.pc = "idle"
      /\ sender' = [sender EXCEPT !.frame = sender.frame + 1, !.pc = pc1]
      /\ UNCHANGED <<conn, recv, phase, queue, batch, clients>>
  BY Zenon DEF PushFrame, senderKeeps, Inv, Typed, OrderInv
<1>2. pc1 # "send"
  OBVIOUS
<1> HIDE DEF pc1
<1>3. /\ {"pc", "frame", "part", "todo", "held"} \subseteq DOMAIN sender /\ sender.frame \in Nat
  BY <1>1, Zenon DEF SenderTyped
<1>4. /\ sender'.frame = sender.frame + 1 /\ sender'.pc = pc1 /\ sender'.todo = sender.todo
  BY <1>1, <1>3, Zenon
<1>5. sender.todo = {}
  BY <1>1, Zenon DEF LineInv
<1>6. ASSUME NEW c \in Conns, NEW a \in Known(c) PROVE Reached(a)' /\ Passed(a)'
  <2>1. Reached(a)
    BY <1>1, Zenon DEF LineInv
  <2>2. a.frame \in Nat /\ (a.frame < sender.frame \/ a.frame = sender.frame)
    BY <1>1, <2>1, KnownNumbers DEF Reached
  <2>3. a.frame < sender'.frame
    BY <1>3, <1>4, <2>2
  <2> QED BY <2>3 DEF Reached, Passed
<1> QED BY <1>1, <1>2, <1>4, <1>5, <1>6, OrderSenderOnly

LEMMA OrderCollect ==
    ASSUME Inv, OrderInv, Collect
    PROVE  OrderInv'
<1> DEFINE live == {e \in clients : rtp[e[2]].alive}
           held == {e \in live : HasTcp(e[2])}
           refs == {e[2] : e \in held}
<1>1. /\ LoopTyped /\ SenderTyped /\ ClientsTyped /\ RecvTyped /\ LineInv /\ sender.pc = "collect"
      /\ clients' = live
      /\ sender' = [sender EXCEPT !.pc = "send", !.part = sender.part + 1, !.todo = held, !.held = refs]
      /\ UNCHANGED <<conn, recv, phase, queue, batch>>
  BY Zenon DEF Collect, senderKeeps, Inv, Typed, OrderInv
<1>2. live \subseteq clients /\ held \subseteq clients
  OBVIOUS
<1> HIDE DEF live, held, refs
<1>3. /\ {"pc", "frame", "part", "todo", "held"} \subseteq DOMAIN sender
      /\ sender.frame \in Nat /\ sender.part \in Nat
  BY <1>1, Zenon DEF SenderTyped
<1>4. /\ sender'.frame = sender.frame /\ sender'.part = sender.part + 1
      /\ sender'.pc = "send" /\ sender'.todo = held
  BY <1>1, <1>3, Zenon
<1>5. ASSUME NEW c \in Conns, NEW a \in Known(c) PROVE Reached(a)' /\ Passed(a)'
  <2>1. Reached(a) /\ a.part \in Nat
    BY <1>1, KnownNumbers, Zenon DEF LineInv
  <2>2. a.frame < sender.frame \/ (a.frame = sender.frame /\ a.part <= sender.part)
    BY <1>1, <2>1 DEF Reached
  <2>3. a.frame < sender'.frame \/ (a.frame = sender'.frame /\ a.part < sender'.part /\ a.part <= sender'.part)
    BY <1>3, <1>4, <2>1, <2>2
  <2> QED BY <2>3 DEF Reached, Passed
<1> QED BY <1>1, <1>2, <1>4, <1>5, OrderSenderOnly

LEMMA OrderDropReferences ==
    ASSUME Inv, OrderInv, DropReferences
    PROVE  OrderInv'
<1> DEFINE more == sender.part < Len(FramePackets[sender.frame])
           pc1 == IF more THEN "collect" ELSE "idle"
           part1 == IF more THEN sender.part ELSE 0
<1>1. /\ LoopTyped /\ SenderTyped /\ ClientsTyped /\ RecvTyped /\ LineInv
      /\ sender.pc = "send" /\ sender.todo = {}
      /\ sender' = [sender EXCEPT !.held = {}, !.pc = pc1, !.part = part1]
      /\ UNCHANGED <<conn, recv, phase, queue, batch, clients>>
  BY Zenon DEF DropReferences, senderKeeps, Inv, Typed, OrderInv
<1>2. pc1 = "idle" \/ (pc1 = "collect" /\ part1 = sender.part)
  BY Zenon
<1> HIDE DEF more, pc1, part1
<1>3. {"pc", "frame", "part", "todo", "held"} \subseteq DOMAIN sender
  BY <1>1, Zenon DEF SenderTyped
<1>4. /\ sender'.frame = sender.frame /\ sender'.part = part1
      /\ sender'.pc = pc1 /\ sender'.todo = {}
  BY <1>1, <1>3, Zenon
<1>5. ASSUME NEW c \in Conns, NEW a \in Known(c) PROVE Reached(a)'
  <2>1. Reached(a)
    BY <1>1, Zenon DEF LineInv
  <2>2. a.frame < sender.frame \/ (a.frame = sender.frame /\ a.part <= sender.part)
    BY <1>1, <2>1 DEF Reached
  <2> QED BY <1>2, <1>4, <2>2, Zenon DEF Reached
<1>6. pc1 # "send" /\ sender'.todo \subseteq sender.todo
  BY <1>2, <1>4
<1> QED BY <1>1, <1>4, <1>5, <1>6, OrderSenderOnly

\* The packet that is queued comes after all that its client has been sent,
\* and the client leaves the list.
LEMMA OrderSendRtpPacket ==
    ASSUME Inv, OrderInv, SendRtpPacket
    PROVE  OrderInv'
<1>1. PICK e \in sender.todo :
        /\ sender.pc = "send" /\ sender' = [sender EXCEPT !.todo = sender.todo \ {e}]
        /\ queue' = IF rtp[e[2]].closed \/ ~HasTcp(e[2]) THEN queue
                    ELSE Append(queue, [op |-> "send", c |-> e[2], frame |-> sender.frame, part |-> sender.part])
        /\ UNCHANGED <<conn, recv, clients, phase, batch>>
  BY Zenon DEF SendRtpPacket, senderKeeps
<1> DEFINE functor == [op |-> "send", c |-> e[2], frame |-> sender.frame, part |-> sender.part]
<1>2. LoopTyped /\ SenderTyped /\ ClientsTyped /\ RecvTyped /\ LineInv /\ EntryInv
  BY Zenon DEF Inv, Typed, OrderInv
<1>3. /\ {"pc", "frame", "part", "todo", "held"} \subseteq DOMAIN sender
      /\ sender.frame \in Nat /\ sender.part \in Nat /\ queue \in Seq(Functors)
  BY <1>2, Zenon DEF SenderTyped, LoopTyped
<1>4. /\ e[2] \in Conns /\ functor \in Functors
      /\ functor.frame = sender.frame /\ functor.part = sender.part
      /\ \A d : IsSend(functor, d) <=> d = e[2]
  <2>1. e[2] \in Conns
    BY <1>2 DEF ClientsTyped
  <2> QED BY <1>3, <2>1 DEF Functors, IsSend
<1>5. queue' = queue \/ queue' = Append(queue, functor)
  BY <1>1, Zenon
<1> HIDE DEF functor
<1>6. /\ sender'.frame = sender.frame /\ sender'.part = sender.part
      /\ sender'.pc = "send" /\ sender'.todo = sender.todo \ {e}
  BY <1>1, <1>3, Zenon
<1>7. RecvTyped' /\ Onward
  BY <1>1, <1>2, Zenon DEF RecvTyped, Onward
<1>8. EntryInv'
  <2>1. sender'.todo \subseteq sender.todo /\ clients' \subseteq clients
    BY <1>1, <1>6
  <2> QED BY <1>2, <1>7, <2>1, EntriesKept
<1>9. ASSUME NEW d \in Conns, Waits(d)' PROVE Waits(d) /\ d # e[2]
  <2>1. PICK g \in sender'.todo : g[2] = d
    BY <1>9 DEF Waits
  <2>2. g \in sender.todo /\ g # e
    BY <1>6
  <2>3. g[2] # e[2]
    BY <1>2, <2>2, Zenon DEF EntryInv, OneEntry
  <2> QED BY <2>1, <2>2, <2>3 DEF Waits
<1>10. ASSUME NEW d \in Conns
       PROVE  Lined(d)' /\ \A a \in Known(d)' : Reached(a)' /\ (Waits(d)' => Passed(a)')
  <2>1. Lined(d) /\ \A a \in Known(d) : Reached(a) /\ (Waits(d) => Passed(a))
    BY <1>2, Zenon DEF LineInv
  <2>2. ASSUME IsSend(functor, d), NEW a \in Known(d) PROVE Before(a, functor)
    <3>1. Waits(d)
      BY <1>1, <1>4, <2>2 DEF Waits
    <3>2. Passed(a)
      BY <2>1, <3>1
    <3> QED BY <1>4, <3>2, Zenon DEF Before, Passed
  <2>3. /\ OrderedFor(queue', d)
        /\ \A a : a \in Sends(queue', d) => a \in Sends(queue, d) \/ (a = functor /\ IsSend(functor, d))
    <3>1. OrderedFor(queue, d)
      BY <2>1 DEF Lined
    <3>2. \A a \in Sends(queue, d) : a \in Known(d)
      BY DEF Known
    <3>3. CASE queue' = queue
      BY <3>1, <3>3, Zenon
    <3>4. CASE queue' = Append(queue, functor)
      <4>1. IsSend(functor, d) => \A a \in Sends(queue, d) : Before(a, functor)
        BY <2>2, <3>2
      <4> QED BY <1>3, <1>4, <3>1, <3>4, <4>1, SendsAppend
    <3> QED BY <1>5, <3>3, <3>4
  <2>4. ASSUME NEW A, A \subseteq Known(d), AllBefore(A, Sends(queue, d)) PROVE AllBefore(A, Sends(queue', d))
    BY <2>2, <2>3, <2>4, Zenon DEF AllBefore
  <2>5. Lined(d)'
    <3>1. Elements(recv[d]) \subseteq Known(d) /\ Sends(batch, d) \subseteq Known(d)
      BY DEF Known
    <3>2. AllBefore(Elements(recv[d]), Sends(queue', d)) /\ AllBefore(Sends(batch, d), Sends(queue', d))
      BY <2>1, <2>4, <3>1 DEF Lined
    <3> QED BY <1>1, <2>1, <2>3, <3>2, Zenon DEF Lined
  <2>6. ASSUME NEW a \in Known(d)' PROVE Reached(a)' /\ (Waits(d)' => Passed(a)')
    <3>1. a \in Known(d) \/ (a = functor /\ IsSend(functor, d))
      BY <1>1, <2>3, Zenon DEF Known
    <3>2. CASE a \in Known(d)
      <4>1. Reached(a) /\ (Waits(d) => Passed(a))
        BY <2>1, <3>2
      <4>2. Reached(a)' /\ (Passed(a) => Passed(a)')
        BY <1>1, <1>6, <4>1, Zenon DEF Reached, Passed
      <4> QED BY <1>9, <4>1, <4>2
    <3>3. CASE a = functor /\ IsSend(functor, d)
      <4>1. ~Waits(d)'
        BY <1>4, <1>9, <3>3
      <4>2. a.frame = sender'.frame /\ a.part <= sender'.part
        BY <1>3, <1>4, <1>6, <3>3
      <4> QED BY <4>1, <4>2 DEF Reached
    <3> QED BY <3>1, <3>2, <3>3
  <2> QED BY <2>5, <2>6
<1>11. phase' = "events" => batch' = <<>>
  BY <1>1, <1>2, Zenon DEF LineInv
<1>12. LineInv'
  BY <1>6, <1>10, <1>11, Zenon DEF LineInv
<1> QED BY <1>7, <1>8, <1>12 DEF OrderInv

LEMMA OrderAccept ==
    ASSUME Inv, OrderInv, NEW c \in Conns, Accept(c) \/ AcceptEMFILE(c)
    PROVE  OrderInv'
<1>1. /\ ConnTyped /\ ClientsTyped /\ conn[c].st = "none"
      /\ UNCHANGED <<recv, phase, queue, batch, sender, clients>>
      /\ \/ UNCHANGED conn
         \/ conn' = [conn EXCEPT ![c] = [NoConn EXCEPT !.st = "kConnected", !.fd = LowestFree(owner, 1)]]
         \/ conn' = [conn EXCEPT ![c].st = "refused"]
  BY ZenonT(60) DEF Accept, AcceptEMFILE, loopVars, Inv, Typed
<1>2. \A d \in Conns : d # c => conn'[d] = conn[d]
  BY <1>1, Zenon DEF ConnTyped
<1>3. Onward
  BY <1>1, <1>2, Zenon DEF Onward
<1> QED BY <1>1, <1>3, OrderUntouched

\* The connection whose request is answered keeps its socket.
LEMMA AnswerOnward ==
    ASSUME ConnTyped, NEW c \in Conns, NEW p, ReqShape(p.q), NEW status, NEW sess, NEW st,
           Rtsp(conn[c]), st \in {"kConnected", "kDisconnecting"}, Answer(c, p, status, sess, st)
    PROVE  Onward
<1>1. SameConns /\ \A d \in Conns : d # c => conn'[d] = conn[d]
  BY AnswerIs
<1>2. Tcp(conn[c])
  BY DEF Rtsp, Tcp
<1>3. Tcp(conn'[c]) /\ conn'[c].fd = conn[c].fd
  BY <1>1, <1>2, Zenon DEF SameConns
<1>4. conn'[c].st # "none"
  BY <1>3 DEF Tcp
<1> QED BY <1>1, <1>2, <1>3, <1>4, Zenon DEF Onward

\* addClient() adds no second entry: one of the same connection would have
\* the same descriptor.
LEMMA OrderAddClient ==
    ASSUME OrderInv, ClientsTyped, Onward, NEW c \in Conns, Tcp(conn[c]), Tcp(conn'[c]),
           AddClient(c), UNCHANGED <<recv, phase, queue, batch, sender>>
    PROVE  OrderInv'
<1>1. CASE clients' = clients
  BY <1>1, OrderUntouched
<1>2. CASE clients' = clients \cup {<<conn[c].fd, c>>} /\ \A e \in clients : e[1] # conn[c].fd
  <2>1. RecvTyped' /\ LineInv'
    BY Zenon DEF OrderInv, RecvTyped, LineInv, Lined, Known, Waits, Reached, Passed
  <2>2. conn[c].st # "none"
    BY DEF Tcp
  <2>3. conn'[c].st # "none" /\ conn'[c].fd = conn[c].fd
    BY <2>2, Zenon DEF Onward
  <2> DEFINE new == <<conn[c].fd, c>>
  <2>4. new[1] = conn[c].fd /\ new[2] = c
    OBVIOUS
  <2>5. \A e \in clients : e[2] # c
    BY <1>2, Zenon DEF OrderInv, EntryInv
  <2>6. clients' = clients \cup {new}
    BY <1>2
  <2> HIDE DEF new
  <2>7. OneEntry(clients')
    BY <2>4, <2>5, <2>6, Zenon DEF OrderInv, EntryInv, OneEntry
  <2>8. OneEntry(sender'.todo)
    BY Zenon DEF OrderInv, EntryInv
  <2>9. ASSUME NEW e \in clients'
        PROVE  conn'[e[2]].st # "none" /\ (Tcp(conn'[e[2]]) => e[1] = conn'[e[2]].fd)
    <3>1. CASE e \in clients
      <4>1. e[2] \in Conns
        BY <3>1 DEF ClientsTyped
      <4> QED BY <3>1, <4>1, Zenon DEF OrderInv, EntryInv, Onward
    <3>2. CASE e = new
      BY <2>3, <2>4, <3>2, Zenon
    <3> QED BY <2>6, <3>1, <3>2
  <2> QED BY <2>1, <2>7, <2>8, <2>9, Zenon DEF OrderInv, EntryInv
<1> QED BY <1>1, <1>2, Zenon DEF AddClient

LEMMA OrderReceive ==
    ASSUME Inv, OrderInv, NEW c \in Conns, Receive(c)
    PROVE  OrderInv'
<1> DEFINE p == ParseRequest(conn[c].req, conn[c].buf \o Segment(c))
<1>1. /\ HasSocket(c) /\ UNCHANGED <<recv, phase, queue, batch, sender>>
      /\ \/ HandleRtcp(c, p) \/ KeepParsing(c, p)
         \/ HandleCmdOption(c, p) \/ HandleCmdDescribe(c, p) \/ HandleCmdSetup(c, p)
         \/ HandleCmdPlay(c, p) \/ HandleCmdTeardown(c, p) \/ HandleCmdGetParamter(c, p)
  BY Zenon DEF Receive, loopVars
<1>2. ReqShape(p.q)
  <2>1. ReqShape(conn[c].req)
    BY Zenon DEF Inv, Typed, ConnTyped, ConnShape
  <2> QED BY <2>1, ParseShape
<1>3. Rtsp(conn[c])
  BY <1>1, TheFunctions, Zenon DEF HasSocket
<1>4. Tcp(conn[c]) /\ conn[c].st \in {"kConnected", "kDisconnecting"} /\ "kDisconnecting" \in {"kConnected", "kDisconnecting"}
  BY <1>3 DEF Rtsp, Tcp
<1>5. ConnTyped /\ ClientsTyped
  BY DEF Inv, Typed
<1> HIDE DEF p
<1>6. ASSUME NEW status, NEW sess, NEW st, st \in {"kConnected", "kDisconnecting"},
             Answer(c, p, status, sess, st), UNCHANGED clients \/ AddClient(c)
      PROVE  OrderInv'
  <2>1. Onward
    BY <1>2, <1>3, <1>5, <1>6, AnswerOnward
  <2>2. Tcp(conn'[c])
    <3>1. SameConns
      BY <1>2, <1>3, <1>5, <1>6, AnswerIs
    <3> QED BY <1>4, <3>1, Zenon DEF SameConns
  <2>3. CASE UNCHANGED clients
    BY <1>1, <1>5, <2>1, <2>3, OrderUntouched
  <2>4. CASE AddClient(c)
    BY <1>1, <1>4, <1>5, <2>1, <2>2, <2>4, OrderAddClient
  <2> QED BY <1>6, <2>3, <2>4
<1>7. ASSUME UNCHANGED clients, UNCHANGED conn \/ \E b : conn' = [conn EXCEPT ![c].req = p.q, ![c].buf = b]
      PROVE  OrderInv'
  <2>1. SameConns /\ \A d \in Conns : conn'[d].st = conn[d].st
    <3>1. CASE UNCHANGED conn
      BY <1>5, <3>1, ConnUnchanged
    <3>2. ASSUME NEW b, conn' = [conn EXCEPT ![c].req = p.q, ![c].buf = b]
          PROVE  SameConns /\ \A d \in Conns : conn'[d].st = conn[d].st
      BY <1>2, <1>5, <3>2, ParsingIs
    <3> QED BY <1>7, <3>1, <3>2
  <2>2. Onward
    BY <2>1, Zenon DEF Onward, SameConns
  <2> QED BY <1>1, <1>5, <1>7, <2>2, OrderUntouched
<1>8. CASE HandleRtcp(c, p) \/ KeepParsing(c, p)
  <2>1. UNCHANGED clients /\ (UNCHANGED conn \/ \E b : conn' = [conn EXCEPT ![c].req = p.q, ![c].buf = b])
    BY <1>8, Zenon DEF HandleRtcp, KeepParsing
  <2> QED BY <1>7, <2>1
<1>9. CASE NullRtp(c)
  <2>1. UNCHANGED <<conn, clients>>
    BY <1>9, Zenon DEF NullRtp
  <2> QED BY <1>7, <2>1
<1>10. CASE HandleCmdOption(c, p) \/ HandleCmdGetParamter(c, p)
  <2>1. Answer(c, p, 200, conn[c].sess, conn[c].st) /\ UNCHANGED clients
    BY <1>10, Zenon DEF HandleCmdOption, HandleCmdGetParamter
  <2> QED BY <1>4, <1>6, <2>1
<1>11. CASE HandleCmdDescribe(c, p)
  <2>1. \/ Answer(c, p, 200, SessionId, conn[c].st) /\ AddClient(c)
        \/ Answer(c, p, 404, conn[c].sess, conn[c].st) /\ UNCHANGED clients
    BY <1>11, Zenon DEF HandleCmdDescribe
  <2> QED BY <1>4, <1>6, <2>1
<1>12. CASE HandleCmdSetup(c, p)
  <2>1. /\ UNCHANGED clients
        /\ \/ Answer(c, p, 200, conn[c].sess, conn[c].st) \/ Answer(c, p, 461, conn[c].sess, conn[c].st)
           \/ Answer(c, p, 500, conn[c].sess, conn[c].st)
    BY <1>12, SetupIs
  <2> QED BY <1>4, <1>6, <2>1
<1>13. CASE HandleCmdPlay(c, p) \/ HandleCmdTeardown(c, p)
  <2>1. \/ NullRtp(c)
        \/ Answer(c, p, 200, conn[c].sess, conn[c].st) /\ UNCHANGED clients
        \/ Answer(c, p, 200, conn[c].sess, "kDisconnecting") /\ UNCHANGED clients
    BY <1>13, Zenon DEF HandleCmdPlay, HandleCmdTeardown
  <2> QED BY <1>4, <1>6, <1>9, <2>1
<1> QED BY <1>1, <1>8, <1>10, <1>11, <1>12, <1>13

LEMMA InitOrder == Init => OrderInv
<1> SUFFICES ASSUME Init PROVE OrderInv
  OBVIOUS
<1>1. /\ recv = [c \in Conns |-> <<>>] /\ clients = {}
      /\ phase = "events" /\ queue = <<>> /\ batch = <<>>
      /\ sender = [pc |-> "idle", frame |-> 0, part |-> 0, todo |-> {}, held |-> {}]
  BY Zenon DEF Init
<1>2. DOMAIN recv = Conns /\ (\A c \in Conns : recv[c] = <<>>) /\ sender.todo = {} /\ <<>> \in Seq(Packets)
  BY <1>1, EmptySeq
<1>3. RecvTyped
  BY <1>2, Zenon DEF RecvTyped
<1>4. EntryInv
  BY <1>1, <1>2 DEF EntryInv, OneEntry
<1>5. ASSUME NEW c \in Conns PROVE Lined(c) /\ Known(c) = {}
  <2>1. /\ Elements(recv[c]) = {} /\ Ordered(recv[c])
        /\ Sends(batch, c) = {} /\ Sends(queue, c) = {} /\ OrderedFor(batch, c) /\ OrderedFor(queue, c)
    BY <1>1, <1>2, EmptyHasNoSends
  <2> QED BY <2>1, Zenon DEF Lined, Known, AllBefore
<1>6. LineInv
  BY <1>1, <1>2, <1>5, Zenon DEF LineInv
<1> QED BY <1>3, <1>4, <1>6 DEF OrderInv

LEMMA NextOrder == Inv /\ OrderInv /\ [Next]_vars => OrderInv'
<1> SUFFICES ASSUME Inv, OrderInv, [Next]_vars PROVE OrderInv'
  OBVIOUS
<1>1. ASSUME NEW c \in Conns, Accept(c) \/ AcceptEMFILE(c) PROVE OrderInv'
  BY <1>1, OrderAccept
<1>2. ASSUME NEW c \in Conns, Receive(c) PROVE OrderInv'
  BY <1>2, OrderReceive
<1>3. ASSUME NEW c \in Conns, PeerCloses(c) \/ ForceCloseTimer(c) PROVE OrderInv'
  <2>1. HandleClose(c)
    BY <1>3, Zenon DEF PeerCloses, ForceCloseTimer
  <2> QED BY <2>1, OrderHandleClose
<1>4. CASE LoopStep
  BY <1>4, OrderDoPendingFunctors, OrderConnectDestroyed, OrderSendPacket DEF LoopStep
<1>5. CASE SenderStep
  BY <1>5, OrderPushFrame, OrderCollect, OrderSendRtpPacket, OrderDropReferences DEF SenderStep
<1>6. ASSUME UNCHANGED <<conn, recv, phase, queue, batch, sender, clients>> PROVE OrderInv'
  <2>1. Onward /\ ClientsTyped
    BY <1>6, Zenon DEF Onward, Inv, Typed
  <2> QED BY <1>6, <2>1, OrderUntouched
<1>7. CASE RemoveMediaSession
  <2>1. UNCHANGED <<conn, recv, phase, queue, batch, sender, clients>>
    BY <1>7, Zenon DEF RemoveMediaSession, loopVars
  <2> QED BY <1>6, <2>1
<1>8. CASE UNCHANGED vars
  BY <1>6, <1>8, Zenon DEF vars
<1> QED BY <1>1, <1>2, <1>3, <1>4, <1>5, <1>7, <1>8, Zenon DEF Next

\* The packets of every client stand in one line from the socket to the
\* sender, and a connection is on the list of clients at most once.
THEOREM PacketsStandInLine == Spec => []OrderInv
BY RtspInvariant, InitOrder, NextOrder, InitInv, NextInv, PTL DEF Spec

-----------------------------------------------------------------------------
(* Sequence numbers                                                        *)

\* The packets of c are numbered one after the other, and the next number
\* is the one that follows the last packet received.
Consecutive(s) == \A k \in 1..Len(s) - 1 : s[k + 1].seq = (s[k].seq + 1) % SeqModulus
Follows(n, s) == s # <<>> => n = (s[Len(s)].seq + 1) % SeqModulus

\* A channel that plays was set up; while clean, over UDP and with a socket.
SetUpInv(r, cl) ==
  /\ r.ch[0].play => r.ch[0].setup
  /\ r.ch[0].setup => r.alive /\ (cl => r.mode = Transports.udp /\ r.ch[0].rtpfd \in Fds)

SeqOK(c) ==
  /\ SetUpInv(rtp[c], clean)
  /\ rtp[c].alive \/ recv[c] # <<>> => conn[c].st \notin {"none", "refused"}
  /\ recv[c] # <<>> /\ Rtsp(conn[c]) => rtp[c].alive
  /\ clean /\ conn[c].st = "kConnected" /\ ~rtp[c].closed =>
       Consecutive(recv[c]) /\ Follows(rtp[c].ch[0].seq, recv[c])

SeqInv == \A c \in Conns : SeqOK(c)

\* How a step may move a connection, and what may happen to an RtpConnection
\* between two packets.
Moves(c) ==
  \/ conn'[c].st = conn[c].st
  \/ conn[c].st = "none"
  \/ Rtsp(conn[c]) /\ conn'[c].st = "kDisconnecting"
  \/ conn'[c].st \in {"kDisconnected", "gone"}
Quiet(r, x) == x.alive = r.alive /\ x.ch[0].seq = r.ch[0].seq /\ (r.closed => x.closed)

LEMMA NothingReceived == \A n : Consecutive(<<>>) /\ Follows(n, <<>>)
<1>1. Len(<<>>) = 0
  BY EmptySeq
<1> QED BY <1>1 DEF Consecutive, Follows

LEMMA SeqQuiet ==
    ASSUME NEW c \in Conns, SeqOK(c), recv'[c] = recv[c], clean' => clean, Moves(c),
           Quiet(rtp[c], rtp'[c]), SetUpInv(rtp'[c], clean')
    PROVE  SeqOK(c)'
<1>1. SetUpInv(rtp[c], clean)'
  BY Zenon DEF SetUpInv
<1>2. rtp[c].alive \/ recv[c] # <<>> => conn[c].st \notin {"none", "refused"}
  BY Zenon DEF SeqOK
<1>3. rtp'[c].alive = rtp[c].alive /\ rtp'[c].ch[0].seq = rtp[c].ch[0].seq /\ (rtp[c].closed => rtp'[c].closed)
  BY Zenon DEF Quiet
<1>4. CASE conn[c].st = "none"
  <2>1. ~rtp'[c].alive /\ recv'[c] = <<>>
    BY <1>2, <1>3, <1>4, Zenon
  <2> QED BY <1>1, <2>1, NothingReceived, Zenon DEF SeqOK
<1>5. CASE conn[c].st # "none"
  <2>1. \/ conn'[c].st = conn[c].st
        \/ Rtsp(conn[c]) /\ conn'[c].st = "kDisconnecting"
        \/ conn'[c].st \in {"kDisconnected", "gone"}
    BY <1>5, Zenon DEF Moves
  <2>2. /\ rtp'[c].alive \/ recv'[c] # <<>> => conn'[c].st \notin {"none", "refused"}
        /\ Rtsp(conn'[c]) => Rtsp(conn[c])
        /\ conn'[c].st = "kConnected" => conn[c].st = "kConnected"
    <3>1. CASE conn'[c].st = conn[c].st
      BY <1>2, <1>3, <3>1, Zenon DEF Rtsp
    <3>2. CASE conn'[c].st = "kDisconnecting" /\ Rtsp(conn[c])
      BY <3>2
    <3>3. CASE conn'[c].st \in {"kDisconnected", "gone"}
      BY <3>3 DEF Rtsp
    <3> QED BY <2>1, <3>1, <3>2, <3>3
  <2>3. recv'[c] # <<>> /\ Rtsp(conn'[c]) => rtp'[c].alive
    BY <1>3, <2>2, Zenon DEF SeqOK
  <2>4. ASSUME clean', conn'[c].st = "kConnected", ~rtp'[c].closed
        PROVE  Consecutive(recv'[c]) /\ Follows(rtp'[c].ch[0].seq, recv'[c])
    <3>1. clean /\ conn[c].st = "kConnected" /\ ~rtp[c].closed
      BY <1>3, <2>2, <2>4, Zenon
    <3>2. Consecutive(recv[c]) /\ Follows(rtp[c].ch[0].seq, recv[c])
      BY <3>1, Zenon DEF SeqOK
    <3> QED BY <1>3, <3>2, Zenon
  <2> QED BY <1>1, <2>2, <2>3, <2>4, Zenon DEF SeqOK
<1> QED BY <1>4, <1>5

LEMMA SeqSame ==
    ASSUME NEW c \in Conns, SeqOK(c), recv'[c] = recv[c], clean' => clean, Moves(c), rtp'[c] = rtp[c]
    PROVE  SeqOK(c)'
<1>1. Quiet(rtp[c], rtp'[c])
  BY Zenon DEF Quiet
<1>2. SetUpInv(rtp'[c], clean')
  BY Zenon DEF SeqOK, SetUpInv
<1> QED BY <1>1, <1>2, SeqQuiet

\* An RtpConnection that is destroyed, and a new one.
LEMMA FreshSetUp ==
    ASSUME NEW cl
    PROVE  SetUpInv(DeadRtp, cl) /\ SetUpInv(NewRtp, cl) /\ ~DeadRtp.alive /\ NewRtp.alive
<1>1. NoChannel.play = FALSE /\ NoChannel.setup = FALSE
  BY Zenon DEF NoChannel
<1> DEFINE g == [n \in Channels |-> NoChannel]
<1>2. g[0] = NoChannel
  BY ChannelNumbers
<1>3. NewRtp.ch = g /\ DeadRtp.ch = g
  <2>1. NewRtp.ch = g
    BY Zenon DEF NewRtp
  <2>2. DeadRtp.ch = NewRtp.ch
    BY Zenon DEF DeadRtp, NewRtp
  <2> QED BY <2>1, <2>2
<1> HIDE DEF g
<1>4. NewRtp.ch[0] = NoChannel /\ DeadRtp.ch[0] = NoChannel
  BY <1>2, <1>3
<1>5. SetUpInv(DeadRtp, cl) /\ SetUpInv(NewRtp, cl)
  BY <1>1, <1>4, Zenon DEF SetUpInv
<1> QED BY <1>5, NewRtpShape

LEMMA SeqDead ==
    ASSUME NEW c \in Conns, SeqOK(c), recv'[c] = recv[c], rtp'[c] = DeadRtp, ~Rtsp(conn'[c]),
           conn'[c].st = conn[c].st \/ conn'[c].st = "kDisconnected"
    PROVE  SeqOK(c)'
<1>1. SetUpInv(rtp[c], clean)' /\ ~rtp'[c].alive
  BY FreshSetUp
<1>2. recv'[c] # <<>> => conn'[c].st \notin {"none", "refused"}
  <2>1. CASE conn'[c].st = conn[c].st
    BY <2>1, Zenon DEF SeqOK
  <2>2. CASE conn'[c].st = "kDisconnected"
    BY <2>2
  <2> QED BY <2>1, <2>2
<1>3. conn'[c].st # "kConnected"
  BY DEF Rtsp
<1> QED BY <1>1, <1>2, <1>3, Zenon DEF SeqOK

LEMMA SeqNew ==
    ASSUME NEW c \in Conns, SeqOK(c), recv'[c] = recv[c], ~rtp[c].alive, rtp'[c] = NewRtp,
           Rtsp(conn[c]), Rtsp(conn'[c])
    PROVE  SeqOK(c)'
<1>1. SetUpInv(rtp[c], clean)' /\ rtp'[c].alive
  BY FreshSetUp
<1>2. recv'[c] = <<>>
  BY Zenon DEF SeqOK
<1>3. conn'[c].st \notin {"none", "refused"}
  BY DEF Rtsp
<1> QED BY <1>1, <1>2, <1>3, NothingReceived, Zenon DEF SeqOK

LEMMA StartPlayQuiet ==
    ASSUME NEW r, RtpShape(r), NEW cl, SetUpInv(r, cl)
    PROVE  Quiet(r, StartPlay(r)) /\ SetUpInv(StartPlay(r), cl)
<1> DEFINE g == [n \in Channels |-> [r.ch[n] EXCEPT !.play = @ \/ r.ch[n].setup]]
           s == StartPlay(r)
<1>1. ChannelShape(r.ch[0]) /\ {"alive", "closed", "idr", "mode", "ch"} \subseteq DOMAIN r
  BY ChannelNumbers, Zenon DEF RtpShape
<1>2. s.alive = r.alive /\ s.closed = r.closed /\ s.mode = r.mode /\ s.ch = g
  BY <1>1, Zenon DEF StartPlay
<1>3. g[0] = [r.ch[0] EXCEPT !.play = @ \/ r.ch[0].setup]
  BY ChannelNumbers, Zenon
<1>4. /\ g[0].play = (r.ch[0].play \/ r.ch[0].setup)
      /\ g[0].setup = r.ch[0].setup /\ g[0].seq = r.ch[0].seq /\ g[0].rtpfd = r.ch[0].rtpfd
  BY <1>1, <1>3, Zenon DEF ChannelShape
<1> HIDE DEF g, s
<1>5. Quiet(r, s)
  BY <1>2, <1>4, Zenon DEF Quiet
<1>6. SetUpInv(s, cl)
  BY <1>2, <1>4, Zenon DEF SetUpInv
<1> QED BY <1>5, <1>6 DEF s

LEMMA TeardownQuiet ==
    ASSUME NEW r, RtpShape(r), NEW cl, SetUpInv(r, cl)
    PROVE  Quiet(r, Teardown(r)) /\ SetUpInv(Teardown(r), cl) /\ Teardown(r).closed
<1> DEFINE g == [n \in Channels |-> [r.ch[n] EXCEPT !.play = FALSE]]
           s == [r EXCEPT !.closed = TRUE, !.ch = g]
<1>1. ChannelShape(r.ch[0]) /\ {"alive", "closed", "idr", "mode", "ch"} \subseteq DOMAIN r
  BY ChannelNumbers, Zenon DEF RtpShape
<1>2. s.alive = r.alive /\ s.closed = TRUE /\ s.mode = r.mode /\ s.ch = g
  BY <1>1, Zenon
<1>3. g[0] = [r.ch[0] EXCEPT !.play = FALSE]
  BY ChannelNumbers, Zenon
<1>4. /\ g[0].play = FALSE
      /\ g[0].setup = r.ch[0].setup /\ g[0].seq = r.ch[0].seq /\ g[0].rtpfd = r.ch[0].rtpfd
  BY <1>1, <1>3, Zenon DEF ChannelShape
<1>5. (r.closed /\ Teardown(r) = r) \/ Teardown(r) = s
  BY Zenon DEF Teardown
<1> HIDE DEF g, s
<1>6. Quiet(r, s) /\ Quiet(r, r)
  BY <1>2, <1>4, Zenon DEF Quiet
<1>7. SetUpInv(s, cl)
  BY <1>2, <1>4, Zenon DEF SetUpInv
<1>8. s.closed
  BY <1>2
<1> QED BY <1>5, <1>6, <1>7, <1>8, Zenon

\* setRtpHeader() numbers the packet of a channel that plays.
LEMMA SetRtpHeaderNumbers ==
    ASSUME NEW r, RtpShape(r), NEW cl, SetUpInv(r, cl)
    PROVE  /\ SetRtpHeader(r).alive = r.alive /\ SetRtpHeader(r).closed = r.closed
           /\ SetUpInv(SetRtpHeader(r), cl)
           /\ r.ch[0].play => SetRtpHeader(r).ch[0].seq = (r.ch[0].seq + 1) % SeqModulus
           /\ ~r.ch[0].play => SetRtpHeader(r).ch[0].seq = r.ch[0].seq
<1> DEFINE x == IF r.ch[0].play THEN (r.ch[0].seq + 1) % SeqModulus ELSE r.ch[0].seq
           h == [r.ch[0] EXCEPT !.seq = x]
           g == [r.ch EXCEPT ![0] = h]
           s == SetRtpHeader(r)
<1>1. /\ ChannelShape(r.ch[0]) /\ {"alive", "closed", "idr", "mode", "ch"} \subseteq DOMAIN r
      /\ DOMAIN r.ch = Channels /\ 0 \in Channels
  BY ChannelNumbers, Zenon DEF RtpShape
<1>2. s.alive = r.alive /\ s.closed = r.closed /\ s.mode = r.mode /\ s.ch = g
  BY <1>1, Zenon DEF SetRtpHeader
<1>3. g[0] = h
  BY <1>1, Zenon
<1>4. h.play = r.ch[0].play /\ h.setup = r.ch[0].setup /\ h.rtpfd = r.ch[0].rtpfd /\ h.seq = x
  BY <1>1, Zenon DEF ChannelShape
<1>5. (r.ch[0].play => x = (r.ch[0].seq + 1) % SeqModulus) /\ (~r.ch[0].play => x = r.ch[0].seq)
  BY Zenon
<1> HIDE DEF x, h, g, s
<1>6. SetUpInv(s, cl)
  BY <1>2, <1>3, <1>4, Zenon DEF SetUpInv
<1> QED BY <1>2, <1>3, <1>4, <1>5, <1>6, Zenon DEF s

\* A set-up leaves the sequence number, and a clean one the UDP transport.
LEMMA SetUpQuiet ==
    ASSUME RtpTyped, NEW c \in Conns, rtp[c].alive, NEW n \in Channels, SetUpInv(rtp[c], clean),
           SetupRtpOverTcp(c, n) \/ SetupRtpOverUdp(c, n) \/ SetupRtpOverUdpFails(c, n)
    PROVE  /\ clean' => clean
           /\ \A d \in Conns : d # c => rtp'[d] = rtp[d]
           /\ Quiet(rtp[c], rtp'[c]) /\ SetUpInv(rtp'[c], clean')
<1>1. /\ DOMAIN rtp = Conns /\ {"alive", "closed", "idr", "mode", "ch"} \subseteq DOMAIN rtp[c]
      /\ DOMAIN rtp[c].ch = Channels /\ ChannelShape(rtp[c].ch[n]) /\ ChannelShape(rtp[c].ch[0])
      /\ 0 \in Channels
  BY ChannelNumbers, Zenon DEF RtpTyped, RtpShape
<1>2. ASSUME NEW m, NEW f1, NEW h, rtp' = [rtp EXCEPT ![c].mode = m, ![c].ch[n] = h],
             h.setup = TRUE, h.rtpfd = f1, h.seq = rtp[c].ch[n].seq, h.play = rtp[c].ch[n].play,
             clean' => m = Transports.udp /\ f1 \in Fds /\ clean
      PROVE  /\ \A d \in Conns : d # c => rtp'[d] = rtp[d]
             /\ Quiet(rtp[c], rtp'[c]) /\ SetUpInv(rtp'[c], clean')
  <2>1. h.setup = TRUE /\ h.rtpfd = f1 /\ h.seq = rtp[c].ch[n].seq /\ h.play = rtp[c].ch[n].play
    BY <1>2
  <2>2. rtp' = [rtp EXCEPT ![c].mode = m, ![c].ch[n] = h]
    BY <1>2
  <2>3. /\ \A d \in Conns : d # c => rtp'[d] = rtp[d]
        /\ rtp'[c].alive = rtp[c].alive /\ rtp'[c].closed = rtp[c].closed /\ rtp'[c].mode = m
        /\ rtp'[c].ch = [rtp[c].ch EXCEPT ![n] = h]
    BY <1>1, <2>2, Zenon
  <2>4. (n = 0 => rtp'[c].ch[0] = h) /\ (n # 0 => rtp'[c].ch[0] = rtp[c].ch[0])
    BY <1>1, <2>3, Zenon
  <2>5. Quiet(rtp[c], rtp'[c])
    BY <2>1, <2>3, <2>4, Zenon DEF Quiet
  <2>6. SetUpInv(rtp'[c], clean')
    <3>1. CASE n = 0
      BY <1>2, <2>1, <2>3, <2>4, <3>1, Zenon DEF SetUpInv
    <3>2. CASE n # 0
      BY <1>2, <2>3, <2>4, <3>2, Zenon DEF SetUpInv
    <3> QED BY <3>1, <3>2
  <2> QED BY <2>3, <2>5, <2>6
<1>3. CASE SetupRtpOverTcp(c, n)
  <2> DEFINE h == [rtp[c].ch[n] EXCEPT !.setup = TRUE, !.rtpfd = conn[c].fd, !.rtcpfd = conn[c].fd]
  <2>1. rtp' = [rtp EXCEPT ![c].mode = Transports.tcp, ![c].ch[n] = h] /\ clean' = FALSE
    BY <1>3, Zenon DEF SetupRtpOverTcp
  <2>2. h.setup = TRUE /\ h.rtpfd = conn[c].fd /\ h.seq = rtp[c].ch[n].seq /\ h.play = rtp[c].ch[n].play
    BY <1>1, Zenon DEF ChannelShape
  <2> HIDE DEF h
  <2>3. ~clean'
    BY <2>1
  <2> QED BY <1>2, <2>1, <2>2, <2>3, Zenon
<1>4. CASE SetupRtpOverUdp(c, n)
  <2> DEFINE f1 == LowestFree(owner, 1)
             f2 == LowestFree(owner, 2)
             h == [rtp[c].ch[n] EXCEPT !.setup = TRUE, !.rtpfd = f1, !.rtcpfd = f2, !.peer = "rtcp"]
  <2>1. /\ f2 # 0
        /\ rtp' = [rtp EXCEPT ![c].mode = Transports.udp, ![c].ch[n] = h]
        /\ clean' = (clean /\ ~rtp[c].ch[n].setup)
    BY <1>4, Zenon DEF SetupRtpOverUdp
  <2>2. f1 \in Fds
    BY <2>1, TwoFree
  <2> HIDE DEF f1, f2
  <2>3. h.setup = TRUE /\ h.rtpfd = f1 /\ h.seq = rtp[c].ch[n].seq /\ h.play = rtp[c].ch[n].play
    BY <1>1, Zenon DEF ChannelShape
  <2> HIDE DEF h
  <2>4. clean' => Transports.udp = Transports.udp /\ f1 \in Fds /\ clean
    BY <2>1, <2>2, Zenon
  <2> QED BY <1>2, <2>1, <2>3, <2>4, Zenon
<1>5. CASE SetupRtpOverUdpFails(c, n)
  <2>1. PICK x, y : rtp' = [rtp EXCEPT ![c].ch[n].rtpfd = x, ![c].ch[n].rtcpfd = y]
    BY <1>5, Zenon DEF SetupRtpOverUdpFails
  <2>2. clean' = FALSE
    BY <1>5, Zenon DEF SetupRtpOverUdpFails
  <2> DEFINE h == [rtp[c].ch[n] EXCEPT !.rtpfd = x, !.rtcpfd = y]
  <2>3. h.setup = rtp[c].ch[n].setup /\ h.seq = rtp[c].ch[n].seq /\ h.play = rtp[c].ch[n].play
    BY <1>1, Zenon DEF ChannelShape
  <2>4. /\ \A d \in Conns : d # c => rtp'[d] = rtp[d]
        /\ rtp'[c].alive = rtp[c].alive /\ rtp'[c].closed = rtp[c].closed
        /\ rtp'[c].ch[n] = h /\ (n # 0 => rtp'[c].ch[0] = rtp[c].ch[0])
    BY <1>1, <2>1, Zenon
  <2> HIDE DEF h
  <2>5. /\ rtp'[c].ch[0].setup = rtp[c].ch[0].setup /\ rtp'[c].ch[0].seq = rtp[c].ch[0].seq
        /\ rtp'[c].ch[0].play = rtp[c].ch[0].play
    <3>1. CASE n = 0
      BY <2>3, <2>4, <3>1, Zenon
    <3>2. CASE n # 0
      BY <2>4, <3>2, Zenon
    <3> QED BY <3>1, <3>2
  <2>6. Quiet(rtp[c], rtp'[c])
    BY <2>4, <2>5, Zenon DEF Quiet
  <2>7. SetUpInv(rtp'[c], clean')
    BY <2>2, <2>4, <2>5, Zenon DEF SetUpInv
  <2> QED BY <2>2, <2>4, <2>6, <2>7
<1> QED BY <1>3, <1>4, <1>5

\* Steps that leave the packets and the RtpConnections alone, and steps that
\* change one RtpConnection.
LEMMA SeqUntouched ==
    ASSUME SeqInv, UNCHANGED <<rtp, recv, clean>>, \A c \in Conns : Moves(c)
    PROVE  SeqInv'
<1>1. ASSUME NEW c \in Conns PROVE SeqOK(c)'
  <2>1. /\ SeqOK(c) /\ Moves(c) /\ rtp'[c] = rtp[c] /\ recv'[c] = recv[c] /\ (clean' => clean)
    BY Zenon DEF SeqInv
  <2> QED BY <2>1, SeqSame
<1> QED BY <1>1, Zenon DEF SeqInv

LEMMA SeqOne ==
    ASSUME SeqInv, recv' = recv, clean' => clean, NEW c \in Conns, SeqOK(c)',
           \A d \in Conns : d # c => rtp'[d] = rtp[d] /\ Moves(d)
    PROVE  SeqInv'
<1>1. ASSUME NEW d \in Conns, d # c PROVE SeqOK(d)'
  <2>1. /\ SeqOK(d) /\ Moves(d) /\ rtp'[d] = rtp[d] /\ recv'[d] = recv[d]
    BY <1>1, Zenon DEF SeqInv
  <2> QED BY <2>1, SeqSame
<1> QED BY <1>1, Zenon DEF SeqInv

LEMMA SeqAccept ==
    ASSUME Inv, SeqInv, NEW c \in Conns, Accept(c) \/ AcceptEMFILE(c)
    PROVE  SeqInv'
<1>1. /\ ConnTyped /\ conn[c].st = "none" /\ UNCHANGED <<rtp, recv, clean>>
      /\ \/ UNCHANGED conn
         \/ conn' = [conn EXCEPT ![c] = [NoConn EXCEPT !.st = "kConnected", !.fd = LowestFree(owner, 1)]]
         \/ conn' = [conn EXCEPT ![c].st = "refused"]
  BY ZenonT(60) DEF Accept, AcceptEMFILE, Inv, Typed
<1>2. \A d \in Conns : d # c => conn'[d] = conn[d]
  BY <1>1, Zenon DEF ConnTyped
<1>3. \A d \in Conns : Moves(d)
  BY <1>1, <1>2, Zenon DEF Moves
<1> QED BY <1>1, <1>3, SeqUntouched

LEMMA SeqHandleClose ==
    ASSUME Inv, SeqInv, NEW c \in Conns, HandleClose(c)
    PROVE  SeqInv'
<1> DEFINE new == [NoConn EXCEPT !.st = "kDisconnected", !.fd = conn[c].fd]
<1>1. /\ ConnTyped /\ RtpTyped
      /\ conn' = [conn EXCEPT ![c] = new] /\ UNCHANGED <<recv, clean>>
      /\ rtp' = [rtp EXCEPT ![c] = DeadRtp] \/ UNCHANGED rtp
  BY Zenon DEF HandleClose, DestroyRtp, Inv, Typed
<1>2. new.st = "kDisconnected"
  BY Zenon DEF NoConn
<1> HIDE DEF new
<1>3. conn'[c] = new /\ \A d \in Conns : d # c => conn'[d] = conn[d]
  BY <1>1, PutConn, Zenon
<1>4. conn'[c].st = "kDisconnected" /\ ~Rtsp(conn'[c])
  BY <1>2, <1>3 DEF Rtsp
<1>5. \A d \in Conns : Moves(d)
  <2>1. Moves(c)
    BY <1>4 DEF Moves
  <2> QED BY <1>3, <2>1, Zenon DEF Moves
<1>6. CASE UNCHANGED rtp
  BY <1>1, <1>5, <1>6, SeqUntouched
<1>7. CASE rtp' = [rtp EXCEPT ![c] = DeadRtp]
  <2>1. rtp'[c] = DeadRtp /\ \A d \in Conns : d # c => rtp'[d] = rtp[d]
    BY <1>1, <1>7, PutRtp, Zenon
  <2>2. SeqOK(c) /\ recv'[c] = recv[c]
    BY <1>1, Zenon DEF SeqInv
  <2>3. SeqOK(c)'
    BY <1>4, <2>1, <2>2, SeqDead
  <2> QED BY <1>1, <1>5, <2>1, <2>3, SeqOne
<1> QED BY <1>1, <1>6, <1>7

LEMMA SeqConnectDestroyed ==
    ASSUME Inv, SeqInv, ConnectDestroyed
    PROVE  SeqInv'
<1> DEFINE c == Head(batch).c
           new == [NoConn EXCEPT !.st = "gone"]
<1>1. /\ ConnTyped /\ LoopTyped /\ phase = "functors" /\ PopFunctor
      /\ conn' = [conn EXCEPT ![c] = new] /\ UNCHANGED <<rtp, recv, clean>>
  BY Zenon DEF ConnectDestroyed, Inv, Typed
<1>2. c \in Conns
  BY <1>1, Popped DEF Functors
<1>3. new.st = "gone"
  BY Zenon DEF NoConn
<1> HIDE DEF c, new
<1>4. conn'[c] = new /\ \A d \in Conns : d # c => conn'[d] = conn[d]
  BY <1>1, <1>2, PutConn, Zenon
<1>5. \A d \in Conns : Moves(d)
  BY <1>3, <1>4 DEF Moves
<1> QED BY <1>1, <1>5, SeqUntouched

LEMMA SeqDropReferences ==
    ASSUME Inv, SeqInv, DropReferences
    PROVE  SeqInv'
<1> DEFINE dead == {c \in sender.held : ~HasRtsp(c)}
<1>1. rtp' = [c \in Conns |-> IF c \in dead THEN DeadRtp ELSE rtp[c]] /\ UNCHANGED <<conn, recv, clean>>
  BY Zenon DEF DropReferences, senderKeeps
<1>2. \A c \in dead : ~Rtsp(conn[c])
  BY TheFunctions, Zenon
<1> HIDE DEF dead
<1>3. ASSUME NEW c \in Conns PROVE SeqOK(c)'
  <2>1. SeqOK(c) /\ recv'[c] = recv[c] /\ conn'[c] = conn[c] /\ Moves(c)
    BY <1>1, Zenon DEF SeqInv, Moves
  <2>2. CASE c \in dead
    <3>1. rtp'[c] = DeadRtp
      BY <1>1, <2>2
    <3>2. ~Rtsp(conn'[c]) /\ conn'[c].st = conn[c].st
      BY <1>2, <2>1, <2>2, Zenon
    <3> QED BY <2>1, <3>1, <3>2, SeqDead
  <2>3. CASE c \notin dead
    <3>1. rtp'[c] = rtp[c]
      BY <1>1, <2>3
    <3>2. clean' => clean
      BY <1>1
    <3> QED BY <2>1, <3>1, <3>2, SeqSame
  <2> QED BY <2>2, <2>3
<1> QED BY <1>3, Zenon DEF SeqInv

\* What is written for c carries the next number.
LEMMA Numbered ==
    ASSUME NEW s \in Seq(Packets), NEW pkt \in Packets, Consecutive(s), Follows(pkt.seq, s)
    PROVE  /\ Consecutive(Append(s, pkt)) /\ Follows((pkt.seq + 1) % SeqModulus, Append(s, pkt))
           /\ Append(s, pkt) # <<>>
<1> DEFINE t == Append(s, pkt)
           n == Len(s)
<1>1. /\ n \in Nat /\ Len(t) = n + 1 /\ t[n + 1] = pkt /\ \A i \in 1..n : t[i] = s[i]
  BY AppendProperties, LenProperties
<1> HIDE DEF t
<1>2. Consecutive(t)
  <2> SUFFICES ASSUME NEW k \in 1..n PROVE t[k + 1].seq = (t[k].seq + 1) % SeqModulus
    BY <1>1 DEF Consecutive
  <2>1. t[k] = s[k]
    BY <1>1
  <2>2. CASE k = n
    <3>1. s # <<>>
      BY <1>1, <2>2, EmptySeq
    <3>2. pkt.seq = (s[n].seq + 1) % SeqModulus
      BY <3>1 DEF Follows
    <3>3. t[k + 1] = pkt
      BY <1>1, <2>2
    <3> QED BY <2>1, <2>2, <3>2, <3>3
  <2>3. CASE k # n
    <3>1. k \in 1..n - 1 /\ k + 1 \in 1..n
      BY <1>1, <2>3
    <3>2. s[k + 1].seq = (s[k].seq + 1) % SeqModulus
      BY <3>1 DEF Consecutive
    <3>3. t[k + 1] = s[k + 1]
      BY <1>1, <3>1
    <3> QED BY <2>1, <3>2, <3>3
  <2> QED BY <2>2, <2>3
<1>3. Follows((pkt.seq + 1) % SeqModulus, t) /\ t # <<>>
  <2>1. t[Len(t)] = pkt
    BY <1>1
  <2>2. t # <<>>
    <3> SUFFICES ASSUME t = <<>> PROVE FALSE
      OBVIOUS
    <3>1. Len(t) = 0
      BY EmptySeq
    <3> QED BY <1>1, <3>1
  <2> QED BY <2>1, <2>2, Zenon DEF Follows
<1> QED BY <1>2, <1>3 DEF t

\* A packet is written, dropped or refused by a live RtpConnection.
LEMMA SeqSent ==
    ASSUME NEW c \in Conns, SeqOK(c), UNCHANGED <<conn, clean>>, rtp[c].alive, rtp'[c].alive,
           SetUpInv(rtp'[c], clean),
           clean /\ conn[c].st = "kConnected" /\ ~rtp'[c].closed =>
             Consecutive(recv'[c]) /\ Follows(rtp'[c].ch[0].seq, recv'[c])
    PROVE  SeqOK(c)'
<1>1. conn[c].st \notin {"none", "refused"}
  BY Zenon DEF SeqOK
<1>2. SetUpInv(rtp[c], clean)'
  BY Zenon DEF SetUpInv
<1> QED BY <1>1, <1>2, Zenon DEF SeqOK

\* While clean a playing channel writes to its own socket, so no number is
\* lost; a failed sendto() closes the channel.
LEMMA SeqSendPacket ==
    ASSUME Inv, RecvTyped, SeqInv, SendPacket
    PROVE  SeqInv'
<1>1. LoopTyped /\ RtpTyped /\ phase = "functors" /\ fault = "none" /\ PopFunctor /\ UNCHANGED <<owner, conn, clean>>
  BY Zenon DEF SendPacket, Inv, Typed
<1>2. Head(batch) \in Functors
  BY <1>1, Popped
<1>3. PICK c \in Conns : c = Head(batch).c
  BY <1>2 DEF Functors
<1> DEFINE r == rtp[c]
           packet(port) == [frame |-> Head(batch).frame, part |-> Head(batch).part, seq |-> rtp[c].ch[0].seq,
                            port |-> port]
           Sent(port) == recv' = [recv EXCEPT ![c] = Append(recv[c], packet(port))]
           Header == rtp' = [rtp EXCEPT ![c] = SetRtpHeader(rtp[c])]
<1>3a. \/ UNCHANGED <<rtp, recv>>
       \/ r.alive /\ ~r.ch[0].play /\ Header /\ UNCHANGED recv
       \/ /\ r.alive /\ r.ch[0].play /\ r.mode = Transports.tcp /\ Header
          /\ Sent("interleaved") \/ UNCHANGED recv
       \/ /\ r.alive /\ r.ch[0].play /\ r.mode = Transports.udp /\ Header
          /\ \/ owner[r.ch[0].rtpfd][1] = "conn" /\ UNCHANGED recv
             \/ owner[r.ch[0].rtpfd][1] = "rtp" /\ \E port \in UdpPorts : Sent(port)
       \/ /\ r.alive /\ r.ch[0].play
          /\ rtp' = [rtp EXCEPT ![c] = Teardown(SetRtpHeader(rtp[c]))] /\ UNCHANGED recv
  BY <1>3, ZenonT(60) DEF SendPacket
<1> HIDE DEF packet, Header
<1>3b. PICK port \in Ports :
         \/ UNCHANGED <<rtp, recv>>
         \/ r.alive /\ ~r.ch[0].play /\ Header /\ UNCHANGED recv
         \/ /\ r.alive /\ r.ch[0].play /\ r.mode = Transports.tcp /\ Header
            /\ Sent(port) \/ UNCHANGED recv
         \/ /\ r.alive /\ r.ch[0].play /\ r.mode = Transports.udp /\ Header
            /\ \/ owner[r.ch[0].rtpfd][1] = "conn" /\ UNCHANGED recv
               \/ owner[r.ch[0].rtpfd][1] = "rtp" /\ Sent(port)
         \/ /\ r.alive /\ r.ch[0].play
            /\ rtp' = [rtp EXCEPT ![c] = Teardown(SetRtpHeader(rtp[c]))] /\ UNCHANGED recv
  <2>1. "interleaved" \in Ports /\ UdpPorts \subseteq Ports
    BY DEF Ports
  <2> HIDE DEF Sent
  <2> QED BY <1>3a, <2>1, Zenon
<1> DEFINE pkt == packet(port)
           Deliver == recv' = [recv EXCEPT ![c] = Append(recv[c], pkt)]
<1>4. \/ UNCHANGED <<rtp, recv>>
      \/ r.alive /\ ~r.ch[0].play /\ Header /\ UNCHANGED recv
      \/ r.alive /\ r.ch[0].play /\ r.mode = Transports.tcp /\ Header /\ (Deliver \/ UNCHANGED recv)
      \/ /\ r.alive /\ r.ch[0].play /\ r.mode = Transports.udp /\ Header
         /\ \/ owner[r.ch[0].rtpfd][1] = "conn" /\ UNCHANGED recv
            \/ owner[r.ch[0].rtpfd][1] = "rtp" /\ Deliver
      \/ /\ r.alive /\ r.ch[0].play
         /\ rtp' = [rtp EXCEPT ![c] = Teardown(SetRtpHeader(rtp[c]))] /\ UNCHANGED recv
  BY <1>3b
<1> USE DEF Header
<1>5. SeqOK(c) /\ SetUpInv(rtp[c], clean) /\ RtpShape(rtp[c])
  BY <1>1, Zenon DEF SeqInv, SeqOK, RtpTyped
<1>6. /\ SetRtpHeader(r).alive = r.alive /\ SetRtpHeader(r).closed = r.closed
      /\ SetUpInv(SetRtpHeader(r), clean) /\ RtpShape(SetRtpHeader(r))
      /\ r.ch[0].play => SetRtpHeader(r).ch[0].seq = (r.ch[0].seq + 1) % SeqModulus
      /\ ~r.ch[0].play => SetRtpHeader(r).ch[0].seq = r.ch[0].seq
  BY <1>5, SetRtpHeaderNumbers, SetRtpHeaderAlike
<1>7. pkt \in Packets /\ pkt.seq = r.ch[0].seq
  <2>1. rtp[c].ch[0].seq \in Nat
    BY <1>1, ChannelNumbers, Zenon DEF RtpTyped, RtpShape, ChannelShape
  <2> QED BY <1>2, <2>1 DEF Packets, Functors, packet
<1>8. DOMAIN recv = Conns /\ recv[c] \in Seq(Packets)
  BY Zenon DEF RecvTyped
<1> HIDE DEF pkt
<1>9. Header => rtp'[c] = SetRtpHeader(r) /\ \A d \in Conns : d # c => rtp'[d] = rtp[d]
  BY <1>1, PutRtp, Zenon
<1>10. /\ Deliver => recv'[c] = Append(recv[c], pkt)
       /\ Deliver \/ UNCHANGED recv => \A d \in Conns : d # c => recv'[d] = recv[d]
  BY <1>8, Zenon
<1>11. ASSUME SeqOK(c)', Deliver \/ UNCHANGED recv, \A d \in Conns : d # c => rtp'[d] = rtp[d]
       PROVE  SeqInv'
  <2>1. ASSUME NEW d \in Conns, d # c PROVE SeqOK(d)'
    <3>1. /\ SeqOK(d) /\ rtp'[d] = rtp[d] /\ recv'[d] = recv[d] /\ (clean' => clean) /\ Moves(d)
      BY <1>1, <1>10, <1>11, <2>1, Zenon DEF SeqInv, Moves
    <3> QED BY <3>1, SeqSame
  <2> QED BY <1>11, <2>1, Zenon DEF SeqInv
<1>12. ASSUME Deliver, r.ch[0].play, SetRtpHeader(r).closed = r.closed,
              clean, conn[c].st = "kConnected", ~r.closed
       PROVE  Consecutive(recv'[c]) /\ Follows(SetRtpHeader(r).ch[0].seq, recv'[c])
  <2>1. Consecutive(recv[c]) /\ Follows(pkt.seq, recv[c])
    BY <1>5, <1>7, <1>12, Zenon DEF SeqOK
  <2>2. /\ Consecutive(Append(recv[c], pkt)) /\ Follows((pkt.seq + 1) % SeqModulus, Append(recv[c], pkt))
    BY <1>7, <1>8, <2>1, Numbered
  <2> QED BY <1>6, <1>7, <1>10, <1>12, <2>2, Zenon
<1> HIDE DEF Deliver
<1>13. CASE UNCHANGED <<rtp, recv>>
  <2>1. \A d \in Conns : Moves(d)
    BY <1>1, Zenon DEF Moves
  <2> QED BY <1>1, <1>13, <2>1, SeqUntouched
<1>14. CASE r.alive /\ ~r.ch[0].play /\ Header /\ UNCHANGED recv
  <2>1. rtp'[c] = SetRtpHeader(r) /\ (\A d \in Conns : d # c => rtp'[d] = rtp[d])
    BY <1>9, <1>14
  <2>2. Quiet(rtp[c], rtp'[c]) /\ SetUpInv(rtp'[c], clean')
    BY <1>1, <1>6, <1>14, <2>1, Zenon DEF Quiet, SetUpInv
  <2>3. recv'[c] = recv[c] /\ (clean' => clean) /\ Moves(c)
    BY <1>1, <1>14, Zenon DEF Moves
  <2>4. SeqOK(c)'
    BY <1>5, <2>2, <2>3, SeqQuiet
  <2> QED BY <1>11, <1>14, <2>1, <2>4
<1>15. CASE r.alive /\ r.ch[0].play /\ r.mode = Transports.tcp /\ Header /\ (Deliver \/ UNCHANGED recv)
  <2>1. rtp'[c] = SetRtpHeader(r) /\ (\A d \in Conns : d # c => rtp'[d] = rtp[d])
    BY <1>9, <1>15
  <2>2. ~clean
    <3>1. Transports.tcp # Transports.udp
      BY DEF Transports
    <3> QED BY <1>5, <1>15, <3>1, Zenon DEF SetUpInv
  <2>3. rtp'[c].alive /\ SetUpInv(rtp'[c], clean)
    BY <1>6, <1>15, <2>1, Zenon
  <2>4. SeqOK(c)'
    BY <1>1, <1>5, <1>15, <2>2, <2>3, SeqSent, Zenon
  <2> QED BY <1>11, <1>15, <2>1, <2>4
<1>16. CASE /\ r.alive /\ r.ch[0].play /\ r.mode = Transports.udp /\ Header
            /\ \/ owner[r.ch[0].rtpfd][1] = "conn" /\ UNCHANGED recv
               \/ owner[r.ch[0].rtpfd][1] = "rtp" /\ Deliver
  <2>1. rtp'[c] = SetRtpHeader(r) /\ (\A d \in Conns : d # c => rtp'[d] = rtp[d])
    BY <1>9, <1>16
  <2>2. ASSUME clean PROVE Deliver
    <3>1. r.ch[0].rtpfd \in Fds
      BY <1>5, <1>16, <2>2, Zenon DEF SetUpInv
    <3>2. r.ch[0].rtpfd \in FdsOf(r)
      BY ChannelNumbers, InFdsOf
    <3>3. Holds(c, r.ch[0].rtpfd)
      BY <1>16, <3>2 DEF Holds
    <3>4. owner[r.ch[0].rtpfd] = <<"rtp", c>>
      BY <1>1, <2>2, <3>1, <3>3, Zenon DEF Inv, OwnInv, Owned
    <3>5. owner[r.ch[0].rtpfd][1] # "conn"
      BY <3>4
    <3> QED BY <1>16, <3>5, Zenon
  <2>3. rtp'[c].alive /\ SetUpInv(rtp'[c], clean)
    BY <1>6, <1>16, <2>1, Zenon
  <2>4. ASSUME clean, conn[c].st = "kConnected", ~rtp'[c].closed
        PROVE  Consecutive(recv'[c]) /\ Follows(rtp'[c].ch[0].seq, recv'[c])
    <3>1. Deliver /\ r.ch[0].play /\ SetRtpHeader(r).closed = r.closed /\ ~r.closed
      BY <1>6, <1>16, <2>1, <2>2, <2>4, Zenon
    <3> QED BY <1>12, <2>1, <2>4, <3>1, Zenon
  <2>5. SeqOK(c)'
    BY <1>1, <1>5, <1>16, <2>3, <2>4, SeqSent, Zenon
  <2>6. Deliver \/ UNCHANGED recv
    BY <1>16, Zenon
  <2> QED BY <1>11, <2>1, <2>5, <2>6
<1>17. CASE /\ r.alive /\ r.ch[0].play
            /\ rtp' = [rtp EXCEPT ![c] = Teardown(SetRtpHeader(rtp[c]))] /\ UNCHANGED recv
  <2> DEFINE x == Teardown(SetRtpHeader(r))
  <2>1. /\ Quiet(SetRtpHeader(r), x) /\ SetUpInv(x, clean) /\ x.closed
    BY <1>6, TeardownQuiet
  <2>2. rtp'[c] = x /\ \A d \in Conns : d # c => rtp'[d] = rtp[d]
    BY <1>1, <1>17, PutRtp, Zenon
  <2> HIDE DEF x
  <2>3. x.alive
    BY <1>6, <1>17, <2>1, Zenon DEF Quiet
  <2>4. rtp'[c].alive /\ SetUpInv(rtp'[c], clean) /\ rtp'[c].closed
    BY <2>1, <2>2, <2>3, Zenon
  <2>5. SeqOK(c)'
    BY <1>1, <1>5, <1>17, <2>4, SeqSent, Zenon
  <2> QED BY <1>11, <1>17, <2>2, <2>5
<1> QED BY <1>4, <1>13, <1>14, <1>15, <1>16, <1>17

LEMMA SeqReceive ==
    ASSUME Inv, SeqInv, NEW c \in Conns, Receive(c)
    PROVE  SeqInv'
<1> DEFINE p == ParseRequest(conn[c].req, conn[c].buf \o Segment(c))
<1>1. /\ HasSocket(c) /\ UNCHANGED recv
      /\ \/ HandleRtcp(c, p) \/ KeepParsing(c, p)
         \/ HandleCmdOption(c, p) \/ HandleCmdDescribe(c, p) \/ HandleCmdSetup(c, p)
         \/ HandleCmdPlay(c, p) \/ HandleCmdTeardown(c, p) \/ HandleCmdGetParamter(c, p)
  BY Zenon DEF Receive, loopVars
<1>2. ReqShape(p.q)
  <2>1. ReqShape(conn[c].req)
    BY Zenon DEF Inv, Typed, ConnTyped, ConnShape
  <2> QED BY <2>1, ParseShape
<1>3. Rtsp(conn[c])
  BY <1>1, TheFunctions, Zenon DEF HasSocket
<1>4. conn[c].st \in {"kConnected", "kDisconnecting"} /\ "kDisconnecting" \in {"kConnected", "kDisconnecting"}
  BY <1>3 DEF Rtsp
<1>5. /\ ConnTyped /\ RtpTyped /\ RtpShape(rtp[c])
      /\ SeqOK(c) /\ SetUpInv(rtp[c], clean) /\ recv'[c] = recv[c]
  BY <1>1, Zenon DEF Inv, Typed, RtpTyped, SeqInv, SeqOK
<1>6. p.q.channel \in Channels
  BY <1>2 DEF ReqShape
<1> HIDE DEF p
<1>7. ASSUME NEW status, NEW sess, NEW st, st \in {conn[c].st, "kDisconnecting"},
             Answer(c, p, status, sess, st)
      PROVE  (\A d \in Conns : Moves(d)) /\ Rtsp(conn'[c])
  <2>1. st \in {"kConnected", "kDisconnecting"}
    BY <1>4, <1>7
  <2>2. conn'[c].st = st /\ \A d \in Conns : d # c => conn'[d] = conn[d]
    BY <1>2, <1>3, <1>5, <1>7, <2>1, AnswerIs
  <2>3. Moves(c)
    BY <1>3, <1>7, <2>2, Zenon DEF Moves
  <2>4. \A d \in Conns : Moves(d)
    BY <2>2, <2>3, Zenon DEF Moves
  <2> QED BY <2>1, <2>2, <2>4 DEF Rtsp
<1>8. ASSUME \A d \in Conns : Moves(d), clean' => clean, \A d \in Conns : d # c => rtp'[d] = rtp[d],
             Quiet(rtp[c], rtp'[c]), SetUpInv(rtp'[c], clean')
      PROVE  SeqInv'
  <2>1. SeqOK(c)'
    BY <1>5, <1>8, SeqQuiet
  <2> QED BY <1>1, <1>8, <2>1, SeqOne
<1>9. ASSUME UNCHANGED <<rtp, clean>>, UNCHANGED conn \/ \E b : conn' = [conn EXCEPT ![c].req = p.q, ![c].buf = b]
      PROVE  SeqInv'
  <2>1. \A d \in Conns : conn'[d].st = conn[d].st
    <3>1. CASE UNCHANGED conn
      BY <3>1
    <3>2. ASSUME NEW b, conn' = [conn EXCEPT ![c].req = p.q, ![c].buf = b]
          PROVE  \A d \in Conns : conn'[d].st = conn[d].st
      BY <1>2, <1>5, <3>2, ParsingIs
    <3> QED BY <1>9, <3>1, <3>2
  <2>2. \A d \in Conns : Moves(d)
    BY <2>1, Zenon DEF Moves
  <2> QED BY <1>1, <1>9, <2>2, SeqUntouched
<1>10. CASE HandleRtcp(c, p) \/ KeepParsing(c, p)
  <2>1. UNCHANGED <<rtp, clean>> /\ (UNCHANGED conn \/ \E b : conn' = [conn EXCEPT ![c].req = p.q, ![c].buf = b])
    BY <1>10, Zenon DEF HandleRtcp, KeepParsing
  <2> QED BY <1>9, <2>1
<1>11. CASE NullRtp(c)
  <2>1. UNCHANGED <<conn, rtp, clean>>
    BY <1>11, Zenon DEF NullRtp
  <2> QED BY <1>9, <2>1
<1>12. ASSUME NEW status, Answer(c, p, status, conn[c].sess, conn[c].st), UNCHANGED <<rtp, clean>> PROVE SeqInv'
  <2>1. \A d \in Conns : Moves(d)
    BY <1>7, <1>12
  <2> QED BY <1>1, <1>12, <2>1, SeqUntouched
<1>13. CASE HandleCmdOption(c, p) \/ HandleCmdGetParamter(c, p)
  <2>1. Answer(c, p, 200, conn[c].sess, conn[c].st) /\ UNCHANGED <<rtp, clean>>
    BY <1>13, Zenon DEF HandleCmdOption, HandleCmdGetParamter
  <2> QED BY <1>12, <2>1
<1>14. CASE HandleCmdDescribe(c, p)
  <2> DEFINE x == IF rtp[c].alive THEN rtp[c] ELSE NewRtp
  <2>1. /\ rtp' = [rtp EXCEPT ![c] = x] /\ UNCHANGED clean
        /\ \/ Answer(c, p, 200, SessionId, conn[c].st)
           \/ Answer(c, p, 404, conn[c].sess, conn[c].st)
    BY <1>14, Zenon DEF HandleCmdDescribe
  <2>2. (rtp[c].alive => x = rtp[c]) /\ (~rtp[c].alive => x = NewRtp)
    BY Zenon
  <2> HIDE DEF x
  <2>3. rtp'[c] = x /\ \A d \in Conns : d # c => rtp'[d] = rtp[d]
    BY <1>5, <2>1, PutRtp, Zenon
  <2>4. (\A d \in Conns : Moves(d)) /\ Rtsp(conn'[c])
    BY <1>7, <2>1
  <2>5. SeqOK(c)'
    <3>1. CASE rtp[c].alive
      <4>1. rtp'[c] = rtp[c] /\ (clean' => clean) /\ Moves(c)
        BY <2>1, <2>2, <2>3, <2>4, <3>1
      <4> QED BY <1>5, <4>1, SeqSame
    <3>2. CASE ~rtp[c].alive
      <4>1. rtp'[c] = NewRtp
        BY <2>2, <2>3, <3>2
      <4> QED BY <1>3, <1>5, <2>4, <3>2, <4>1, SeqNew
    <3> QED BY <3>1, <3>2
  <2> QED BY <1>1, <2>1, <2>3, <2>4, <2>5, SeqOne
<1>15. CASE HandleCmdSetup(c, p)
  <2> DEFINE n == p.q.channel
  <2>1. ASSUME NEW status, Answer(c, p, status, conn[c].sess, conn[c].st), LookId(conn[c].sess),
               SetupRtpOverTcp(c, n) \/ SetupRtpOverUdp(c, n) \/ SetupRtpOverUdpFails(c, n)
        PROVE  SeqInv'
    <3>1. \A d \in Conns : Moves(d)
      BY <1>7, <2>1
    <3>2. rtp[c].alive
      BY <1>3, <2>1, Zenon DEF LookId, Inv, Described
    <3>3. /\ clean' => clean
          /\ \A d \in Conns : d # c => rtp'[d] = rtp[d]
          /\ Quiet(rtp[c], rtp'[c]) /\ SetUpInv(rtp'[c], clean')
      BY <1>5, <1>6, <2>1, <3>2, SetUpQuiet
    <3> QED BY <1>8, <3>1, <3>3
  <2>2. CASE /\ Answer(c, p, 500, conn[c].sess, conn[c].st)
             /\ UNCHANGED <<owner, rtp, clean>>
    BY <1>12, <2>2
  <2>3. CASE /\ LookId(conn[c].sess) /\ SetupRtpOverTcp(c, n)
             /\ Answer(c, p, 200, conn[c].sess, conn[c].st)
    BY <2>1, <2>3
  <2>4. CASE /\ LookId(conn[c].sess) /\ SetupRtpOverUdp(c, n)
             /\ Answer(c, p, 200, conn[c].sess, conn[c].st)
    BY <2>1, <2>4
  <2>5. CASE /\ LookId(conn[c].sess) /\ SetupRtpOverUdpFails(c, n)
             /\ Answer(c, p, 500, conn[c].sess, conn[c].st)
    BY <2>1, <2>5
  <2>6. CASE /\ Answer(c, p, 461, conn[c].sess, conn[c].st)
             /\ UNCHANGED <<owner, rtp, clean>>
    BY <1>12, <2>6
  <2> QED BY <1>15, <2>2, <2>3, <2>4, <2>5, <2>6, SetupIs
<1>16. CASE HandleCmdPlay(c, p) \/ HandleCmdTeardown(c, p)
  <2>1. \/ NullRtp(c)
        \/ /\ rtp' = [rtp EXCEPT ![c] = StartPlay(rtp[c])] /\ UNCHANGED clean
           /\ Answer(c, p, 200, conn[c].sess, conn[c].st)
        \/ /\ rtp' = [rtp EXCEPT ![c] = Teardown(rtp[c])] /\ UNCHANGED clean
           /\ Answer(c, p, 200, conn[c].sess, "kDisconnecting")
    BY <1>16, Zenon DEF HandleCmdPlay, HandleCmdTeardown
  <2>2. ASSUME NEW x, rtp' = [rtp EXCEPT ![c] = x], UNCHANGED clean, \A d \in Conns : Moves(d),
               Quiet(rtp[c], x), SetUpInv(x, clean)
        PROVE  SeqInv'
    <3>1. rtp'[c] = x /\ \A d \in Conns : d # c => rtp'[d] = rtp[d]
      BY <1>5, <2>2, PutRtp, Zenon
    <3>2. Quiet(rtp[c], rtp'[c]) /\ SetUpInv(rtp'[c], clean')
      BY <2>2, <3>1, Zenon
    <3> QED BY <1>8, <2>2, <3>1, <3>2
  <2>3. CASE /\ rtp' = [rtp EXCEPT ![c] = StartPlay(rtp[c])] /\ UNCHANGED clean
             /\ Answer(c, p, 200, conn[c].sess, conn[c].st)
    <3>1. \A d \in Conns : Moves(d)
      BY <1>7, <2>3
    <3>2. Quiet(rtp[c], StartPlay(rtp[c])) /\ SetUpInv(StartPlay(rtp[c]), clean)
      BY <1>5, StartPlayQuiet
    <3> QED BY <2>2, <2>3, <3>1, <3>2
  <2>4. CASE /\ rtp' = [rtp EXCEPT ![c] = Teardown(rtp[c])] /\ UNCHANGED clean
             /\ Answer(c, p, 200, conn[c].sess, "kDisconnecting")
    <3>1. \A d \in Conns : Moves(d)
      BY <1>7, <2>4
    <3>2. Quiet(rtp[c], Teardown(rtp[c])) /\ SetUpInv(Teardown(rtp[c]), clean)
      BY <1>5, TeardownQuiet
    <3> QED BY <2>2, <2>4, <3>1, <3>2
  <2> QED BY <1>11, <2>1, <2>3, <2>4
<1> QED BY <1>1, <1>10, <1>13, <1>14, <1>15, <1>16

LEMMA InitSeq == Init => SeqInv
<1> SUFFICES ASSUME Init, NEW c \in Conns PROVE SeqOK(c)
  BY Zenon DEF SeqInv
<1>1. conn = [d \in Conns |-> NoConn] /\ rtp = [d \in Conns |-> DeadRtp] /\ recv = [d \in Conns |-> <<>>]
  BY Zenon DEF Init
<1>2. conn[c] = NoConn /\ rtp[c] = DeadRtp /\ recv[c] = <<>>
  BY <1>1
<1>3. SetUpInv(rtp[c], clean) /\ ~rtp[c].alive
  BY <1>2, FreshSetUp
<1> QED BY <1>2, <1>3, NothingReceived, Zenon DEF SeqOK

LEMMA NextSeq == Inv /\ RecvTyped /\ SeqInv /\ [Next]_vars => SeqInv'
<1> SUFFICES ASSUME Inv, RecvTyped, SeqInv, [Next]_vars PROVE SeqInv'
  OBVIOUS
<1>1. ASSUME NEW c \in Conns, Accept(c) \/ AcceptEMFILE(c) PROVE SeqInv'
  BY <1>1, SeqAccept
<1>2. ASSUME NEW c \in Conns, Receive(c) PROVE SeqInv'
  BY <1>2, SeqReceive
<1>3. ASSUME NEW c \in Conns, PeerCloses(c) \/ ForceCloseTimer(c) PROVE SeqInv'
  <2>1. HandleClose(c)
    BY <1>3, Zenon DEF PeerCloses, ForceCloseTimer
  <2> QED BY <2>1, SeqHandleClose
<1>4. ASSUME UNCHANGED <<conn, rtp, recv, clean>> PROVE SeqInv'
  <2>1. \A d \in Conns : Moves(d)
    BY <1>4, Zenon DEF Moves
  <2> QED BY <1>4, <2>1, SeqUntouched
<1>5. CASE LoopStep
  <2>1. CASE DoPendingFunctors
    <3>1. UNCHANGED <<conn, rtp, recv, clean>>
      BY <2>1, Zenon DEF DoPendingFunctors
    <3> QED BY <1>4, <3>1
  <2> QED BY <1>5, <2>1, SeqConnectDestroyed, SeqSendPacket DEF LoopStep
<1>6. CASE SenderStep
  <2>1. CASE PushFrame \/ Collect \/ SendRtpPacket
    <3>1. UNCHANGED <<conn, rtp, recv, clean>>
      BY <2>1, Zenon DEF PushFrame, Collect, SendRtpPacket, senderKeeps
    <3> QED BY <1>4, <3>1
  <2> QED BY <1>6, <2>1, SeqDropReferences DEF SenderStep
<1>7. CASE RemoveMediaSession
  <2>1. UNCHANGED <<conn, rtp, recv, clean>>
    BY <1>7, Zenon DEF RemoveMediaSession
  <2> QED BY <1>4, <2>1
<1>8. CASE UNCHANGED vars
  BY <1>4, <1>8, Zenon DEF vars
<1> QED BY <1>1, <1>2, <1>3, <1>5, <1>6, <1>7, <1>8, Zenon DEF Next

\* The numbers of a client's packets are consecutive while every set-up is
\* over UDP and succeeds (setRtpHeader(), sendRtpOverUdp()).
THEOREM NumbersAreConsecutive == Spec => []SeqInv
<1>1. OrderInv => RecvTyped
  BY DEF OrderInv
<1> QED BY <1>1, InitSeq, NextSeq, RtspInvariant, PacketsStandInLine, PTL DEF Spec

\* Whatever the transports, the set-ups and the descriptors they leave behind:
\* any two packets a client receives come in the order the sender thread cut
\* them, though they pass from its list through the loop's queue and its
\* batch, and clients come and go meanwhile (addMediaSource()'s callback,
\* EventLoop::queueInLoop(), RtpConnection::sendRtpPacket()).
THEOREM FramesAlwaysInOrder == Spec => [](\A c \in Conns : Ordered(recv[c]))
<1>1. OrderInv => \A c \in Conns : Ordered(recv[c])
  BY Zenon DEF OrderInv, LineInv, Lined
<1> QED BY <1>1, PacketsStandInLine, PTL

-----------------------------------------------------------------------------
(* The text of requests                                                    *)

\* A prefix of a sequence and what is behind it.
LEMMA Pieces ==
    ASSUME NEW S, NEW s \in Seq(S), NEW n \in 0..Len(s)
    PROVE  /\ SubSeq(s, 1, n) \in Seq(S) /\ Len(SubSeq(s, 1, n)) = n
           /\ SubSeq(s, n + 1, Len(s)) \in Seq(S) /\ Len(SubSeq(s, n + 1, Len(s))) = Len(s) - n
           /\ \A i \in 1..n : SubSeq(s, 1, n)[i] = s[i]
           /\ \A i \in 1..(Len(s) - n) : SubSeq(s, n + 1, Len(s))[i] = s[n + i]
<1> DEFINE p == SubSeq(s, 1, n)
           t == SubSeq(s, n + 1, Len(s))
<1>1. Len(s) \in Nat /\ \A i \in 1..Len(s) : s[i] \in S
  OBVIOUS
<1>2. /\ p \in Seq(S) /\ Len(p) = (IF 1 <= n THEN n - 1 + 1 ELSE 0)
      /\ \A i \in 1..(n - 1 + 1) : p[i] = s[1 + i - 1]
  <2>1. 1 \in Int /\ n \in Int /\ \A i \in 1..n : s[i] \in S
    BY <1>1
  <2> QED BY <2>1, SubSeqProperties
<1>3. /\ t \in Seq(S) /\ Len(t) = (IF n + 1 <= Len(s) THEN Len(s) - (n + 1) + 1 ELSE 0)
      /\ \A i \in 1..(Len(s) - (n + 1) + 1) : t[i] = s[n + 1 + i - 1]
  <2>1. n + 1 \in Int /\ Len(s) \in Int /\ \A i \in (n + 1)..Len(s) : s[i] \in S
    BY <1>1
  <2> QED BY <2>1, SubSeqProperties
<1> HIDE DEF p, t
<1>4. /\ Len(p) = n /\ \A i \in 1..n : p[i] = s[i]
      /\ Len(t) = Len(s) - n /\ \A i \in 1..(Len(s) - n) : t[i] = s[n + i]
  BY <1>1, <1>2, <1>3
<1> QED BY <1>2, <1>3, <1>4, Zenon DEF p, t

LEMMA MaxIsIn ==
    ASSUME NEW n \in Nat, NEW S, S \subseteq 1..n, S # {}
    PROVE  Max(S) \in S /\ \A y \in S : Max(S) >= y
<1> DEFINE B == {m \in Nat : \A y \in S : y <= m}
           b == Min(B)
<1>1. n \in B
  OBVIOUS
<1>2. b \in B /\ \A m \in B : b <= m
  BY <1>1, MinIsIn, Zenon
<1> HIDE DEF b
<1>3. b \in S
  <2> SUFFICES ASSUME b \notin S PROVE FALSE
    OBVIOUS
  <2>1. PICK x \in S : TRUE
    OBVIOUS
  <2>2. \A y \in S : y \in Nat /\ y > 0 /\ y <= b /\ y # b
    BY <1>2
  <2>3. b - 1 \in Nat /\ \A y \in S : y <= b - 1
    BY <1>2, <2>1, <2>2
  <2> QED BY <1>2, <2>3
<1>4. \A y \in S : b >= y
  BY <1>2
<1> QED BY <1>3, <1>4, Zenon DEF Max

\* The first and the last CR LF of a buffer.
LEMMA CRLFsAre ==
    ASSUME NEW S, NEW b \in Seq(S)
    PROVE  /\ FindCRLF(b) \in 0..Len(b) /\ FindLastCRLF(b) \in 0..Len(b)
           /\ \A i \in 1..Len(b) : b[i] = Eol =>
                /\ FindCRLF(b) > 0 /\ b[FindCRLF(b)] = Eol /\ FindCRLF(b) <= i
                /\ FindLastCRLF(b) > 0 /\ FindLastCRLF(b) >= i
<1> DEFINE E == {i \in 1..Len(b) : b[i] = Eol}
<1>1. Len(b) \in Nat /\ E \subseteq 1..Len(b) /\ E \subseteq Nat
  OBVIOUS
<1>2. CASE E = {}
  <2>1. FindCRLF(b) = 0 /\ FindLastCRLF(b) = 0
    BY <1>2, Zenon DEF FindCRLF, FindLastCRLF
  <2> QED BY <1>1, <1>2, <2>1
<1>3. CASE E # {}
  <2>1. FindCRLF(b) = Min(E) /\ FindLastCRLF(b) = Max(E)
    BY <1>3, Zenon DEF FindCRLF, FindLastCRLF
  <2>2. FindCRLF(b) \in E /\ \A y \in E : FindCRLF(b) <= y
    BY <1>1, <1>3, <2>1, MinIsIn, Zenon
  <2>3. FindLastCRLF(b) \in E /\ \A y \in E : FindLastCRLF(b) >= y
    BY <1>1, <1>3, <2>1, MaxIsIn, Zenon
  <2> QED BY <1>1, <2>2, <2>3
<1> QED BY <1>2, <1>3

-----------------------------------------------------------------------------
(* What the parser does to its record                                      *)

ReqFields(q) == {"state", "method", "arg", "cseq", "hasCSeq", "channel", "transport"} \subseteq DOMAIN q

\* r is q but for the fields a step of the parser writes.
SameNumber(q, r) == ReqFields(r) /\ r.cseq = q.cseq /\ r.hasCSeq = q.hasCSeq

LEMMA NewRequestIs == ReqFields(NewRequest) /\ NewRequest.state = "kParseRequestLine" /\ ~NewRequest.hasCSeq
BY Zenon DEF ReqFields, NewRequest

LEMMA ResetIs ==
    ASSUME NEW q, ReqFields(q)
    PROVE  ReqFields(Reset(q)) /\ Reset(q).state = "kParseRequestLine" /\ ~Reset(q).hasCSeq
BY Zenon DEF ReqFields, Reset

LEMMA MethodIs ==
    ASSUME NEW q, ReqFields(q), NEW x
    PROVE  LET r == [q EXCEPT !.method = x]
           IN SameNumber(q, r) /\ r.method = x /\ r.state = q.state /\ r.transport = q.transport
BY Zenon DEF ReqFields, SameNumber

LEMMA RequestLineIs ==
    ASSUME NEW q, ReqFields(q), NEW text, NEW r, r = ParseRequestLine(q, text)
    PROVE  /\ SameNumber(q, r.q) /\ r.q.transport = q.transport
           /\ r.ok => r.q.state = "kParseHeadersLine"
           /\ ~r.ok => r.q.state = q.state
<1>1. \/ r = [ok |-> FALSE, q |-> q]
      \/ \E x : r = [ok |-> FALSE, q |-> [q EXCEPT !.method = x]]
      \/ \E x, y : r = [ok |-> TRUE, q |-> [q EXCEPT !.method = x, !.arg = y, !.state = "kParseHeadersLine"]]
  BY Zenon DEF ParseRequestLine
<1>2. CASE r = [ok |-> FALSE, q |-> q]
  <2>1. r.q = q /\ ~r.ok
    BY <1>2
  <2> QED BY <2>1, Zenon DEF SameNumber
<1>3. ASSUME NEW x, r = [ok |-> FALSE, q |-> [q EXCEPT !.method = x]]
      PROVE  SameNumber(q, r.q) /\ r.q.transport = q.transport /\ r.q.state = q.state /\ ~r.ok
  <2> DEFINE m == [q EXCEPT !.method = x]
  <2>1. SameNumber(q, m) /\ m.state = q.state /\ m.transport = q.transport
    BY MethodIs, Zenon
  <2> HIDE DEF m
  <2>2. r.q = m /\ ~r.ok
    BY <1>3 DEF m
  <2> QED BY <2>1, <2>2, Zenon
<1>4. ASSUME NEW x, NEW y,
             r = [ok |-> TRUE, q |-> [q EXCEPT !.method = x, !.arg = y, !.state = "kParseHeadersLine"]]
      PROVE  SameNumber(q, r.q) /\ r.q.transport = q.transport /\ r.q.state = "kParseHeadersLine" /\ r.ok
  <2>1. PICK m : m = [q EXCEPT !.method = x, !.arg = y, !.state = "kParseHeadersLine"]
    OBVIOUS
  <2>2. SameNumber(q, m) /\ m.state = "kParseHeadersLine" /\ m.transport = q.transport
    BY <2>1, Zenon DEF ReqFields, SameNumber
  <2>3. r = [ok |-> TRUE, q |-> m]
    BY <1>4, <2>1, Zenon
  <2>4. r.q = m /\ r.ok
    BY <2>3
  <2> QED BY <2>2, <2>4, Zenon
<1> QED BY <1>1, <1>2, <1>3, <1>4, Zenon

\* The headers of a text are places in it.
LEMMA HeadersAre ==
    ASSUME NEW S, NEW text \in Seq(S), NEW name
    PROVE  /\ Headers(text, name) \subseteq 1..Len(text) /\ Headers(text, name) \subseteq Nat
           /\ \A T \in SUBSET Headers(text, name) : T # {} => Min(T) \in T /\ \A y \in T : Min(T) <= y
<1>1. Headers(text, name) \subseteq 1..Len(text)
  BY Zenon DEF Headers
<1>2. Headers(text, name) \subseteq Nat
  BY <1>1
<1>3. ASSUME NEW T \in SUBSET Headers(text, name), T # {}
      PROVE  Min(T) \in T /\ \A y \in T : Min(T) <= y
  <2>1. T \subseteq Nat
    BY <1>2
  <2> QED BY <1>3, <2>1, MinIsIn, Zenon
<1> QED BY <1>1, <1>2, <1>3, Zenon

IsCSeq(s) == s[1] = "hdr" /\ s[2] = "CSeq"

\* The parser takes the first CSeq of the text, once per request.
LEMMA CSeqIs ==
    ASSUME NEW S, NEW text \in Seq(S), NEW q, ReqFields(q), NEW r, r = ParseCSeq(q, text)
    PROVE  /\ ReqFields(r) /\ r.state = q.state /\ r.method = q.method /\ r.transport = q.transport
           /\ \/ r = q /\ (q.hasCSeq \/ \A k \in 1..Len(text) : ~IsCSeq(text[k]))
              \/ /\ ~q.hasCSeq /\ r.hasCSeq
                 /\ \E k \in 1..Len(text) : /\ IsCSeq(text[k]) /\ r.cseq = text[k][3]
                                            /\ \A j \in 1..Len(text) : IsCSeq(text[j]) => k <= j
<1> DEFINE at == Headers(text, "CSeq")
           k == Min(at)
           new == [q EXCEPT !.cseq = text[k][3], !.hasCSeq = TRUE]
<1>1. \A j \in 1..Len(text) : IsCSeq(text[j]) <=> j \in at
  BY Zenon DEF Headers, IsCSeq
<1>2. CASE at = {} \/ q.hasCSeq
  <2>1. r = q
    BY <1>2, Zenon DEF ParseCSeq
  <2> QED BY <1>1, <1>2, <2>1, Zenon
<1>3. CASE ~(at = {} \/ q.hasCSeq)
  <2>1. r = new
    BY <1>3, Zenon DEF ParseCSeq
  <2>2. /\ ReqFields(new) /\ new.state = q.state /\ new.method = q.method /\ new.transport = q.transport
        /\ new.hasCSeq /\ new.cseq = text[k][3]
    BY Zenon DEF ReqFields
  <2>3. k \in at /\ (\A y \in at : k <= y) /\ at \subseteq 1..Len(text)
    <3>1. at \in SUBSET at
      OBVIOUS
    <3> QED BY <1>3, <3>1, HeadersAre, Zenon
  <2> HIDE DEF k, at, new
  <2> QED BY <1>1, <1>3, <2>1, <2>2, <2>3, Zenon
<1> QED BY <1>2, <1>3

LEMMA TransportIs ==
    ASSUME NEW q, ReqFields(q), NEW text, NEW w, w = ParseTransport(q, text).q
    PROVE  SameNumber(q, w) /\ w.state = q.state /\ w.method = q.method
<1>1. \/ w = q
      \/ \E m : w = [q EXCEPT !.transport = m]
  BY Zenon DEF ParseTransport
<1>2. ASSUME NEW m, w = [q EXCEPT !.transport = m]
      PROVE  SameNumber(q, w) /\ w.state = q.state /\ w.method = q.method
  BY <1>2, Zenon DEF ReqFields, SameNumber
<1> QED BY <1>1, <1>2, Zenon DEF SameNumber

\* What a piece of headers does to the request, whatever it holds.
LEMMA HeadersLineIs ==
    ASSUME NEW S, NEW text \in Seq(S), NEW q0, ReqFields(q0), q0.state = "kParseHeadersLine",
           NEW r, r = ParseHeadersLine(q0, text)
    PROVE  /\ ReqFields(r.q) /\ r.q.state \in {"kParseHeadersLine", "kGotAll"}
           /\ r.q.state = "kGotAll" => r.ok /\ r.q.hasCSeq /\ r.q.method # "RTCP"
           /\ \/ SameNumber(q0, r.q)
              \/ /\ ~q0.hasCSeq /\ r.q.hasCSeq
                 /\ \E k \in 1..Len(text) : IsCSeq(text[k]) /\ r.q.cseq = text[k][3]
<1> DEFINE q == ParseCSeq(q0, text)
           t == ParseTransport(q, text)
           done == [q EXCEPT !.state = "kGotAll"]
           got == [t.q EXCEPT !.channel = ParseMediaChannel(q.arg), !.state = "kGotAll"]
<1>1. \/ ~q.hasCSeq /\ r = [ok |-> FALSE, q |-> q]
      \/ q.hasCSeq /\ \E x \in {q, t.q} : r = [ok |-> TRUE, q |-> x]
      \/ q.hasCSeq /\ q.method # "RTCP" /\ \E x \in {done, got} : r = [ok |-> TRUE, q |-> x]
  BY Zenon DEF ParseHeadersLine
<1>2. /\ ReqFields(q) /\ q.state = "kParseHeadersLine"
      /\ \/ SameNumber(q0, q)
         \/ /\ ~q0.hasCSeq /\ q.hasCSeq
            /\ \E k \in 1..Len(text) : IsCSeq(text[k]) /\ q.cseq = text[k][3]
  <2>1. q = ParseCSeq(q0, text)
    OBVIOUS
  <2> HIDE DEF q
  <2>2. /\ ReqFields(q) /\ q.state = q0.state
        /\ \/ q = q0
           \/ /\ ~q0.hasCSeq /\ q.hasCSeq
              /\ \E k \in 1..Len(text) : IsCSeq(text[k]) /\ q.cseq = text[k][3]
    BY <2>1, CSeqIs
  <2> QED BY <2>2, Zenon DEF SameNumber
<1> HIDE DEF q
<1>3. SameNumber(q, t.q) /\ t.q.state = "kParseHeadersLine" /\ t.q.method = q.method
  <2>1. PICK w : w = ParseTransport(q, text).q
    OBVIOUS
  <2>2. SameNumber(q, w) /\ w.state = q.state /\ w.method = q.method
    <3>1. ReqFields(q)
      BY <1>2
    <3> QED BY <2>1, <3>1, TransportIs
  <2>3. t.q = w
    BY <2>1, Zenon
  <2> QED BY <1>2, <2>2, <2>3, Zenon
<1>4. SameNumber(q, got) /\ got.state = "kGotAll" /\ got.method = q.method
  <2> DEFINE w == t.q
             c == ParseMediaChannel(q.arg)
  <2>1. ReqFields(w) /\ SameNumber(q, w) /\ w.method = q.method
    BY <1>3, Zenon DEF SameNumber
  <2> HIDE DEF w, c
  <2>2. PICK g : g = [w EXCEPT !.channel = c, !.state = "kGotAll"]
    OBVIOUS
  <2>3. SameNumber(w, g) /\ g.state = "kGotAll" /\ g.method = w.method
    BY <2>1, <2>2, Zenon DEF ReqFields, SameNumber
  <2>4. got = g
    BY <2>2, Zenon DEF w, c
  <2> QED BY <2>1, <2>3, <2>4, Zenon DEF SameNumber
<1> HIDE DEF t
<1>5. SameNumber(q, done) /\ done.state = "kGotAll" /\ done.method = q.method /\ SameNumber(q, q)
  BY <1>2, Zenon DEF SameNumber, ReqFields
<1> HIDE DEF done, got
<1>6. ASSUME NEW x, NEW ok, r = [ok |-> ok, q |-> x],
             x \in {q, t.q} \/ (x \in {done, got} /\ ok /\ q.hasCSeq /\ q.method # "RTCP")
      PROVE  /\ ReqFields(r.q) /\ r.q.state \in {"kParseHeadersLine", "kGotAll"}
             /\ r.q.state = "kGotAll" => r.ok /\ r.q.hasCSeq /\ r.q.method # "RTCP"
             /\ SameNumber(q, r.q)
  <2>1. r.q = x /\ r.ok = ok
    BY <1>6
  <2>2. CASE x \in {q, t.q}
    <3>1. SameNumber(q, x) /\ x.state = "kParseHeadersLine"
      BY <1>2, <1>3, <1>5, <2>2, Zenon
    <3>2. x.state # "kGotAll"
      BY <3>1
    <3> QED BY <2>1, <3>1, <3>2, Zenon DEF SameNumber
  <2>3. CASE x \in {done, got} /\ ok /\ q.hasCSeq /\ q.method # "RTCP"
    <3>1. SameNumber(q, x) /\ x.state = "kGotAll" /\ x.method = q.method
      BY <1>4, <1>5, <2>3, Zenon
    <3> QED BY <2>1, <2>3, <3>1, Zenon DEF SameNumber
  <2> QED BY <1>6, <2>2, <2>3
<1>7. /\ ReqFields(r.q) /\ r.q.state \in {"kParseHeadersLine", "kGotAll"}
      /\ r.q.state = "kGotAll" => r.ok /\ r.q.hasCSeq /\ r.q.method # "RTCP"
      /\ SameNumber(q, r.q)
  BY <1>1, <1>6, Zenon
<1> QED BY <1>2, <1>7, Zenon DEF SameNumber

\* t is what is left of b when n symbols have been taken off.
Behind(S, b, n, t) ==
  t \in Seq(S) /\ Len(t) = Len(b) - n /\ \A i \in 1..Len(t) : t[i] = b[n + i]

LEMMA BehindCut ==
    ASSUME NEW S, NEW b \in Seq(S), NEW n \in 0..Len(b)
    PROVE  Behind(S, b, n, SubSeq(b, n + 1, Len(b)))
<1>1. Len(b) \in Nat
  OBVIOUS
<1> QED BY <1>1, Pieces DEF Behind

LEMMA BehindTwice ==
    ASSUME NEW S, NEW b \in Seq(S), NEW n \in 0..Len(b), NEW t, Behind(S, b, n, t),
           NEW m \in 0..Len(t), NEW u, Behind(S, t, m, u)
    PROVE  n + m \in 0..Len(b) /\ Behind(S, b, n + m, u)
<1>1. /\ Len(b) \in Nat /\ Len(t) = Len(b) - n /\ Len(u) = Len(t) - m /\ u \in Seq(S)
      /\ (\A i \in 1..Len(t) : t[i] = b[n + i]) /\ (\A i \in 1..Len(u) : u[i] = t[m + i])
  BY DEF Behind
<1>2. n + m \in 0..Len(b) /\ Len(u) = Len(b) - (n + m)
  BY <1>1
<1>3. ASSUME NEW i \in 1..Len(u) PROVE u[i] = b[n + m + i]
  <2>1. m + i \in 1..Len(t) /\ n + (m + i) = n + m + i
    BY <1>1
  <2> QED BY <1>1, <2>1
<1> QED BY <1>1, <1>2, <1>3 DEF Behind

\* A number that the parser has taken stood in what it took off the buffer.
TookNumber(q, r, b, n) ==
  \/ SameNumber(q, r)
  \/ ~q.hasCSeq /\ r.hasCSeq /\ \E k \in 1..n : IsCSeq(b[k]) /\ r.cseq = b[k][3]

\* One call of parseRequest(): it takes off a prefix of the buffer, and a
\* request is complete only with a number.
LEMMA ParsedIs ==
    ASSUME NEW S, NEW b \in Seq(S), NEW q, ReqFields(q),
           q.state \in {"kParseRequestLine", "kParseHeadersLine"}, NEW p, p = ParseRequest(q, b)
    PROVE  /\ ReqFields(p.q) /\ p.q.state \in {"kParseRequestLine", "kParseHeadersLine", "kGotAll"}
           /\ p.q.state = "kGotAll" => p.ok /\ p.q.hasCSeq /\ p.q.method # "RTCP"
           /\ \E n \in 0..Len(b) : Behind(S, b, n, p.buf) /\ TookNumber(q, p.q, b, n)
<1> DEFINE first == FindCRLF(b)
           taken == q.state = "kParseRequestLine" /\ first > 0
           line == IF taken THEN ParseRequestLine(q, SubSeq(b, 1, first - 1)) ELSE [ok |-> TRUE, q |-> q]
           rest == IF taken THEN SubSeq(b, first + 1, Len(b)) ELSE b
           last == FindLastCRLF(rest)
           text == SubSeq(rest, 1, last - 1)
           h == ParseHeadersLine(line.q, text)
<1>0. Len(b) \in Nat /\ Behind(S, b, 0, b)
  BY DEF Behind
<1>1. CASE b[1][1] = "rtcp"
  <2> DEFINE m == [q EXCEPT !.method = "RTCP"]
  <2>1. p = [ok |-> TRUE, q |-> m, buf |-> b]
    BY <1>1, Zenon DEF ParseRequest
  <2>2. SameNumber(q, m) /\ m.state = q.state
    BY MethodIs, Zenon
  <2> HIDE DEF m
  <2>3. p.q = m /\ p.buf = b
    BY <2>1
  <2>4. m.state # "kGotAll" /\ 0 \in 0..Len(b)
    BY <1>0, <2>2
  <2> QED BY <1>0, <2>2, <2>3, <2>4, Zenon DEF SameNumber, TookNumber
<1>2. CASE b[1][1] # "rtcp"
  <2>1. p = IF line.q.state = "kParseHeadersLine" /\ last > 0
            THEN [ok |-> h.ok, q |-> h.q, buf |-> SubSeq(rest, last + 1, Len(rest))]
            ELSE [ok |-> line.ok, q |-> line.q, buf |-> rest]
    BY <1>2, Zenon DEF ParseRequest
  <2>2. PICK n \in 0..Len(b) : Behind(S, b, n, rest)
    <3>1. first \in 0..Len(b) /\ 0 \in 0..Len(b)
      BY <1>0, CRLFsAre
    <3>2. CASE taken
      <4> HIDE DEF first
      <4>1. Behind(S, b, first, SubSeq(b, first + 1, Len(b)))
        BY <3>1, BehindCut
      <4>2. rest = SubSeq(b, first + 1, Len(b))
        BY <3>2, Zenon
      <4> QED BY <3>1, <4>1, <4>2, Zenon
    <3>3. CASE ~taken
      <4>1. rest = b
        BY <3>3, Zenon
      <4> QED BY <1>0, <3>1, <4>1, Zenon
    <3> QED BY <3>2, <3>3
  <2>3. /\ SameNumber(q, line.q) /\ line.q.state \in {"kParseRequestLine", "kParseHeadersLine"}
        /\ line.ok \in BOOLEAN
    <3>1. CASE taken
      <4>1. line = ParseRequestLine(q, SubSeq(b, 1, first - 1))
        BY <3>1, Zenon
      <4> HIDE DEF line, taken, first
      <4>2. SameNumber(q, line.q) /\ line.q.state \in {q.state, "kParseHeadersLine"}
        BY <4>1, RequestLineIs
      <4>3. line.ok \in BOOLEAN
        <5> DEFINE t == SubSeq(b, 1, first - 1)
        <5> HIDE DEF t
        <5>1. ParseRequestLine(q, t).ok \in BOOLEAN
          BY DEF ParseRequestLine
        <5> QED BY <4>1, <5>1 DEF t
      <4> QED BY <4>2, <4>3
    <3>2. CASE ~taken
      <4>1. line = [ok |-> TRUE, q |-> q]
        BY <3>2, Zenon
      <4>2. line.q = q /\ line.ok
        BY <4>1
      <4> QED BY <4>2, Zenon DEF SameNumber
    <3> QED BY <3>1, <3>2
  <2>4. rest \in Seq(S) /\ Len(rest) \in Nat /\ last \in 0..Len(rest)
    <3> HIDE DEF rest
    <3>1. rest \in Seq(S)
      BY <2>2 DEF Behind
    <3> QED BY <3>1, CRLFsAre
  <2> DEFINE lq == line.q
             lok == line.ok
  <2>5. CASE line.q.state = "kParseHeadersLine" /\ last > 0
    <3> DEFINE u == SubSeq(rest, last + 1, Len(rest))
    <3>1. p = [ok |-> h.ok, q |-> h.q, buf |-> u]
      BY <2>1, <2>5, Zenon
    <3>2. h = ParseHeadersLine(lq, text)
      OBVIOUS
    <3> HIDE DEF h, rest, lq
    <3>3. Behind(S, rest, last, u)
      BY <2>4, BehindCut
    <3>4. n + last \in 0..Len(b) /\ Behind(S, b, n + last, u)
      BY <2>2, <2>4, <3>3, BehindTwice
    <3>5. text \in Seq(S) /\ Len(text) = last - 1 /\ \A i \in 1..(last - 1) : text[i] = rest[i]
      <4>1. last - 1 \in 0..Len(rest)
        BY <2>4, <2>5
      <4> HIDE DEF last
      <4> QED BY <2>4, <4>1, Pieces
    <3> HIDE DEF text, u
    <3>6. /\ ReqFields(h.q) /\ h.q.state \in {"kParseHeadersLine", "kGotAll"}
          /\ h.q.state = "kGotAll" => h.ok /\ h.q.hasCSeq /\ h.q.method # "RTCP"
          /\ \/ SameNumber(lq, h.q)
             \/ /\ ~lq.hasCSeq /\ h.q.hasCSeq
                /\ \E k \in 1..Len(text) : IsCSeq(text[k]) /\ h.q.cseq = text[k][3]
      <4>1. ReqFields(lq) /\ lq.state = "kParseHeadersLine"
        BY <2>3, <2>5, Zenon DEF SameNumber, lq
      <4> QED BY <3>2, <3>5, <4>1, HeadersLineIs
    <3>7. \A k \in 1..Len(text) : n + k \in 1..(n + last) /\ text[k] = b[n + k]
      <4> TAKE k \in 1..Len(text)
      <4>1. k \in 1..Len(rest) /\ k \in 1..(last - 1) /\ n + k \in 1..(n + last)
        BY <2>2, <2>4, <2>5, <3>5
      <4>2. rest[k] = b[n + k]
        BY <2>2, <4>1 DEF Behind
      <4> QED BY <3>5, <4>1, <4>2
    <3> HIDE DEF last
    <3>8. TookNumber(q, h.q, b, n + last)
      <4>1. SameNumber(q, lq)
        BY <2>3, Zenon DEF lq
      <4>2. CASE SameNumber(lq, h.q)
        BY <4>1, <4>2, Zenon DEF SameNumber, TookNumber
      <4>3. CASE /\ ~lq.hasCSeq /\ h.q.hasCSeq
                 /\ \E k \in 1..Len(text) : IsCSeq(text[k]) /\ h.q.cseq = text[k][3]
        BY <3>7, <4>1, <4>3, Zenon DEF SameNumber, TookNumber
      <4> QED BY <3>6, <4>2, <4>3
    <3>9. p.q = h.q /\ p.ok = h.ok /\ p.buf = u
      BY <3>1
    <3> QED BY <3>4, <3>6, <3>8, <3>9, Zenon
  <2>6. CASE ~(line.q.state = "kParseHeadersLine" /\ last > 0)
    <3>1. p = [ok |-> lok, q |-> lq, buf |-> rest]
      BY <2>1, <2>6, Zenon
    <3>2. ReqFields(lq) /\ lq.state \in {"kParseRequestLine", "kParseHeadersLine"} /\ SameNumber(q, lq)
      BY <2>3, Zenon DEF SameNumber
    <3> HIDE DEF lok, lq, rest
    <3>3. p.q = lq /\ p.buf = rest /\ lq.state # "kGotAll"
      BY <3>1, <3>2
    <3> QED BY <2>2, <3>2, <3>3, Zenon DEF TookNumber
  <2> QED BY <2>5, <2>6
<1> QED BY <1>1, <1>2

-----------------------------------------------------------------------------
(* The numbers of the requests, from the client to the answers             *)

\* The symbols a client may write.
Wire ==
  Symbols \cup {Eol} \cup ({"line"} \X (Methods \cup {"RECORD"}) \X Nat)
  \cup ({"hdr"} \X {"CSeq"} \X Nat) \cup ({"rtcp"} \X {"$"} \X Nat)

Numbers(t) == {t[k][3] : k \in {j \in 1..Len(t) : IsCSeq(t[j])}}
Num(q) == {x \in {q.cseq} : q.hasCSeq}
Increasing(t) == \A j, k \in 1..Len(t) : j < k /\ IsCSeq(t[j]) /\ IsCSeq(t[k]) => t[j][3] < t[k][3]
Below(A, B) == \A a \in A, b \in B : a < b

\* Of a client that has sent n requests: the numbers answered, the one the
\* parser holds, those in the buffer and those still to come stand in one
\* line.
InLine(A, q, b, t, n) ==
  /\ ReqFields(q) /\ b \in Seq(Wire) /\ t \in Seq(Wire) /\ n \in Nat
  /\ A \cup Num(q) \cup Numbers(b) \cup Numbers(t) \subseteq 1..n
  /\ Increasing(b) /\ Increasing(t)
  /\ Below(A, Num(q)) /\ Below(A, Numbers(b)) /\ Below(A, Numbers(t))
  /\ Below(Num(q), Numbers(b)) /\ Below(Num(q), Numbers(t)) /\ Below(Numbers(b), Numbers(t))

LEMMA NumbersAre ==
    ASSUME NEW t
    PROVE  /\ \A k \in 1..Len(t) : IsCSeq(t[k]) => t[k][3] \in Numbers(t)
           /\ \A x \in Numbers(t) : \E k \in 1..Len(t) : IsCSeq(t[k]) /\ x = t[k][3]
BY Zenon DEF Numbers

LEMMA NoNumbers == <<>> \in Seq(Wire) /\ Numbers(<<>>) = {} /\ Increasing(<<>>)
<1>1. Len(<<>>) = 0 /\ 1..0 = {} /\ <<>> \in Seq(Wire)
  OBVIOUS
<1> QED BY <1>1 DEF Numbers, Increasing

\* A buffer that is dropped, and one that lost a prefix.
LEMMA LineShrinks ==
    ASSUME NEW A, NEW q, NEW b, NEW t, NEW n, InLine(A, q, b, t, n), NEW m \in 0..Len(b),
           NEW u, Behind(Wire, b, m, u)
    PROVE  InLine(A, q, u, t, n) /\ InLine(A, q, <<>>, t, n)
<1>1. Len(b) \in Nat
  BY DEF InLine
<1>2. u \in Seq(Wire) /\ Len(u) = Len(b) - m /\ \A i \in 1..Len(u) : u[i] = b[m + i]
  BY DEF Behind
<1>3. \A i \in 1..Len(u) : m + i \in 1..Len(b)
  BY <1>1, <1>2
<1>4. Numbers(u) \subseteq Numbers(b)
  <2> SUFFICES ASSUME NEW x \in Numbers(u) PROVE x \in Numbers(b)
    BY Zenon
  <2>1. PICK k \in 1..Len(u) : IsCSeq(u[k]) /\ x = u[k][3]
    BY NumbersAre
  <2>2. u[k] = b[m + k] /\ m + k \in 1..Len(b)
    BY <1>2, <1>3, <2>1
  <2> QED BY <2>1, <2>2, NumbersAre, Zenon
<1>5. Increasing(u)
  <2> SUFFICES ASSUME NEW i \in 1..Len(u), NEW j \in 1..Len(u), i < j, IsCSeq(u[i]), IsCSeq(u[j])
               PROVE  u[i][3] < u[j][3]
    BY DEF Increasing
  <2>1. m + i \in 1..Len(b) /\ m + j \in 1..Len(b) /\ m + i < m + j
    BY <1>3
  <2>2. u[i] = b[m + i] /\ u[j] = b[m + j]
    BY <1>2
  <2>3. Increasing(b)
    BY DEF InLine
  <2> QED BY <2>1, <2>2, <2>3, Zenon DEF Increasing
<1>6. InLine(A, q, u, t, n)
  BY <1>2, <1>4, <1>5, Zenon DEF InLine, Below
<1>7. InLine(A, q, <<>>, t, n)
  BY NoNumbers, Zenon DEF InLine, Below
<1> QED BY <1>6, <1>7

LEMMA LineParses ==
    ASSUME NEW A, NEW q, NEW b, NEW t, NEW n, InLine(A, q, b, t, n),
           q.state \in {"kParseRequestLine", "kParseHeadersLine"}, NEW p, p = ParseRequest(q, b)
    PROVE  InLine(A, p.q, p.buf, t, n)
<1>1. PICK m \in 0..Len(b) : Behind(Wire, b, m, p.buf) /\ TookNumber(q, p.q, b, m)
  BY ParsedIs DEF InLine
<1>2. InLine(A, q, p.buf, t, n)
  BY <1>1, LineShrinks
<1>3. ReqFields(p.q)
  BY ParsedIs DEF InLine
<1>4. CASE SameNumber(q, p.q)
  <2>1. Num(p.q) = Num(q)
    BY <1>4, Zenon DEF SameNumber, Num
  <2> QED BY <1>2, <1>3, <2>1, Zenon DEF InLine
<1>5. ASSUME ~q.hasCSeq, p.q.hasCSeq, NEW k \in 1..m, IsCSeq(b[k]), p.q.cseq = b[k][3]
      PROVE  InLine(A, p.q, p.buf, t, n)
  <2>1. Num(p.q) = {b[k][3]}
    BY <1>5 DEF Num
  <2>2. k \in 1..Len(b) /\ Len(b) \in Nat
    BY <1>1 DEF InLine
  <2>3. b[k][3] \in Numbers(b)
    BY <1>5, <2>2, NumbersAre
  <2>4. Below(Num(p.q), Numbers(p.buf))
    <3> SUFFICES ASSUME NEW x \in Numbers(p.buf) PROVE b[k][3] < x
      BY <2>1, Zenon DEF Below
    <3>1. PICK i \in 1..Len(p.buf) : IsCSeq(p.buf[i]) /\ x = p.buf[i][3]
      BY NumbersAre
    <3>2. p.buf[i] = b[m + i] /\ Len(p.buf) = Len(b) - m
      BY <1>1, <3>1 DEF Behind
    <3>3. m + i \in 1..Len(b) /\ k < m + i
      BY <2>2, <3>1, <3>2
    <3>4. Increasing(b)
      BY DEF InLine
    <3> QED BY <1>5, <2>2, <3>1, <3>2, <3>3, <3>4, Zenon DEF Increasing
  <2>5. Below(Num(p.q), Numbers(t)) /\ Below(A, Num(p.q)) /\ Num(p.q) \subseteq 1..n
    BY <2>1, <2>3, Zenon DEF InLine, Below
  <2> QED BY <1>2, <1>3, <2>4, <2>5, Zenon DEF InLine
<1> QED BY <1>1, <1>4, <1>5, Zenon DEF TookNumber

\* An answer, and a parser that has been reset or made anew.
LEMMA LineAnswers ==
    ASSUME NEW A, NEW q, NEW b, NEW t, NEW n, InLine(A, q, b, t, n), NEW r, ReqFields(r), ~r.hasCSeq
    PROVE  /\ InLine(A, r, b, t, n)
           /\ q.hasCSeq => InLine(A \cup {q.cseq}, r, b, t, n) /\ q.cseq \in 1..n /\ \A a \in A : a < q.cseq
<1>1. Num(r) = {}
  BY DEF Num
<1>2. InLine(A, r, b, t, n)
  BY <1>1, Zenon DEF InLine, Below
<1>3. ASSUME q.hasCSeq
      PROVE  InLine(A \cup {q.cseq}, r, b, t, n) /\ q.cseq \in 1..n /\ \A a \in A : a < q.cseq
  <2>1. q.cseq \in Num(q)
    BY <1>3 DEF Num
  <2> QED BY <1>1, <2>1, Zenon DEF InLine, Below
<1> QED BY <1>2, <1>3

LEMMA SymbolsAre ==
    /\ \A s \in Symbols : ~IsCSeq(s) /\ s[1] \in {"hdr", "data"} /\ (s[1] = "data" => s[2] = "RTCP")
    /\ ~IsCSeq(Eol) /\ Eol[1] = "eol"
    /\ \A m, n : ~IsCSeq(Line(m, n)) /\ Line(m, n)[1] = "line" /\ Line(m, n)[2] = m /\ Line(m, n)[3] = n
    /\ \A n : IsCSeq(Hdr("CSeq", n)) /\ Hdr("CSeq", n)[3] = n
    /\ \A n : ~IsCSeq(<<"rtcp", "$", n>>) /\ <<"rtcp", "$", n>>[1] = "rtcp" /\ <<"rtcp", "$", n>>[3] = n
<1>1. \A s \in Symbols : ~IsCSeq(s) /\ s[1] \in {"hdr", "data"} /\ (s[1] = "data" => s[2] = "RTCP")
  <2> TAKE s \in Symbols
  <2>1. CASE s \in {"hdr"} \X Names \X Nat
    BY <2>1 DEF Names, IsCSeq
  <2>2. CASE s = <<"data", "RTCP", 0>>
    BY <2>2 DEF IsCSeq
  <2> QED BY <2>1, <2>2 DEF Symbols
<1>2. ~IsCSeq(Eol) /\ Eol[1] = "eol"
  BY DEF Eol, IsCSeq
<1>3. \A m, n : ~IsCSeq(Line(m, n)) /\ Line(m, n)[1] = "line" /\ Line(m, n)[2] = m /\ Line(m, n)[3] = n
  BY DEF Line, IsCSeq
<1>4. \A n : IsCSeq(Hdr("CSeq", n)) /\ Hdr("CSeq", n)[3] = n
  BY DEF Hdr, IsCSeq
<1>5. \A n : ~IsCSeq(<<"rtcp", "$", n>>) /\ <<"rtcp", "$", n>>[1] = "rtcp" /\ <<"rtcp", "$", n>>[3] = n
  BY DEF IsCSeq
<1> QED BY <1>1, <1>2, <1>3, <1>4, <1>5

LEMMA LinesAre ==
    ASSUME NEW h \in Seq(Symbols)
    PROVE  /\ Lines(h) \in Seq(Wire) /\ Len(Lines(h)) = 2 * Len(h)
           /\ \A k \in 1..2 * Len(h) : ~IsCSeq(Lines(h)[k])
           /\ \A k \in 1..2 * Len(h) : Lines(h)[k] = Eol \/ \E j \in 1..Len(h) : Lines(h)[k] = h[j]
           /\ \A k \in 1..Len(h) : 2 * k - 1 \in 1..2 * Len(h) /\ Lines(h)[2 * k - 1] = h[k]
<1> DEFINE L == Lines(h)
<1>1. Len(h) \in Nat /\ 2 * Len(h) \in Nat /\ \A k \in 1..Len(h) : h[k] \in Symbols
  OBVIOUS
<1>2. DOMAIN L = 1..2 * Len(h) /\ \A k \in 1..2 * Len(h) : L[k] = IF k % 2 = 1 THEN h[(k + 1) \div 2] ELSE Eol
  BY Zenon DEF Lines
<1>3. L = [k \in 1..2 * Len(h) |-> L[k]]
  BY Zenon DEF Lines
<1> HIDE DEF L
<1>4. \A k \in 1..2 * Len(h) : k % 2 = 1 => (k + 1) \div 2 \in 1..Len(h)
  BY <1>1
<1>5. \A k \in 1..2 * Len(h) : L[k] \in Symbols \cup {Eol}
  BY <1>1, <1>2, <1>4
<1>6. \A k \in 1..2 * Len(h) : L[k] \in Wire /\ ~IsCSeq(L[k])
  BY <1>5, SymbolsAre DEF Wire
<1>7. L \in Seq(Wire) /\ Len(L) = 2 * Len(h)
  <2>1. L \in [1..2 * Len(h) -> Wire]
    BY <1>3, <1>6, Zenon
  <2> QED BY <1>1, <2>1
<1>8. \A k \in 1..Len(h) : 2 * k - 1 \in 1..2 * Len(h) /\ (2 * k - 1) % 2 = 1 /\ (2 * k - 1 + 1) \div 2 = k
  BY <1>1
<1>9. \A k \in 1..Len(h) : 2 * k - 1 \in 1..2 * Len(h) /\ L[2 * k - 1] = h[k]
  BY <1>2, <1>8, Zenon
<1>10. \A k \in 1..2 * Len(h) : L[k] = Eol \/ \E j \in 1..Len(h) : L[k] = h[j]
  BY <1>2, <1>4, Zenon
<1> QED BY <1>6, <1>7, <1>9, <1>10, Zenon DEF L

LEMMA Literals ==
    ASSUME NEW S, NEW a \in S, NEW b \in S, NEW c \in S, NEW d \in S
    PROVE  /\ <<a, b, c, d>> \in Seq(S) /\ Len(<<a, b, c, d>>) = 4
           /\ <<a>> \in Seq(S) /\ Len(<<a>>) = 1
<1>1. Len(<<a, b, c, d>>) = 4 /\ Len(<<a>>) = 1
  OBVIOUS
<1>2. <<a>> \in Seq(S)
  OBVIOUS
<1>3. <<a, b, c, d>> \in Seq(S)
  <2> DEFINE t == <<a, b, c, d>>
  <2>1. Len(t) = 4 /\ t = [k \in 1..4 |-> t[k]] /\ \A k \in 1..4 : t[k] \in S
    OBVIOUS
  <2> HIDE DEF t
  <2>2. t \in [1..4 -> S] /\ 4 \in Nat
    BY <2>1, Zenon
  <2> QED BY <2>2
<1> QED BY <1>1, <1>2, <1>3

\* e is a followed by b.
Joined(S, a, b, e) ==
  /\ e \in Seq(S) /\ Len(e) = Len(a) + Len(b)
  /\ \A k \in 1..(Len(a) + Len(b)) : e[k] = IF k <= Len(a) THEN a[k] ELSE b[k - Len(a)]

LEMMA ConcatJoins ==
    ASSUME NEW S, NEW a \in Seq(S), NEW b \in Seq(S)
    PROVE  Joined(S, a, b, a \o b)
BY ConcatProperties DEF Joined

LEMMA ThreeJoined ==
    ASSUME NEW S, NEW a \in Seq(S), NEW b \in Seq(S), NEW c \in Seq(S),
           NEW e, Joined(S, a, b, e), NEW w, Joined(S, e, c, w)
    PROVE  /\ w \in Seq(S) /\ Len(w) = Len(a) + Len(b) + Len(c)
           /\ \A k \in 1..Len(a) : w[k] = a[k]
           /\ \A k \in 1..Len(b) : w[Len(a) + k] = b[k]
           /\ \A k \in 1..Len(c) : w[Len(a) + Len(b) + k] = c[k]
<1>2. /\ e \in Seq(S) /\ Len(e) = Len(a) + Len(b)
      /\ \A k \in 1..(Len(a) + Len(b)) : e[k] = IF k <= Len(a) THEN a[k] ELSE b[k - Len(a)]
  BY DEF Joined
<1>3. /\ w \in Seq(S) /\ Len(w) = Len(e) + Len(c)
      /\ \A k \in 1..(Len(e) + Len(c)) : w[k] = IF k <= Len(e) THEN e[k] ELSE c[k - Len(e)]
  BY DEF Joined
<1>4. Len(a) \in Nat /\ Len(b) \in Nat /\ Len(c) \in Nat
  OBVIOUS
<1>5. \A k \in 1..Len(a) : w[k] = a[k]
  BY <1>2, <1>3, <1>4
<1>6. \A k \in 1..Len(b) : w[Len(a) + k] = b[k]
  <2> TAKE k \in 1..Len(b)
  <2>1. /\ Len(a) + k \in 1..(Len(e) + Len(c)) /\ Len(a) + k <= Len(e) /\ ~(Len(a) + k <= Len(a))
        /\ Len(a) + k \in 1..(Len(a) + Len(b)) /\ Len(a) + k - Len(a) = k
    BY <1>2, <1>4
  <2> QED BY <1>2, <1>3, <2>1
<1>7. \A k \in 1..Len(c) : w[Len(a) + Len(b) + k] = c[k]
  <2> TAKE k \in 1..Len(c)
  <2>1. /\ Len(a) + Len(b) + k \in 1..(Len(e) + Len(c)) /\ ~(Len(a) + Len(b) + k <= Len(e))
        /\ Len(a) + Len(b) + k - Len(e) = k
    BY <1>2, <1>4
  <2> QED BY <1>3, <2>1
<1>8. w \in Seq(S) /\ Len(w) = Len(a) + Len(b) + Len(c)
  BY <1>2, <1>3
<1> QED BY <1>5, <1>6, <1>7, <1>8, Zenon

\* A request has five symbols and two for each header; one is its number.
RequestText(all, item, i) ==
  /\ all \in Seq(Wire) /\ Len(all) = 2 * Len(item.h) + 5 /\ Len(item.h) \in Nat
  /\ all[1] = Line(item.m, item.n) /\ all[2] = Eol
  /\ all[3] = Hdr("CSeq", i) /\ all[4] = Eol /\ all[Len(all)] = Eol
  /\ \A k \in 1..Len(item.h) : all[2 * k + 3] = item.h[k]
  /\ \A k \in 1..Len(all) : k >= 5 => ~IsCSeq(all[k])
  /\ \A k \in 1..Len(all) : k >= 5 => all[k] = Eol \/ \E j \in 1..Len(item.h) : all[k] = item.h[j]

LEMMA TextIs ==
    ASSUME NEW item \in Items, NEW i \in Nat, item.m # "RTCP", NEW all, all = Text(item, i)
    PROVE  RequestText(all, item, i)
<1> DEFINE head == <<Line(item.m, item.n), Eol, Hdr("CSeq", i), Eol>>
           L == Lines(item.h)
           tail == <<Eol>>
           m == Len(item.h)
<1>1. /\ item.m \in Methods \cup {"RECORD", "RTCP"} /\ item.n \in Nat /\ item.h \in Seq(Symbols)
  BY DEF Items
<1>2. head \in Seq(Wire) /\ Len(head) = 4 /\ tail \in Seq(Wire) /\ Len(tail) = 1
  <2>1. Eol \in Wire /\ Hdr("CSeq", i) \in Wire /\ Line(item.m, item.n) \in Wire
    <3>1. item.m \in Methods \cup {"RECORD"}
      BY <1>1
    <3>2. Line(item.m, item.n) \in {"line"} \X (Methods \cup {"RECORD"}) \X Nat
      BY <1>1, <3>1 DEF Line
    <3>3. Hdr("CSeq", i) \in {"hdr"} \X {"CSeq"} \X Nat
      BY DEF Hdr
    <3> QED BY <3>2, <3>3, Zenon DEF Wire
  <2> QED BY <2>1, Literals, Zenon
<1>3. /\ head[1] = Line(item.m, item.n) /\ head[2] = Eol /\ head[3] = Hdr("CSeq", i) /\ head[4] = Eol
      /\ tail[1] = Eol
  OBVIOUS
<1>4. /\ L \in Seq(Wire) /\ Len(L) = 2 * m /\ (\A k \in 1..2 * m : ~IsCSeq(L[k])) /\ m \in Nat
      /\ \A k \in 1..m : 2 * k - 1 \in 1..2 * m /\ L[2 * k - 1] = item.h[k]
      /\ \A k \in 1..2 * m : L[k] = Eol \/ \E j \in 1..m : L[k] = item.h[j]
  <2>1. m \in Nat
    BY <1>1
  <2> QED BY <1>1, <2>1, LinesAre, Zenon
<1>5. all = head \o L \o tail
  BY Zenon DEF Text
<1> DEFINE e == head \o L
           w == e \o tail
<1>0. w = all
  BY <1>5
<1> HIDE DEF head, L, tail, m
<1>7. Joined(Wire, head, L, e)
  BY <1>2, <1>4, ConcatJoins, Zenon
<1> HIDE DEF e
<1>17. Joined(Wire, e, tail, w)
  <2>1. e \in Seq(Wire)
    BY <1>7, Zenon DEF Joined
  <2> QED BY <1>2, <2>1, ConcatJoins, Zenon
<1> HIDE DEF w
<1>18. /\ w \in Seq(Wire) /\ Len(w) = Len(head) + Len(L) + Len(tail)
       /\ \A k \in 1..Len(head) : w[k] = head[k]
       /\ \A k \in 1..Len(L) : w[Len(head) + k] = L[k]
       /\ \A k \in 1..Len(tail) : w[Len(head) + Len(L) + k] = tail[k]
  <2>1. head \in Seq(Wire) /\ L \in Seq(Wire) /\ tail \in Seq(Wire)
    BY <1>2, <1>4
  <2> QED BY <2>1, <1>7, <1>17, ThreeJoined
<1>6. /\ all \in Seq(Wire) /\ Len(all) = Len(head) + Len(L) + Len(tail)
      /\ \A k \in 1..Len(head) : all[k] = head[k]
      /\ \A k \in 1..Len(L) : all[Len(head) + k] = L[k]
      /\ \A k \in 1..Len(tail) : all[Len(head) + Len(L) + k] = tail[k]
  BY <1>0, <1>18, Zenon
<1>8. all \in Seq(Wire) /\ Len(all) = 5 + 2 * m
  BY <1>2, <1>4, <1>6
<1>9. \A k \in 1..4 : all[k] = head[k]
  BY <1>2, <1>6
<1>10. \A k \in 1..2 * m : all[4 + k] = L[k]
  BY <1>2, <1>4, <1>6
<1>11. all[5 + 2 * m] = Eol
  <2>1. 1 \in 1..Len(tail) /\ Len(head) + Len(L) + 1 = 5 + 2 * m
    BY <1>2, <1>4
  <2> QED BY <1>3, <1>6, <2>1, Zenon
<1>12. ASSUME NEW k \in 1..m PROVE all[2 * k + 3] = item.h[k]
  <2>1. 2 * k - 1 \in 1..2 * m /\ 4 + (2 * k - 1) = 2 * k + 3
    BY <1>4
  <2> QED BY <1>4, <1>10, <2>1, Zenon
<1>13. ASSUME NEW k \in 1..(5 + 2 * m), k >= 5
       PROVE  ~IsCSeq(all[k]) /\ (all[k] = Eol \/ \E j \in 1..m : all[k] = item.h[j])
  <2>1. CASE k = 5 + 2 * m
    BY <1>11, <2>1, SymbolsAre
  <2>2. CASE k # 5 + 2 * m
    <3>1. k - 4 \in 1..2 * m /\ 4 + (k - 4) = k
      BY <1>4, <1>13, <2>2
    <3>2. all[k] = L[k - 4]
      BY <1>10, <3>1
    <3> QED BY <1>4, <3>1, <3>2, Zenon
  <2> QED BY <2>1, <2>2
<1>14. all[1] = Line(item.m, item.n) /\ all[2] = Eol /\ all[3] = Hdr("CSeq", i) /\ all[4] = Eol
  BY <1>3, <1>9
<1>15. Len(all) = 2 * m + 5 /\ 1..Len(all) = 1..(5 + 2 * m)
  BY <1>4, <1>8
<1>16. all[Len(all)] = Eol
  BY <1>4, <1>11, <1>15
<1> QED BY <1>4, <1>8, <1>12, <1>13, <1>14, <1>15, <1>16, Zenon DEF m, RequestText

\* An interleaved packet has no number.
LEMMA PacketIs ==
    ASSUME NEW item \in Items, NEW i \in Nat, item.m = "RTCP", NEW all, all = Text(item, i)
    PROVE  /\ all \in Seq(Wire) /\ Len(all) = Len(item.h) + 1 /\ Len(item.h) \in Nat /\ item.n \in Nat
           /\ all[1] = <<"rtcp", "$", item.n>>
           /\ \A k \in 1..Len(all) : ~IsCSeq(all[k])
<1> DEFINE head == <<<<"rtcp", "$", item.n>>>>
           h == item.h
           e == head \o h
<1>1. item.n \in Nat /\ h \in Seq(Symbols)
  BY DEF Items
<1>2. /\ head \in Seq(Wire) /\ Len(head) = 1 /\ head[1] = <<"rtcp", "$", item.n>>
      /\ head[1] \in Wire /\ ~IsCSeq(head[1])
  <2>1. <<"rtcp", "$", item.n>> \in {"rtcp"} \X {"$"} \X Nat
    BY <1>1
  <2>2. <<"rtcp", "$", item.n>> \in Wire /\ ~IsCSeq(<<"rtcp", "$", item.n>>)
    BY <2>1, SymbolsAre, Zenon DEF Wire
  <2>3. head[1] = <<"rtcp", "$", item.n>>
    OBVIOUS
  <2> QED BY <2>2, <2>3, Literals, Zenon
<1>3. h \in Seq(Wire) /\ Len(h) \in Nat /\ \A k \in 1..Len(h) : ~IsCSeq(h[k])
  <2>1. Symbols \subseteq Wire
    BY Zenon DEF Wire
  <2> HIDE DEF h
  <2>2. \A k \in 1..Len(h) : h[k] \in Symbols
    BY <1>1
  <2>3. h \in Seq(Wire) /\ Len(h) \in Nat
    BY <1>1, <2>1
  <2> QED BY <2>2, <2>3, SymbolsAre
<1>4. e = all
  BY Zenon DEF Text
<1>5. item.h = h
  OBVIOUS
<1> HIDE DEF head, h
<1>6. Joined(Wire, head, h, e)
  BY <1>2, <1>3, ConcatJoins, Zenon
<1> HIDE DEF e
<1>7. /\ e \in Seq(Wire) /\ Len(e) = 1 + Len(h)
      /\ \A k \in 1..(1 + Len(h)) : e[k] = IF k <= 1 THEN head[k] ELSE h[k - 1]
  BY <1>2, <1>6 DEF Joined
<1>8. e[1] = head[1]
  BY <1>3, <1>7
<1>9. ASSUME NEW k \in 1..Len(e) PROVE ~IsCSeq(e[k])
  <2>1. CASE k = 1
    BY <1>2, <1>8, <2>1
  <2>2. CASE k # 1
    <3>1. k - 1 \in 1..Len(h) /\ e[k] = h[k - 1]
      BY <1>3, <1>7, <2>2
    <3> QED BY <1>3, <3>1
  <2> QED BY <2>1, <2>2
<1>10. Len(e) = Len(h) + 1
  BY <1>3, <1>7
<1> QED BY <1>1, <1>2, <1>3, <1>4, <1>5, <1>7, <1>8, <1>9, <1>10, Zenon

\* Whatever the client sends carries at most its number.
LEMMA NumberOfText ==
    ASSUME NEW item \in Items, NEW i \in Nat, NEW all, all = Text(item, i)
    PROVE  /\ all \in Seq(Wire) /\ Len(all) \in Nat /\ Len(all) > 0
           /\ Numbers(all) \subseteq {i} /\ Increasing(all)
<1>1. /\ all \in Seq(Wire) /\ Len(all) \in Nat /\ Len(all) > 0
      /\ \A k \in 1..Len(all) : IsCSeq(all[k]) => k = 3 /\ all[k][3] = i
  <2>1. CASE item.m = "RTCP"
    <3>1. /\ all \in Seq(Wire) /\ Len(all) = Len(item.h) + 1 /\ Len(item.h) \in Nat
          /\ \A k \in 1..Len(all) : ~IsCSeq(all[k])
      BY <2>1, PacketIs, Zenon
    <3> QED BY <3>1
  <2>2. CASE item.m # "RTCP"
    <3>1. /\ all \in Seq(Wire) /\ Len(all) = 2 * Len(item.h) + 5 /\ Len(item.h) \in Nat
          /\ all[1] = Line(item.m, item.n) /\ all[2] = Eol /\ all[3] = Hdr("CSeq", i) /\ all[4] = Eol
          /\ \A k \in 1..Len(all) : k >= 5 => ~IsCSeq(all[k])
      <4>1. RequestText(all, item, i)
        BY <2>2, TextIs, Zenon
      <4> QED BY <4>1, Zenon DEF RequestText
    <3>2. ~IsCSeq(all[1]) /\ ~IsCSeq(all[2]) /\ all[3][3] = i /\ ~IsCSeq(all[4])
      BY <3>1, SymbolsAre
    <3>3. ASSUME NEW k \in 1..Len(all), IsCSeq(all[k]) PROVE k = 3
      <4>1. k \notin {1, 2, 4} /\ ~(k >= 5)
        BY <3>1, <3>2, <3>3, Zenon
      <4> QED BY <3>1, <4>1
    <3> QED BY <3>1, <3>2, <3>3
  <2> QED BY <2>1, <2>2
<1>2. Numbers(all) \subseteq {i}
  <2> SUFFICES ASSUME NEW x \in Numbers(all) PROVE x = i
    OBVIOUS
  <2>1. PICK k \in 1..Len(all) : IsCSeq(all[k]) /\ x = all[k][3]
    BY NumbersAre
  <2> QED BY <1>1, <2>1, Zenon
<1>3. Increasing(all)
  <2> SUFFICES ASSUME NEW j \in 1..Len(all), NEW k \in 1..Len(all), j < k, IsCSeq(all[j]), IsCSeq(all[k])
               PROVE  FALSE
    BY Zenon DEF Increasing
  <2>1. j = 3 /\ k = 3
    BY <1>1, Zenon
  <2> QED BY <2>1
<1> QED BY <1>1, <1>2, <1>3

LEMMA NumbersJoined ==
    ASSUME NEW S, NEW a \in Seq(S), NEW b \in Seq(S), NEW e, Joined(S, a, b, e)
    PROVE  /\ Numbers(e) = Numbers(a) \cup Numbers(b)
           /\ Increasing(e) <=> Increasing(a) /\ Increasing(b) /\ Below(Numbers(a), Numbers(b))
<1> DEFINE m == Len(a)
           n == Len(b)
<1>1. m \in Nat /\ n \in Nat
  OBVIOUS
<1>2. /\ Len(e) = m + n
      /\ \A k \in 1..(m + n) : e[k] = IF k <= m THEN a[k] ELSE b[k - m]
  BY DEF Joined
<1> HIDE DEF m, n
<1>3. /\ \A k \in 1..m : k \in 1..Len(e) /\ e[k] = a[k]
      /\ \A k \in 1..n : m + k \in 1..Len(e) /\ e[m + k] = b[k]
      /\ \A k \in 1..Len(e) : k \in 1..m \/ \E j \in 1..n : k = m + j
  <2>1. ASSUME NEW k \in 1..m PROVE k \in 1..Len(e) /\ e[k] = a[k]
    BY <1>1, <1>2
  <2>2. ASSUME NEW k \in 1..n PROVE m + k \in 1..Len(e) /\ e[m + k] = b[k]
    <3>1. PICK x : x = m + k
      OBVIOUS
    <3>2. x \in 1..(m + n) /\ ~(x <= m) /\ x - m = k
      BY <1>1, <3>1
    <3>3. e[x] = b[k] /\ Len(e) = m + n
      BY <1>2, <3>2
    <3> QED BY <3>1, <3>2, <3>3, Zenon
  <2>3. ASSUME NEW k \in 1..Len(e), k \notin 1..m PROVE \E j \in 1..n : k = m + j
    <3>1. Len(e) = m + n
      BY <1>2
    <3>2. k - m \in 1..n /\ k = m + (k - m)
      BY <1>1, <2>3, <3>1
    <3> QED BY <3>2
  <2> QED BY <2>1, <2>2, <2>3
<1>4. Numbers(e) = Numbers(a) \cup Numbers(b)
  <2>1. ASSUME NEW x \in Numbers(e) PROVE x \in Numbers(a) \cup Numbers(b)
    <3>1. PICK k \in 1..Len(e) : IsCSeq(e[k]) /\ x = e[k][3]
      BY NumbersAre
    <3>2. CASE k \in 1..m
      BY <1>3, <3>1, <3>2, NumbersAre, Zenon DEF m
    <3>3. ASSUME NEW j \in 1..n, k = m + j PROVE x \in Numbers(b)
      <4>1. e[k] = b[j]
        BY <1>3, <3>3
      <4> QED BY <3>1, <4>1, NumbersAre, Zenon DEF n
    <3> QED BY <1>3, <3>2, <3>3, Zenon
  <2>2. ASSUME NEW x \in Numbers(a) PROVE x \in Numbers(e)
    <3>1. PICK k \in 1..m : IsCSeq(a[k]) /\ x = a[k][3]
      BY NumbersAre DEF m
    <3> QED BY <1>3, <3>1, NumbersAre, Zenon
  <2>3. ASSUME NEW x \in Numbers(b) PROVE x \in Numbers(e)
    <3>1. PICK k \in 1..n : IsCSeq(b[k]) /\ x = b[k][3]
      BY NumbersAre DEF n
    <3> QED BY <1>3, <3>1, NumbersAre, Zenon
  <2> QED BY <2>1, <2>2, <2>3, Zenon
<1>5. ASSUME Increasing(e) PROVE Increasing(a) /\ Increasing(b) /\ Below(Numbers(a), Numbers(b))
  <2>1. Increasing(a)
    <3> SUFFICES ASSUME NEW j \in 1..m, NEW k \in 1..m, j < k, IsCSeq(a[j]), IsCSeq(a[k])
                 PROVE  a[j][3] < a[k][3]
      BY Zenon DEF Increasing, m
    <3> QED BY <1>3, <1>5, Zenon DEF Increasing
  <2>2. Increasing(b)
    <3> SUFFICES ASSUME NEW j \in 1..n, NEW k \in 1..n, j < k, IsCSeq(b[j]), IsCSeq(b[k])
                 PROVE  b[j][3] < b[k][3]
      BY Zenon DEF Increasing, n
    <3>1. m + j < m + k
      BY <1>1
    <3> QED BY <1>3, <1>5, <3>1, Zenon DEF Increasing
  <2>3. Below(Numbers(a), Numbers(b))
    <3> SUFFICES ASSUME NEW x \in Numbers(a), NEW y \in Numbers(b) PROVE x < y
      BY Zenon DEF Below
    <3>1. PICK j \in 1..m : IsCSeq(a[j]) /\ x = a[j][3]
      BY NumbersAre DEF m
    <3>2. PICK k \in 1..n : IsCSeq(b[k]) /\ y = b[k][3]
      BY NumbersAre DEF n
    <3>3. j < m + k
      BY <1>1
    <3> QED BY <1>3, <1>5, <3>1, <3>2, <3>3, Zenon DEF Increasing
  <2> QED BY <2>1, <2>2, <2>3
<1>6. ASSUME Increasing(a), Increasing(b), Below(Numbers(a), Numbers(b)) PROVE Increasing(e)
  <2> SUFFICES ASSUME NEW j \in 1..Len(e), NEW k \in 1..Len(e), j < k, IsCSeq(e[j]), IsCSeq(e[k])
               PROVE  e[j][3] < e[k][3]
    BY Zenon DEF Increasing
  <2>1. CASE j \in 1..m /\ k \in 1..m
    BY <1>3, <1>6, <2>1, Zenon DEF Increasing, m
  <2>2. ASSUME NEW i \in 1..n, k = m + i, j \in 1..m PROVE e[j][3] < e[k][3]
    <3>1. e[k] = b[i] /\ e[j] = a[j]
      BY <1>3, <2>2
    <3>2. e[k][3] \in Numbers(b) /\ e[j][3] \in Numbers(a)
      BY <2>2, <3>1, NumbersAre, Zenon DEF m, n
    <3> QED BY <1>6, <3>2, Zenon DEF Below
  <2>3. ASSUME NEW h \in 1..n, NEW i \in 1..n, j = m + h, k = m + i PROVE e[j][3] < e[k][3]
    <3>1. e[j] = b[h] /\ e[k] = b[i]
      BY <1>3, <2>3
    <3>2. h < i
      BY <1>1, <2>3
    <3> QED BY <1>6, <3>1, <3>2, Zenon DEF Increasing, n
  <2>4. ASSUME NEW h \in 1..n, j = m + h, k \in 1..m PROVE FALSE
    BY <1>1, <2>4
  <2> QED BY <1>3, <2>1, <2>2, <2>3, <2>4, Zenon
<1> QED BY <1>4, <1>5, <1>6

\* The client begins its next request, and what it sends joins the buffer.
LEMMA LineBegins ==
    ASSUME NEW A, NEW q, NEW b, NEW n, InLine(A, q, b, <<>>, n),
           NEW t \in Seq(Wire), Numbers(t) \subseteq {n + 1}, Increasing(t)
    PROVE  InLine(A, q, b, t, n + 1)
<1>1. n \in Nat /\ n + 1 \in Nat /\ n + 1 \in 1..(n + 1) /\ \A x \in 1..n : x < n + 1 /\ x \in 1..(n + 1)
  BY DEF InLine
<1>2. A \cup Num(q) \cup Numbers(b) \subseteq 1..n
  BY Zenon DEF InLine
<1>3. \A x \in A \cup Num(q) \cup Numbers(b), y \in Numbers(t) : x < y
  BY <1>1, <1>2, Zenon
<1>4. A \cup Num(q) \cup Numbers(b) \cup Numbers(t) \subseteq 1..(n + 1)
  BY <1>1, <1>2, Zenon
<1>5. Below(A, Numbers(t)) /\ Below(Num(q), Numbers(t)) /\ Below(Numbers(b), Numbers(t))
  BY <1>3, Zenon DEF Below
<1> QED BY <1>1, <1>4, <1>5, Zenon DEF InLine

LEMMA LineMoves ==
    ASSUME NEW A, NEW q, NEW b, NEW t, NEW n, InLine(A, q, b, t, n),
           NEW s \in Seq(Wire), NEW u \in Seq(Wire), Joined(Wire, s, u, t), NEW e, Joined(Wire, b, s, e)
    PROVE  InLine(A, q, e, u, n)
<1>1. b \in Seq(Wire) /\ e \in Seq(Wire) /\ Increasing(t)
  BY Zenon DEF InLine, Joined
<1>2. /\ Numbers(t) = Numbers(s) \cup Numbers(u)
      /\ Increasing(s) /\ Increasing(u) /\ Below(Numbers(s), Numbers(u))
  BY <1>1, NumbersJoined
<1>3. /\ Numbers(e) = Numbers(b) \cup Numbers(s)
      /\ Increasing(b) /\ Increasing(s) /\ Below(Numbers(b), Numbers(s)) => Increasing(e)
  BY <1>1, NumbersJoined
<1>4. Below(Numbers(b), Numbers(s)) /\ Below(Numbers(b), Numbers(u))
  BY <1>2, Zenon DEF InLine, Below
<1>5. Increasing(e)
  BY <1>2, <1>3, <1>4, Zenon DEF InLine
<1>6. Below(A, Numbers(e)) /\ Below(A, Numbers(u)) /\ Below(Num(q), Numbers(e)) /\ Below(Num(q), Numbers(u))
  BY <1>2, <1>3, Zenon DEF InLine, Below
<1>7. Below(Numbers(e), Numbers(u))
  BY <1>2, <1>3, <1>4, Zenon DEF Below
<1>8. A \cup Num(q) \cup Numbers(e) \cup Numbers(u) \subseteq 1..n
  BY <1>2, <1>3, Zenon DEF InLine
<1> QED BY <1>1, <1>2, <1>5, <1>6, <1>7, <1>8, Zenon DEF InLine

\* A sequence cut in two.
LEMMA CutJoins ==
    ASSUME NEW S, NEW t \in Seq(S), NEW m \in 0..Len(t)
    PROVE  /\ SubSeq(t, 1, m) \in Seq(S) /\ SubSeq(t, m + 1, Len(t)) \in Seq(S)
           /\ Len(SubSeq(t, 1, m)) = m /\ Len(SubSeq(t, m + 1, Len(t))) = Len(t) - m
           /\ Joined(S, SubSeq(t, 1, m), SubSeq(t, m + 1, Len(t)), t)
<1> DEFINE a == SubSeq(t, 1, m)
           b == SubSeq(t, m + 1, Len(t))
<1>1. Len(t) \in Nat
  OBVIOUS
<1>2. /\ a \in Seq(S) /\ Len(a) = m /\ b \in Seq(S) /\ Len(b) = Len(t) - m
      /\ \A i \in 1..m : a[i] = t[i]
      /\ \A i \in 1..(Len(t) - m) : b[i] = t[m + i]
  BY Pieces
<1> HIDE DEF a, b
<1>3. Len(t) = Len(a) + Len(b)
  BY <1>1, <1>2
<1>4. ASSUME NEW k \in 1..(Len(a) + Len(b)) PROVE t[k] = IF k <= Len(a) THEN a[k] ELSE b[k - Len(a)]
  <2>1. CASE k <= m
    BY <1>1, <1>2, <2>1
  <2>2. CASE ~(k <= m)
    <3>1. k - m \in 1..(Len(t) - m) /\ m + (k - m) = k
      BY <1>1, <1>2, <2>2
    <3> QED BY <1>2, <2>2, <3>1
  <2> QED BY <2>1, <2>2
<1> QED BY <1>2, <1>3, <1>4, Zenon DEF Joined, a, b

-----------------------------------------------------------------------------
(* A complete request in one segment                                       *)

\* The piece of headers of a complete request: its number, then the headers
\* of the item and the ends of their lines.
HeadersOf(text, item, i) ==
  /\ text \in Seq(Wire) /\ Len(text) >= 1 /\ text[1] = Hdr("CSeq", i)
  /\ \A k \in 1..Len(text) : k > 1 => text[k] = Eol \/ \E j \in 1..Len(item.h) : text[k] = item.h[j]
  /\ \A j \in 1..Len(item.h) : \E k \in 1..Len(text) : text[k] = item.h[j]

\* The headers a complete request carries are found, with the values the
\* server understands.
LEMMA CarriedIs ==
    ASSUME NEW item \in Items, NEW i, NEW text, HeadersOf(text, item, i),
           NEW name, name \in {"Accept", "Transport", "Session"}, NEW values, Carries(item, name, values)
    PROVE  /\ Headers(text, name) # {}
           /\ \A k \in Headers(text, name) : text[k][3] \in values
<1>1. item.h \in Seq(Symbols) /\ \A j \in 1..Len(item.h) : item.h[j] \in Symbols
  BY DEF Items
<1>2. ASSUME NEW s \in Symbols, s[2] = name PROVE s[1] = "hdr"
  BY <1>2, SymbolsAre
<1>3. PICK j \in 1..Len(item.h) : item.h[j][2] = name
  BY Zenon DEF Carries
<1>4. PICK k \in 1..Len(text) : text[k] = item.h[j]
  BY Zenon DEF HeadersOf
<1>5. text[k][1] = "hdr" /\ text[k][2] = name
  BY <1>1, <1>2, <1>3, <1>4, Zenon
<1>6. k \in Headers(text, name)
  BY <1>5, Zenon DEF Headers
<1>7. ASSUME NEW n \in Headers(text, name) PROVE text[n][3] \in values
  <2>1. n \in 1..Len(text) /\ text[n][1] = "hdr" /\ text[n][2] = name
    BY Zenon DEF Headers
  <2>2. text[n] # Eol
    BY <2>1, SymbolsAre
  <2>3. text[1][2] # name
    BY DEF HeadersOf, Hdr
  <2>4. n > 1
    BY <2>1, <2>3
  <2>5. PICK m \in 1..Len(item.h) : text[n] = item.h[m]
    BY <2>1, <2>2, <2>4, Zenon DEF HeadersOf
  <2> QED BY <2>1, <2>5, Zenon DEF Carries
<1> QED BY <1>6, <1>7

LEMMA CompleteIs ==
    ASSUME NEW item, Complete(item), item.m # "RTCP"
    PROVE  /\ item.m \in Methods /\ item.n # 9
           /\ item.m = "DESCRIBE" => Carries(item, "Accept", {1})
           /\ item.m = "SETUP" => Carries(item, "Transport", {1, 2, 3})
           /\ item.m = "PLAY" => Carries(item, "Session", {1})
<1>1. Transports.tcp = 1 /\ Transports.udp = 2 /\ Transports.multicast = 3
  BY DEF Transports
<1> QED BY <1>1, Zenon DEF Complete

LEMMA TransportOk ==
    ASSUME NEW q, NEW S, NEW text \in Seq(S), Headers(text, "Transport") # {},
           \A k \in Headers(text, "Transport") : text[k][3] \in {1, 2, 3}
    PROVE  ParseTransport(q, text).ok
<1> DEFINE at == Headers(text, "Transport")
           tcp == {k \in at : text[k][3] \in {Transports.tcp, Transports.badTcp}}
           m == Min(IF tcp # {} THEN tcp ELSE at)
           t == IF at = {} THEN 0 ELSE text[m][3]
<1>1. m \in at
  <2>1. tcp \in SUBSET at /\ at \in SUBSET at
    OBVIOUS
  <2> DEFINE T == IF tcp # {} THEN tcp ELSE at
  <2>2. T \in SUBSET at /\ T # {}
    BY <2>1
  <2> HIDE DEF T, at
  <2>3. Min(T) \in T
    BY <2>2, HeadersAre, Zenon DEF at
  <2>4. Min(T) \in at
    BY <2>2, <2>3
  <2> QED BY <2>4, Zenon DEF T
<1>2. t \in {1, 2, 3}
  <2>1. t = text[m][3]
    BY Zenon
  <2> HIDE DEF m, t
  <2> QED BY <1>1, <2>1, Zenon
<1>3. ParseTransport(q, text).ok = (t \in {Transports.tcp, Transports.udp, Transports.multicast})
  BY DEF ParseTransport
<1>4. Transports.tcp = 1 /\ Transports.udp = 2 /\ Transports.multicast = 3
  BY DEF Transports
<1> HIDE DEF t
<1> QED BY <1>2, <1>3, <1>4

\* parseHeadersLine() of a complete request.
LEMMA HeadersComplete ==
    ASSUME NEW item \in Items, Complete(item), item.m # "RTCP", NEW i \in Nat, NEW text, HeadersOf(text, item, i),
           NEW q0, ReqFields(q0), ~q0.hasCSeq, q0.method = item.m, NEW r, r = ParseHeadersLine(q0, text)
    PROVE  /\ r.ok /\ ReqFields(r.q) /\ r.q.state = "kGotAll" /\ r.q.method = item.m
           /\ r.q.hasCSeq /\ r.q.cseq = i
<1> DEFINE q == ParseCSeq(q0, text)
           t == ParseTransport(q, text)
           done == [q EXCEPT !.state = "kGotAll"]
           got == [t.q EXCEPT !.channel = ParseMediaChannel(q.arg), !.state = "kGotAll"]
<1>1. /\ item.m \in Methods /\ text \in Seq(Wire) /\ Len(text) >= 1 /\ text[1] = Hdr("CSeq", i)
      /\ item.h \in Seq(Symbols)
  BY CompleteIs, Zenon DEF HeadersOf, Items
<1>2. ReqFields(q) /\ q.method = item.m /\ q.hasCSeq /\ q.cseq = i
  <2>1. PICK w : w = ParseCSeq(q0, text)
    OBVIOUS
  <2>2. /\ ReqFields(w) /\ w.method = q0.method
        /\ \/ w = q0 /\ (q0.hasCSeq \/ \A k \in 1..Len(text) : ~IsCSeq(text[k]))
           \/ /\ ~q0.hasCSeq /\ w.hasCSeq
              /\ \E k \in 1..Len(text) : /\ IsCSeq(text[k]) /\ w.cseq = text[k][3]
                                         /\ \A j \in 1..Len(text) : IsCSeq(text[j]) => k <= j
    BY <1>1, <2>1, CSeqIs
  <2>3. 1 \in 1..Len(text) /\ IsCSeq(text[1]) /\ text[1][3] = i
    BY <1>1, SymbolsAre
  <2>4. PICK k \in 1..Len(text) : /\ w.hasCSeq /\ w.cseq = text[k][3]
                                  /\ \A j \in 1..Len(text) : IsCSeq(text[j]) => k <= j
    BY <2>2, <2>3, Zenon
  <2>5. k = 1
    BY <2>3, <2>4
  <2> QED BY <2>1, <2>2, <2>3, <2>4, <2>5, Zenon
<1> HIDE DEF q
<1>3. item.m = "DESCRIBE" => \E k \in Headers(text, "Accept") : text[k][3] = 1
  <2> SUFFICES ASSUME item.m = "DESCRIBE" PROVE \E k \in Headers(text, "Accept") : text[k][3] = 1
    OBVIOUS
  <2>1. Carries(item, "Accept", {1})
    BY CompleteIs
  <2>2. Headers(text, "Accept") # {} /\ \A k \in Headers(text, "Accept") : text[k][3] \in {1}
    BY <2>1, CarriedIs
  <2> QED BY <2>2
<1>4. item.m = "SETUP" => t.ok
  <2> SUFFICES ASSUME item.m = "SETUP" PROVE t.ok
    OBVIOUS
  <2>1. Carries(item, "Transport", {1, 2, 3})
    BY CompleteIs
  <2>2. Headers(text, "Transport") # {} /\ \A k \in Headers(text, "Transport") : text[k][3] \in {1, 2, 3}
    BY <2>1, CarriedIs
  <2> QED BY <1>1, <2>2, TransportOk
<1>5. item.m = "PLAY" => /\ Headers(text, "Session") # {}
                         /\ text[Min(Headers(text, "Session"))][3] = 1
  <2> SUFFICES ASSUME item.m = "PLAY"
               PROVE  Headers(text, "Session") # {} /\ text[Min(Headers(text, "Session"))][3] = 1
    OBVIOUS
  <2> DEFINE at == Headers(text, "Session")
  <2>1. Carries(item, "Session", {1})
    BY CompleteIs
  <2>2. at # {} /\ \A k \in at : text[k][3] \in {1}
    BY <2>1, CarriedIs
  <2>3. Min(at) \in at
    <3>1. at \in SUBSET at
      OBVIOUS
    <3> QED BY <1>1, <2>2, <3>1, HeadersAre, Zenon
  <2> HIDE DEF at
  <2>4. text[Min(at)][3] = 1
    BY <2>2, <2>3
  <2> QED BY <2>2, <2>4 DEF at
<1>6. r = [ok |-> TRUE, q |-> done] \/ r = [ok |-> TRUE, q |-> got]
  <2>1. item.m \in {"OPTIONS", "DESCRIBE", "SETUP", "PLAY", "TEARDOWN", "GET_PARAMETER"}
    BY <1>1 DEF Methods
  <2>2. r = [ok |-> TRUE,
             q |-> CASE q.method = "DESCRIBE" ->
                         IF \E k \in Headers(text, "Accept") : text[k][3] = 1 THEN done ELSE q
                     [] q.method = "SETUP" -> IF t.ok THEN got ELSE t.q
                     [] q.method = "PLAY" ->
                         IF Headers(text, "Session") # {} /\ text[Min(Headers(text, "Session"))][3] = 1
                         THEN done ELSE q
                     [] q.method \in {"RTCP", "NONE"} -> q
                     [] OTHER -> done]
    BY <1>2, Zenon DEF ParseHeadersLine, q
  <2> HIDE DEF t, done, got
  <2>3. q.method = item.m
    BY <1>2
  <2> QED BY <1>3, <1>4, <1>5, <2>1, <2>2, <2>3
<1>7. ReqFields(done) /\ done.state = "kGotAll" /\ done.method = q.method /\ done.hasCSeq = q.hasCSeq /\ done.cseq = q.cseq
  BY <1>2, Zenon DEF ReqFields
<1>8. ReqFields(got) /\ got.state = "kGotAll" /\ got.method = q.method /\ got.hasCSeq = q.hasCSeq /\ got.cseq = q.cseq
  <2>1. PICK w : w = ParseTransport(q, text).q
    OBVIOUS
  <2>2. ReqFields(w) /\ w.method = q.method /\ w.hasCSeq = q.hasCSeq /\ w.cseq = q.cseq
    <3>1. ReqFields(q)
      BY <1>2
    <3>2. SameNumber(q, w) /\ w.method = q.method
      BY <2>1, <3>1, TransportIs
    <3> QED BY <3>2, Zenon DEF SameNumber
  <2>3. PICK g : g = [w EXCEPT !.channel = ParseMediaChannel(q.arg), !.state = "kGotAll"]
    OBVIOUS
  <2>4. ReqFields(g) /\ g.state = "kGotAll" /\ g.method = w.method /\ g.hasCSeq = w.hasCSeq /\ g.cseq = w.cseq
    BY <2>2, <2>3, Zenon DEF ReqFields
  <2>5. got = g
    BY <2>1, <2>3, Zenon
  <2> QED BY <2>2, <2>4, <2>5, Zenon
<1> HIDE DEF done, got
<1>9. r.ok /\ (r.q = done \/ r.q = got)
  BY <1>6
<1> QED BY <1>2, <1>7, <1>8, <1>9, Zenon

\* One call of parseRequest() takes a complete request off the buffer.
LEMMA WholeRequest ==
    ASSUME NEW item \in Items, Complete(item), item.m # "RTCP", NEW i \in Nat, NEW all, all = Text(item, i),
           NEW q, ReqFields(q), q.state = "kParseRequestLine", ~q.hasCSeq, NEW p, p = ParseRequest(q, all)
    PROVE  /\ p.ok /\ ReqFields(p.q) /\ p.q.state = "kGotAll" /\ p.q.method = item.m
           /\ p.q.hasCSeq /\ p.q.cseq = i /\ p.buf = <<>>
<1> DEFINE n == Len(all)
           m == Len(item.h)
           one == SubSeq(all, 1, 1)
           rest == SubSeq(all, 3, n)
           text == SubSeq(rest, 1, n - 3)
           line == ParseRequestLine(q, one)
           h == ParseHeadersLine(line.q, text)
<1>1. /\ all \in Seq(Wire) /\ n = 2 * m + 5 /\ m \in Nat
      /\ all[1] = Line(item.m, item.n) /\ all[2] = Eol
      /\ all[3] = Hdr("CSeq", i) /\ all[4] = Eol /\ all[n] = Eol
      /\ \A k \in 1..m : all[2 * k + 3] = item.h[k]
      /\ \A k \in 1..n : k >= 5 => all[k] = Eol \/ \E j \in 1..m : all[k] = item.h[j]
  <2>1. RequestText(all, item, i)
    BY TextIs, Zenon
  <2> QED BY <2>1, Zenon DEF RequestText
<1>2. n \in Nat /\ n >= 5
  BY <1>1
<1>3. item.m \in Methods /\ item.n # 9
  BY CompleteIs
<1> HIDE DEF n, m
<1>4. all[1][1] = "line" /\ all[1][1] # "rtcp" /\ all[1] # Eol
  <2>1. all[1][1] = "line"
    BY <1>1, SymbolsAre
  <2> QED BY <2>1, SymbolsAre
<1>5. FindCRLF(all) = 2
  <2>1. /\ FindCRLF(all) > 0 /\ all[FindCRLF(all)] = Eol /\ FindCRLF(all) <= 2 /\ FindCRLF(all) \in 0..n
    BY <1>1, <1>2, CRLFsAre DEF n
  <2>2. FindCRLF(all) # 1
    BY <1>4, <2>1
  <2> QED BY <2>1, <2>2
<1>6. one \in Seq(Wire) /\ Len(one) = 1 /\ one[1] = all[1]
  <2>1. 1 \in 0..Len(all) /\ 1 \in 1..1
    BY <1>1, <1>2 DEF n
  <2> QED BY <1>1, <2>1, Pieces
<1>7. /\ rest \in Seq(Wire) /\ Len(rest) = n - 2
      /\ \A k \in 1..(n - 2) : rest[k] = all[2 + k]
  <2>1. 2 \in 0..Len(all) /\ 2 + 1 = 3
    BY <1>2 DEF n
  <2> QED BY <1>1, <2>1, Pieces DEF n
<1>8. FindLastCRLF(rest) = n - 2
  <2>1. n - 2 \in 1..(n - 2) /\ 2 + (n - 2) = n
    BY <1>2
  <2>2. rest[n - 2] = Eol
    BY <1>1, <1>7, <2>1
  <2> HIDE DEF rest
  <2>3. FindLastCRLF(rest) \in 0..Len(rest) /\ FindLastCRLF(rest) >= n - 2
    BY <1>7, <2>1, <2>2, CRLFsAre
  <2> QED BY <1>2, <1>7, <2>3
<1>9. /\ text \in Seq(Wire) /\ Len(text) = n - 3
      /\ \A k \in 1..(n - 3) : text[k] = all[2 + k]
  <2>1. n - 3 \in 0..Len(rest) /\ \A k \in 1..(n - 3) : k \in 1..(n - 2)
    BY <1>2, <1>7
  <2> HIDE DEF rest
  <2>2. /\ SubSeq(rest, 1, n - 3) \in Seq(Wire) /\ Len(SubSeq(rest, 1, n - 3)) = n - 3
        /\ \A k \in 1..(n - 3) : SubSeq(rest, 1, n - 3)[k] = rest[k]
    BY <1>7, <2>1, Pieces
  <2> QED BY <1>7, <2>1, <2>2, Zenon
<1>10. /\ line.ok /\ ReqFields(line.q) /\ line.q.state = "kParseHeadersLine" /\ line.q.method = item.m
       /\ ~line.q.hasCSeq
  <2>1. one[1][1] = "line" /\ one[1][2] = item.m /\ one[1][3] = item.n /\ Len(one) = 1
    <3>1. all[1] = Line(item.m, item.n) /\ Len(one) = 1 /\ one[1] = all[1]
      BY <1>1, <1>6, Zenon
    <3> HIDE DEF one
    <3> QED BY <3>1, SymbolsAre
  <2> HIDE DEF one
  <2>2. line = [ok |-> TRUE, q |-> [q EXCEPT !.method = item.m, !.arg = item.n, !.state = "kParseHeadersLine"]]
    BY <1>3, <2>1, Zenon DEF ParseRequestLine
  <2>3. PICK w : w = [q EXCEPT !.method = item.m, !.arg = item.n, !.state = "kParseHeadersLine"]
    OBVIOUS
  <2>4. ReqFields(w) /\ w.state = "kParseHeadersLine" /\ w.method = item.m /\ w.hasCSeq = q.hasCSeq
    BY <2>3, Zenon DEF ReqFields
  <2>5. line = [ok |-> TRUE, q |-> w]
    BY <2>2, <2>3, Zenon
  <2> HIDE DEF line
  <2>6. line.ok /\ line.q = w
    BY <2>5
  <2> QED BY <2>4, <2>6, Zenon
<1>11. HeadersOf(text, item, i)
  <2>1. Len(text) >= 1 /\ 1 \in 1..(n - 3)
    BY <1>2, <1>9
  <2>2. text[1] = Hdr("CSeq", i)
    BY <1>1, <1>9, <2>1
  <2>3. ASSUME NEW k \in 1..Len(text), k > 1
        PROVE  text[k] = Eol \/ \E j \in 1..Len(item.h) : text[k] = item.h[j]
    <3>1. k \in 1..(n - 3) /\ 2 + k \in 1..n
      BY <1>2, <1>9
    <3>2. text[k] = all[2 + k]
      BY <1>9, <3>1
    <3>3. CASE k = 2
      BY <1>1, <3>2, <3>3
    <3>4. CASE k # 2
      <4>1. 2 + k >= 5
        BY <2>3, <3>4
      <4> QED BY <1>1, <3>1, <3>2, <4>1, Zenon DEF m
    <3> QED BY <3>3, <3>4
  <2>4. ASSUME NEW j \in 1..Len(item.h) PROVE \E k \in 1..Len(text) : text[k] = item.h[j]
    <3>1. j \in 1..m
      BY DEF m
    <3>2. 2 * j + 1 \in 1..(n - 3) /\ 2 + (2 * j + 1) = 2 * j + 3
      BY <1>1, <3>1
    <3>3. text[2 * j + 1] = item.h[j]
      BY <1>1, <1>9, <3>1, <3>2
    <3> QED BY <1>9, <3>2, <3>3
  <2> QED BY <1>9, <2>1, <2>2, <2>3, <2>4, Zenon DEF HeadersOf
<1>12. h.ok /\ ReqFields(h.q) /\ h.q.state = "kGotAll" /\ h.q.method = item.m /\ h.q.hasCSeq /\ h.q.cseq = i
  <2> DEFINE lq == line.q
  <2>1. ReqFields(lq) /\ ~lq.hasCSeq /\ lq.method = item.m
    BY <1>10, Zenon
  <2>2. h = ParseHeadersLine(lq, text)
    BY Zenon
  <2> HIDE DEF lq, text, h
  <2> QED BY <1>11, <2>1, <2>2, HeadersComplete
<1>13. SubSeq(rest, n - 2 + 1, Len(rest)) = <<>>
  <2> HIDE DEF rest
  <2>1. n - 2 \in 0..Len(rest)
    BY <1>2, <1>7
  <2> DEFINE t == SubSeq(rest, n - 2 + 1, Len(rest))
  <2>2. t \in Seq(Wire) /\ Len(t) = 0
    BY <1>2, <1>7, <2>1, Pieces
  <2> HIDE DEF t
  <2>3. t = <<>>
    BY <2>2
  <2> QED BY <2>3 DEF t
<1>14. p = [ok |-> h.ok, q |-> h.q, buf |-> <<>>]
  <2>1. 2 > 0 /\ 2 - 1 = 1 /\ 2 + 1 = 3 /\ n - 2 > 0 /\ n - 2 - 1 = n - 3
    BY <1>2
  <2> DEFINE first == FindCRLF(all)
             line0 == IF q.state = "kParseRequestLine" /\ first > 0
                      THEN ParseRequestLine(q, SubSeq(all, 1, first - 1))
                      ELSE [ok |-> TRUE, q |-> q]
             rest0 == IF q.state = "kParseRequestLine" /\ first > 0
                      THEN SubSeq(all, first + 1, Len(all)) ELSE all
             last0 == FindLastCRLF(rest0)
             h0 == ParseHeadersLine(line0.q, SubSeq(rest0, 1, last0 - 1))
  <2>2. p = IF line0.q.state = "kParseHeadersLine" /\ last0 > 0
            THEN [ok |-> h0.ok, q |-> h0.q, buf |-> SubSeq(rest0, last0 + 1, Len(rest0))]
            ELSE [ok |-> line0.ok, q |-> line0.q, buf |-> rest0]
    BY <1>4, Zenon DEF ParseRequest
  <2>3. line0 = line
    BY <1>5, <2>1, Zenon
  <2>4. rest0 = rest
    BY <1>5, <2>1, Zenon DEF n
  <2>5. last0 = n - 2
    BY <1>8, <2>4, Zenon
  <2> HIDE DEF line0, rest0, last0, line, rest
  <2>6. h0 = h
    BY <2>1, <2>3, <2>4, <2>5, Zenon
  <2> HIDE DEF h0, h
  <2>7. line0.q.state = "kParseHeadersLine" /\ last0 > 0
    BY <1>10, <2>1, <2>3, <2>5, Zenon
  <2>8. SubSeq(rest0, last0 + 1, Len(rest0)) = <<>>
    BY <1>13, <2>4, <2>5, Zenon
  <2> QED BY <2>2, <2>6, <2>7, <2>8, Zenon
<1> HIDE DEF h
<1>15. p.ok = h.ok /\ p.q = h.q /\ p.buf = <<>>
  BY <1>14
<1> QED BY <1>12, <1>15, Zenon

\* An interleaved packet that came in full.
LEMMA WholePacket ==
    ASSUME NEW item \in Items, Complete(item), item.m = "RTCP", NEW i \in Nat, NEW all, all = Text(item, i),
           NEW q, ReqFields(q), NEW p, p = ParseRequest(q, all)
    PROVE  /\ p.ok /\ SameNumber(q, p.q) /\ p.q.state = q.state /\ p.q.method = "RTCP" /\ p.buf = all
           /\ Len(all) > 1 /\ all[1][1] = "rtcp" /\ all[1][3] + 1 = Len(all)
<1>1. /\ Len(all) = Len(item.h) + 1 /\ Len(item.h) \in Nat /\ all[1] = <<"rtcp", "$", item.n>>
  BY PacketIs
<1>2. item.n > 0 /\ item.n = Len(item.h)
  BY Zenon DEF Complete
<1>3. all[1][1] = "rtcp" /\ all[1][3] = item.n
  BY <1>1, SymbolsAre
<1>4. PICK w : w = [q EXCEPT !.method = "RTCP"]
  OBVIOUS
<1>5. SameNumber(q, w) /\ w.state = q.state /\ w.method = "RTCP"
  BY <1>4, Zenon DEF ReqFields, SameNumber
<1>6. p = [ok |-> TRUE, q |-> w, buf |-> all]
  BY <1>3, <1>4, Zenon DEF ParseRequest
<1>7. p.ok /\ p.q = w /\ p.buf = all
  BY <1>6
<1>8. Len(all) > 1 /\ all[1][3] + 1 = Len(all)
  BY <1>1, <1>2, <1>3
<1> QED BY <1>3, <1>5, <1>7, <1>8, Zenon

-----------------------------------------------------------------------------
(* The order of answers, and clients that behave                           *)

Responses == [status : Nat, cseq : Nat]
Told(r) == {r[k].cseq : k \in 1..Len(r)}
Rising(r) == \A j, k \in 1..Len(r) : j < k => r[j].cseq < r[k].cseq

ClientTyped ==
  /\ DOMAIN client = Conns
  /\ \A c \in Conns : /\ {"pos", "pend"} \subseteq DOMAIN client[c]
                      /\ client[c].pos \in 0..Len(script.reqs[c])
RespTyped == DOMAIN resp = Conns /\ \A c \in Conns : resp[c] \in Seq(Responses)

Asked(c) == {k \in 1..client[c].pos : script.reqs[c][k].m # "RTCP"}
AskedToDescribe(c) == \E k \in 1..client[c].pos : script.reqs[c][k].m = "DESCRIBE"

\* Between the requests of a client that sends them whole nothing is left
\* over, each has its answer, and one DESCRIBE made the RtpConnection.
Whole(c) ==
  /\ client[c].pend = <<>> /\ conn[c].buf = <<>>
  /\ conn[c].req.state = "kParseRequestLine" /\ ~conn[c].req.hasCSeq
  /\ conn[c].st = "kConnected" => Told(resp[c]) = Asked(c)
  /\ Rtsp(conn[c]) /\ AskedToDescribe(c) => rtp[c].alive

Talk(c) ==
  /\ conn[c].req.state \in {"kParseRequestLine", "kParseHeadersLine"}
  /\ InLine(Told(resp[c]), conn[c].req, conn[c].buf, client[c].pend, client[c].pos)
  /\ conn[c].st = "none" => client[c].pos = 0 /\ resp[c] = <<>>
  /\ SentWhole(c) => Whole(c)

\* Orderly clients do not end the behaviour.
OrderlyGoOn == (\A c \in Conns : Orderly(c)) => fault \notin {"null_rtp", "retrieve_assert"}

TalkInv ==
  /\ script \in Scripts /\ ClientTyped /\ RespTyped
  /\ \A c \in Conns : Rising(resp[c])
  /\ fault = "none" => \A c \in Conns : Talk(c)
  /\ OrderlyGoOn

LEMMA ScriptIs ==
    ASSUME script \in Scripts, NEW c \in Conns
    PROVE  /\ script.reqs[c] \in Seq(Items) /\ Len(script.reqs[c]) \in Nat
           /\ \A k \in 1..Len(script.reqs[c]) :
                script.reqs[c][k] \in Items /\ script.reqs[c][k].cut \in 0..Len(Text(script.reqs[c][k], k))
<1> DEFINE s == script.reqs[c]
<1>1. s \in Seq(Items) /\ \A k \in 1..Len(s) : s[k].cut <= Len(Text(s[k], k))
  BY ScriptAssumption, Zenon
<1> HIDE DEF s
<1>2. Len(s) \in Nat /\ \A k \in 1..Len(s) : s[k] \in Items
  BY <1>1
<1>3. ASSUME NEW k \in 1..Len(s) PROVE s[k].cut \in 0..Len(Text(s[k], k))
  <2> DEFINE t == Text(s[k], k)
  <2>1. k \in Nat /\ s[k] \in Items
    BY <1>2
  <2>2. Len(t) \in Nat
    BY <2>1, NumberOfText, Zenon
  <2>3. s[k].cut \in Nat
    BY <2>1 DEF Items
  <2>4. s[k].cut <= Len(t)
    BY <1>1
  <2> HIDE DEF t
  <2>5. s[k].cut \in 0..Len(t)
    BY <2>2, <2>3, <2>4
  <2> QED BY <2>5 DEF t
<1> QED BY <1>1, <1>2, <1>3, Zenon DEF s

LEMMA ToldAppend ==
    ASSUME NEW r \in Seq(Responses), NEW x \in Responses
    PROVE  /\ Append(r, x) \in Seq(Responses) /\ Told(Append(r, x)) = Told(r) \cup {x.cseq}
           /\ Rising(r) /\ (\A a \in Told(r) : a < x.cseq) => Rising(Append(r, x))
<1> DEFINE t == Append(r, x)
           n == Len(r)
<1>1. n \in Nat /\ t \in Seq(Responses) /\ Len(t) = n + 1 /\ t[n + 1] = x /\ \A k \in 1..n : t[k] = r[k]
  OBVIOUS
<1> HIDE DEF t, n
<1>2. Told(t) = Told(r) \cup {x.cseq}
  <2>1. \A k \in 1..(n + 1) : k \in 1..n \/ k = n + 1
    BY <1>1
  <2>2. n + 1 \in 1..(n + 1) /\ \A k \in 1..n : k \in 1..(n + 1)
    BY <1>1
  <2>3. Told(t) = {t[k].cseq : k \in 1..(n + 1)} /\ Told(r) = {r[k].cseq : k \in 1..n}
    BY <1>1 DEF Told, n
  <2>4. \A y \in Told(t) : y \in Told(r) \cup {x.cseq}
    BY <1>1, <2>1, <2>3, Zenon
  <2>5. \A y \in Told(r) : y \in Told(t)
    BY <1>1, <2>2, <2>3, Zenon
  <2>6. x.cseq \in Told(t)
    BY <1>1, <2>2, <2>3, Zenon
  <2> QED BY <2>4, <2>5, <2>6, Zenon
<1>3. ASSUME Rising(r), \A a \in Told(r) : a < x.cseq PROVE Rising(t)
  <2> SUFFICES ASSUME NEW j \in 1..(n + 1), NEW k \in 1..(n + 1), j < k PROVE t[j].cseq < t[k].cseq
    BY <1>1 DEF Rising
  <2>1. j \in 1..n
    BY <1>1
  <2>2. CASE k \in 1..n
    BY <1>1, <1>3, <2>1, <2>2 DEF Rising, n
  <2>3. CASE k = n + 1
    <3>1. r[j].cseq \in Told(r)
      BY <2>1 DEF Told, n
    <3> QED BY <1>1, <1>3, <2>1, <2>3, <3>1
  <2> QED BY <1>1, <2>2, <2>3
<1> QED BY <1>1, <1>2, <1>3 DEF t

\* What arrives next: the rest of a request, or the first part of a new one.
LEMMA SegmentIs ==
    ASSUME script \in Scripts, script' = script, ClientTyped, NEW c \in Conns, client[c].pend \in Seq(Wire),
           Segment(c) # <<>>, Send(c)
    PROVE  /\ ClientTyped' /\ \A d \in Conns : d # c => client'[d] = client[d]
           /\ Segment(c) \in Seq(Wire) /\ client'[c].pend \in Seq(Wire)
           /\ \/ /\ client[c].pend # <<>> /\ Segment(c) = client[c].pend
                 /\ client'[c].pos = client[c].pos /\ client'[c].pend = <<>>
              \/ /\ client[c].pend = <<>> /\ client'[c].pos = client[c].pos + 1
                 /\ client'[c].pos \in 1..Len(script.reqs[c])
                 /\ \E t \in Seq(Wire) :
                      /\ t = Text(script.reqs[c][client'[c].pos], client'[c].pos)
                      /\ Joined(Wire, Segment(c), client'[c].pend, t)
                      /\ script.reqs[c][client'[c].pos].cut = 0 => Segment(c) = t /\ client'[c].pend = <<>>
<1> DEFINE s == client[c]
           reqs == script.reqs[c]
           i == IF s.pend = <<>> THEN s.pos + 1 ELSE s.pos
           all == Text(reqs[i], i)
           seg == Segment(c)
           pend == IF s.pend = <<>> THEN SubSeq(all, Len(seg) + 1, Len(all)) ELSE <<>>
<1>1. /\ Len(reqs) \in Nat
      /\ \A k \in 1..Len(reqs) : reqs[k] \in Items /\ reqs[k].cut \in 0..Len(Text(reqs[k], k))
  BY ScriptIs
<1>2. s.pos \in 0..Len(reqs) /\ {"pos", "pend"} \subseteq DOMAIN s /\ DOMAIN client = Conns
  BY Zenon DEF ClientTyped
<1>3. client' = [client EXCEPT ![c].pos = i, ![c].pend = pend]
  BY Zenon DEF Send
<1> HIDE DEF pend, i
<1>4. /\ client'[c].pos = i /\ client'[c].pend = pend /\ {"pos", "pend"} \subseteq DOMAIN client'[c]
      /\ DOMAIN client' = Conns /\ \A d \in Conns : d # c => client'[d] = client[d]
  BY <1>2, <1>3, Zenon
<1> HIDE DEF all, reqs, seg
<1>5. CASE s.pend # <<>>
  <2>1. seg = s.pend /\ i = s.pos /\ pend = <<>>
    BY <1>5, Zenon DEF Segment, i, pend, seg
  <2>2. ClientTyped'
    BY <1>2, <1>4, <2>1, Zenon DEF ClientTyped, reqs
  <2>3. <<>> \in Seq(Wire)
    OBVIOUS
  <2> QED BY <1>4, <1>5, <2>1, <2>2, <2>3, Zenon DEF seg
<1>6. CASE s.pend = <<>>
  <2>1. i = s.pos + 1
    BY <1>6, Zenon DEF i
  <2> DEFINE cut == reqs[i].cut
             n == IF cut = 0 THEN Len(all) ELSE cut
  <2>2. s.pos # Len(reqs) /\ seg = SubSeq(all, 1, n)
    BY <1>6, <2>1, Zenon DEF Segment, seg, all, reqs
  <2>3. i \in 1..Len(reqs) /\ i \in 0..Len(reqs) /\ i \in Nat
    BY <1>1, <1>2, <2>1, <2>2
  <2>4. reqs[i] \in Items /\ cut \in 0..Len(all)
    BY <1>1, <2>3 DEF all
  <2>5. all \in Seq(Wire) /\ Len(all) \in Nat
    BY <2>3, <2>4, NumberOfText DEF all
  <2>6. n \in 0..Len(all)
    BY <2>4, <2>5
  <2> HIDE DEF n
  <2>7. /\ seg \in Seq(Wire) /\ Len(seg) = n
        /\ SubSeq(all, n + 1, Len(all)) \in Seq(Wire) /\ Len(SubSeq(all, n + 1, Len(all))) = Len(all) - n
        /\ Joined(Wire, seg, SubSeq(all, n + 1, Len(all)), all)
    BY <2>2, <2>5, <2>6, CutJoins
  <2>8. pend = SubSeq(all, n + 1, Len(all))
    BY <1>6, <2>7, Zenon DEF pend, all, reqs
  <2>9. cut = 0 => seg = all /\ pend = <<>>
    <3> SUFFICES ASSUME cut = 0 PROVE seg = all /\ pend = <<>>
      OBVIOUS
    <3>1. n = Len(all)
      BY DEF n
    <3>2. pend \in Seq(Wire) /\ Len(pend) = 0
      BY <2>5, <2>7, <2>8, <3>1
    <3>3. pend = <<>>
      BY <3>2
    <3>4. Len(seg) = Len(all) /\ \A k \in 1..Len(all) : seg[k] = all[k]
      <4>1. Len(seg) = Len(all) /\ Len(pend) = 0
        BY <2>7, <3>1, <3>2
      <4>2. \A k \in 1..(Len(seg) + Len(pend)) : all[k] = IF k <= Len(seg) THEN seg[k] ELSE pend[k - Len(seg)]
        BY <2>7, <2>8 DEF Joined
      <4> QED BY <2>5, <4>1, <4>2
    <3>5. seg = all
      BY <2>5, <2>7, <3>4, SeqEqual
    <3> QED BY <3>3, <3>5
  <2>10. ClientTyped'
    BY <1>2, <1>4, <2>3, Zenon DEF ClientTyped, reqs
  <2> HIDE DEF cut
  <2>11. pend \in Seq(Wire) /\ Joined(Wire, seg, pend, all) /\ client'[c].pos = i /\ client'[c].pend = pend
    BY <1>4, <2>7, <2>8
  <2> QED BY <1>4, <1>6, <2>1, <2>3, <2>5, <2>7, <2>9, <2>10, <2>11, Zenon DEF seg, all, reqs, cut
<1> QED BY <1>5, <1>6

\* The segment joins the buffer.
LEMMA SendIs ==
    ASSUME script \in Scripts, script' = script, ClientTyped, NEW c \in Conns, Talk(c),
           Segment(c) # <<>>, Send(c), NEW e, e = conn[c].buf \o Segment(c)
    PROVE  /\ InLine(Told(resp[c]), conn[c].req, e, client'[c].pend, client'[c].pos)
           /\ e \in Seq(Wire)
<1> DEFINE A == Told(resp[c])
           q == conn[c].req
           b == conn[c].buf
           t == client[c].pend
           n == client[c].pos
           seg == Segment(c)
           u == client'[c].pend
           n1 == client'[c].pos
<1>1. InLine(A, q, b, t, n)
  BY Zenon DEF Talk
<1> HIDE DEF A, q
<1>2. b \in Seq(Wire) /\ t \in Seq(Wire) /\ n \in Nat
  BY <1>1, Zenon DEF InLine
<1>3. /\ seg \in Seq(Wire) /\ u \in Seq(Wire)
      /\ \/ t # <<>> /\ seg = t /\ n1 = n /\ u = <<>>
         \/ /\ t = <<>> /\ n1 = n + 1 /\ n1 \in 1..Len(script.reqs[c])
            /\ \E w \in Seq(Wire) : w = Text(script.reqs[c][n1], n1) /\ Joined(Wire, seg, u, w)
  BY <1>2, SegmentIs, Zenon
<1>4. e = b \o seg
  OBVIOUS
<1> HIDE DEF b, t, n, seg, u, n1
<1>5. Joined(Wire, b, seg, e)
  <2>1. Joined(Wire, b, seg, b \o seg)
    BY <1>2, <1>3, ConcatJoins, Zenon
  <2> QED BY <1>4, <2>1, Zenon
<1>6. CASE t # <<>> /\ seg = t /\ n1 = n /\ u = <<>>
  <2>1. Joined(Wire, t, <<>>, t)
    <3>1. <<>> \in Seq(Wire) /\ Len(<<>>) = 0 /\ Len(t) \in Nat
      BY <1>2
    <3>2. Len(t) = Len(t) + Len(<<>>)
      BY <3>1
    <3>3. \A k \in 1..(Len(t) + Len(<<>>)) : k <= Len(t)
      BY <3>1
    <3> QED BY <1>2, <3>2, <3>3, Zenon DEF Joined
  <2>2. Joined(Wire, seg, u, t)
    BY <1>6, <2>1, Zenon
  <2>3. InLine(A, q, e, u, n)
    BY <1>1, <1>3, <1>5, <2>2, LineMoves
  <2> QED BY <1>5, <1>6, <2>3, Zenon DEF A, q, u, n1, Joined
<1>7. CASE /\ t = <<>> /\ n1 = n + 1 /\ n1 \in 1..Len(script.reqs[c])
           /\ \E w \in Seq(Wire) : w = Text(script.reqs[c][n1], n1) /\ Joined(Wire, seg, u, w)
  <2>1. PICK w \in Seq(Wire) : w = Text(script.reqs[c][n1], n1) /\ Joined(Wire, seg, u, w)
    BY <1>7
  <2>2. script.reqs[c][n1] \in Items /\ n1 \in Nat
    BY <1>7, ScriptIs
  <2>3. Numbers(w) \subseteq {n + 1} /\ Increasing(w)
    BY <1>7, <2>1, <2>2, NumberOfText, Zenon
  <2>4. InLine(A, q, b, <<>>, n)
    BY <1>1, <1>7, Zenon
  <2>5. InLine(A, q, b, w, n + 1)
    BY <2>3, <2>4, LineBegins
  <2>6. InLine(A, q, e, u, n + 1)
    BY <1>3, <1>5, <2>1, <2>5, LineMoves
  <2> QED BY <1>5, <1>7, <2>6, Zenon DEF A, q, u, n1, Joined
<1> QED BY <1>3, <1>6, <1>7

\* A client that has sent whole requests so far, the last one included.
LEMMA WholeSend ==
    ASSUME script \in Scripts, script' = script, ClientTyped, NEW c \in Conns, Talk(c),
           Segment(c) # <<>>, Send(c), SentWhole(c)', NEW e, e = conn[c].buf \o Segment(c)
    PROVE  /\ SentWhole(c) /\ Whole(c) /\ client'[c].pend = <<>> /\ client'[c].pos \in 1..Len(script.reqs[c])
           /\ client'[c].pos = client[c].pos + 1
           /\ Complete(script.reqs[c][client'[c].pos])
           /\ e = Text(script.reqs[c][client'[c].pos], client'[c].pos)
<1>1. client[c].pend \in Seq(Wire) /\ client[c].pos \in Nat
  BY Zenon DEF Talk, InLine
<1>2. /\ Segment(c) \in Seq(Wire)
      /\ \/ client'[c].pos = client[c].pos /\ client[c].pend # <<>>
         \/ /\ client'[c].pos = client[c].pos + 1 /\ client'[c].pos \in 1..Len(script.reqs[c])
            /\ \E t \in Seq(Wire) :
                 /\ t = Text(script.reqs[c][client'[c].pos], client'[c].pos)
                 /\ script.reqs[c][client'[c].pos].cut = 0 => Segment(c) = t /\ client'[c].pend = <<>>
  BY <1>1, SegmentIs, Zenon
<1>3. client'[c].pos = client[c].pos \/ client'[c].pos = client[c].pos + 1
  BY <1>2
<1>4. \A k \in 1..client[c].pos : k \in 1..client'[c].pos
  BY <1>1, <1>3
<1>5. SentWhole(c) /\ Whole(c)
  <2>1. SentWhole(c)
    BY <1>4, Zenon DEF SentWhole
  <2> QED BY <2>1, Zenon DEF Talk
<1>6. /\ client'[c].pos = client[c].pos + 1 /\ client'[c].pos \in 1..Len(script.reqs[c])
      /\ \E t \in Seq(Wire) :
           /\ t = Text(script.reqs[c][client'[c].pos], client'[c].pos)
           /\ script.reqs[c][client'[c].pos].cut = 0 => Segment(c) = t /\ client'[c].pend = <<>>
  BY <1>2, <1>5, Zenon DEF Whole
<1>7. client'[c].pos \in 1..client'[c].pos
  BY <1>6
<1>8. Complete(script.reqs[c][client'[c].pos]) /\ script.reqs[c][client'[c].pos].cut = 0
  BY <1>7, Zenon DEF SentWhole
<1>9. Segment(c) = Text(script.reqs[c][client'[c].pos], client'[c].pos) /\ client'[c].pend = <<>>
  BY <1>6, <1>8, Zenon
<1>10. e = Segment(c)
  <2>1. conn[c].buf = <<>>
    BY <1>5, Zenon DEF Whole
  <2> DEFINE seg == Segment(c)
  <2>2. seg \in Seq(Wire)
    BY <1>2
  <2>3. e = <<>> \o seg
    BY <2>1, Zenon
  <2> HIDE DEF seg
  <2>4. <<>> \o seg = seg
    BY <2>2, ConcatEmptySeq
  <2> QED BY <2>3, <2>4, Zenon DEF seg
<1> QED BY <1>5, <1>6, <1>8, <1>9, <1>10, Zenon

\* A connection to which nothing happens.
LEMMA TalkKept ==
    ASSUME script' = script, NEW c \in Conns, Talk(c), conn'[c] = conn[c], client'[c] = client[c],
           resp'[c] = resp[c], Rtsp(conn[c]) /\ rtp[c].alive => rtp'[c].alive
    PROVE  Talk(c)'
<1>1. SentWhole(c)' <=> SentWhole(c)
  BY Zenon DEF SentWhole
<1>2. Asked(c)' = Asked(c) /\ (AskedToDescribe(c)' <=> AskedToDescribe(c))
  BY Zenon DEF Asked, AskedToDescribe
<1>3. Whole(c) => Whole(c)'
  BY <1>2, Zenon DEF Whole
<1> QED BY <1>1, <1>3, Zenon DEF Talk

LEMMA TrimIs == \A b : Trim(b) = b \/ Trim(b) = <<>>
BY Zenon DEF Trim

LEMMA TrimEmpty == Trim(<<>>) = <<>>
BY TrimIs, Zenon

LEMMA LineTrims ==
    ASSUME NEW A, NEW q, NEW b, NEW t, NEW n, InLine(A, q, b, t, n)
    PROVE  InLine(A, q, Trim(b), t, n) /\ InLine(A, q, <<>>, t, n)
<1>1. Len(b) \in Nat /\ Behind(Wire, b, 0, b) /\ 0 \in 0..Len(b)
  BY DEF InLine, Behind
<1>2. InLine(A, q, <<>>, t, n)
  BY <1>1, LineShrinks
<1> QED BY <1>2, TrimIs, Zenon

\* The connection's record after an answer and after a step of the parser.
LEMMA AnsweredConn ==
    ASSUME ConnTyped, NEW c \in Conns, NEW p, NEW status, NEW sess, NEW st, Answer(c, p, status, sess, st)
    PROVE  /\ conn'[c].req = Reset(p.q) /\ conn'[c].buf = Trim(p.buf) /\ conn'[c].st = st
           /\ \A d \in Conns : d # c => conn'[d] = conn[d]
           /\ \/ conn[c].st # "kConnected" /\ resp' = resp
              \/ conn[c].st = "kConnected" /\ resp' = [resp EXCEPT ![c] = Append(resp[c], Response(status, p.q))]
<1> DEFINE q == Reset(p.q)
           b == Trim(p.buf)
<1>1. /\ conn' = [conn EXCEPT ![c].req = q, ![c].buf = b, ![c].sess = sess, ![c].st = st]
      /\ \/ conn[c].st # "kConnected" /\ resp' = resp
         \/ conn[c].st = "kConnected" /\ resp' = [resp EXCEPT ![c] = Append(resp[c], Response(status, p.q))]
  BY Zenon DEF Answer
<1> HIDE DEF q, b
<1>2. DOMAIN conn = Conns /\ {"st", "fd", "buf", "req", "sess"} \subseteq DOMAIN conn[c]
  BY Zenon DEF ConnTyped, ConnShape
<1>3. /\ conn'[c].req = q /\ conn'[c].buf = b /\ conn'[c].st = st
      /\ \A d \in Conns : d # c => conn'[d] = conn[d]
  BY <1>1, <1>2, Zenon
<1> QED BY <1>1, <1>3, Zenon DEF q, b

LEMMA ParsedConn ==
    ASSUME ConnTyped, NEW c \in Conns, NEW q, NEW b, conn' = [conn EXCEPT ![c].req = q, ![c].buf = b]
    PROVE  /\ conn'[c].req = q /\ conn'[c].buf = b /\ conn'[c].st = conn[c].st
           /\ \A d \in Conns : d # c => conn'[d] = conn[d]
<1>1. DOMAIN conn = Conns /\ {"st", "fd", "buf", "req", "sess"} \subseteq DOMAIN conn[c]
  BY Zenon DEF ConnTyped, ConnShape
<1> QED BY <1>1, Zenon

\* What all ways of taking a segment have in common.
Takes(c, e, p) ==
  /\ script \in Scripts /\ script' = script /\ ClientTyped /\ Talk(c) /\ Rtsp(conn[c])
  /\ Segment(c) # <<>> /\ Send(c) /\ e = conn[c].buf \o Segment(c) /\ p = ParseRequest(conn[c].req, e)

LEMMA TakesIs ==
    ASSUME NEW c \in Conns, NEW e, NEW p, Takes(c, e, p)
    PROVE  /\ ClientTyped' /\ \A d \in Conns : d # c => client'[d] = client[d]
           /\ InLine(Told(resp[c]), p.q, p.buf, client'[c].pend, client'[c].pos)
           /\ ReqFields(p.q) /\ p.q.state \in {"kParseRequestLine", "kParseHeadersLine", "kGotAll"}
           /\ p.q.state = "kGotAll" => p.ok /\ p.q.hasCSeq /\ p.q.method # "RTCP"
<1>1. /\ script \in Scripts /\ script' = script /\ ClientTyped /\ Talk(c)
      /\ Segment(c) # <<>> /\ Send(c) /\ p = ParseRequest(conn[c].req, e)
  BY Zenon DEF Takes
<1>2. InLine(Told(resp[c]), conn[c].req, e, client'[c].pend, client'[c].pos) /\ e \in Seq(Wire)
  <2>1. e = conn[c].buf \o Segment(c)
    BY Zenon DEF Takes
  <2> QED BY <1>1, <2>1, SendIs, Zenon
<1>3. conn[c].req.state \in {"kParseRequestLine", "kParseHeadersLine"} /\ ReqFields(conn[c].req)
  BY <1>1, <1>2, Zenon DEF Talk, InLine
<1>4. ClientTyped' /\ \A d \in Conns : d # c => client'[d] = client[d]
  <2>1. client[c].pend \in Seq(Wire)
    BY <1>1, Zenon DEF Talk, InLine
  <2> QED BY <1>1, <2>1, SegmentIs
<1> DEFINE q == conn[c].req
           A == Told(resp[c])
           t == client'[c].pend
           n == client'[c].pos
<1> HIDE DEF q, A, t, n
<1>5. InLine(A, p.q, p.buf, t, n)
  <2>1. InLine(A, q, e, t, n) /\ q.state \in {"kParseRequestLine", "kParseHeadersLine"} /\ p = ParseRequest(q, e)
    BY <1>1, <1>2, <1>3, Zenon DEF A, q, t, n
  <2> QED BY <2>1, LineParses
<1>6. /\ ReqFields(p.q) /\ p.q.state \in {"kParseRequestLine", "kParseHeadersLine", "kGotAll"}
      /\ p.q.state = "kGotAll" => p.ok /\ p.q.hasCSeq /\ p.q.method # "RTCP"
  <2>1. ReqFields(q) /\ q.state \in {"kParseRequestLine", "kParseHeadersLine"} /\ p = ParseRequest(q, e)
    BY <1>1, <1>3, Zenon DEF q
  <2> QED BY <1>2, <2>1, ParsedIs
<1> QED BY <1>4, <1>5, <1>6, Zenon DEF A, t, n

\* The request of a client that sends whole ones.
TookWhole(c, p, item, k) ==
    /\ k = client'[c].pos /\ k = client[c].pos + 1 /\ item = script.reqs[c][k]
    /\ Whole(c) /\ client'[c].pend = <<>>
    /\ item.m = "RTCP" =>
         /\ p.ok /\ SameNumber(conn[c].req, p.q) /\ p.q.state = "kParseRequestLine" /\ p.q.method = "RTCP"
         /\ Len(p.buf) > 1 /\ p.buf[1][1] = "rtcp" /\ p.buf[1][3] + 1 = Len(p.buf)
    /\ item.m # "RTCP" =>
         p.ok /\ p.q.state = "kGotAll" /\ p.q.method = item.m /\ p.q.cseq = k /\ p.buf = <<>>

LEMMA TakesWhole ==
    ASSUME NEW c \in Conns, NEW e, NEW p, Takes(c, e, p), SentWhole(c)'
    PROVE  \E item \in Items : \E k \in Nat : TookWhole(c, p, item, k)
<1> DEFINE k == client'[c].pos
           item == script.reqs[c][k]
           q == conn[c].req
<1>1. /\ script \in Scripts /\ script' = script /\ ClientTyped /\ Talk(c)
      /\ Segment(c) # <<>> /\ Send(c) /\ p = ParseRequest(q, e)
  BY Zenon DEF Takes
<1>2. /\ Whole(c) /\ client'[c].pend = <<>> /\ k \in 1..Len(script.reqs[c])
      /\ k = client[c].pos + 1 /\ Complete(item) /\ e = Text(item, k)
  <2>1. e = conn[c].buf \o Segment(c)
    BY Zenon DEF Takes
  <2> QED BY <1>1, <2>1, WholeSend, Zenon
<1>3. k \in Nat /\ item \in Items
  BY <1>1, <1>2, ScriptIs
<1>4. ReqFields(q)
  BY <1>1, Zenon DEF Talk, InLine
<1>5. q.state = "kParseRequestLine" /\ ~q.hasCSeq
  BY <1>2, Zenon DEF Whole
<1> HIDE DEF k, item, q
<1>6. CASE item.m = "RTCP"
  <2>1. /\ p.ok /\ SameNumber(q, p.q) /\ p.q.state = q.state /\ p.q.method = "RTCP" /\ p.buf = e
        /\ Len(e) > 1 /\ e[1][1] = "rtcp" /\ e[1][3] + 1 = Len(e)
    BY <1>1, <1>2, <1>3, <1>4, <1>6, WholePacket
  <2> QED BY <1>2, <1>3, <1>5, <1>6, <2>1, Zenon DEF k, item, q, TookWhole
<1>7. CASE item.m # "RTCP"
  <2>1. p.ok /\ p.q.state = "kGotAll" /\ p.q.method = item.m /\ p.q.cseq = k /\ p.buf = <<>>
    BY <1>1, <1>2, <1>3, <1>4, <1>5, <1>7, WholeRequest
  <2> QED BY <1>2, <1>3, <1>7, <2>1, Zenon DEF k, item, TookWhole
<1> QED BY <1>6, <1>7

\* One more request has been sent.
LEMMA AskedMore ==
    ASSUME NEW c \in Conns, script' = script, client[c].pos \in Nat, client'[c].pos = client[c].pos + 1
    PROVE  /\ Asked(c)' = Asked(c) \cup {k \in {client'[c].pos} : script.reqs[c][k].m # "RTCP"}
           /\ AskedToDescribe(c)' <=> AskedToDescribe(c) \/ script.reqs[c][client'[c].pos].m = "DESCRIBE"
           /\ client'[c].pos \in 1..client'[c].pos
<1> DEFINE n == client[c].pos
           k == client'[c].pos
<1>1. \A j \in 1..k : j \in 1..n \/ j = k
  OBVIOUS
<1>2. k \in 1..k /\ \A j \in 1..n : j \in 1..k
  OBVIOUS
<1>3. Asked(c) = {j \in 1..n : script.reqs[c][j].m # "RTCP"} /\ Asked(c)' = {j \in 1..k : script.reqs[c][j].m # "RTCP"}
  BY Zenon DEF Asked
<1> HIDE DEF n, k
<1>4. Asked(c)' = Asked(c) \cup {j \in {k} : script.reqs[c][j].m # "RTCP"}
  BY <1>1, <1>2, <1>3, Zenon
<1>5. AskedToDescribe(c)' <=> AskedToDescribe(c) \/ script.reqs[c][k].m = "DESCRIBE"
  BY <1>1, <1>2, Zenon DEF AskedToDescribe, n, k
<1> QED BY <1>2, <1>4, <1>5, Zenon DEF n, k

\* The request is complete and answered.
LEMMA TalkAnswer ==
    ASSUME TalkInv, ConnTyped, fault = "none", fault' = "none", NEW c \in Conns, NEW e, NEW p, Takes(c, e, p),
           p.q.state = "kGotAll", NEW status \in Nat, NEW sess, NEW st, st \in {conn[c].st, "kDisconnecting"},
           Answer(c, p, status, sess, st), \A d \in Conns : rtp[d].alive => rtp'[d].alive,
           p.q.method = "DESCRIBE" => rtp'[c].alive
    PROVE  TalkInv'
<1> DEFINE k == client'[c].pos
           r == resp[c]
           x == Response(status, p.q)
<1>1. /\ script \in Scripts /\ script' = script /\ Rtsp(conn[c]) /\ RespTyped
      /\ (\A d \in Conns : Rising(resp[d])) /\ \A d \in Conns : Talk(d)
  BY Zenon DEF Takes, TalkInv
<1>2. /\ conn'[c].req = Reset(p.q) /\ conn'[c].buf = Trim(p.buf) /\ conn'[c].st = st
      /\ \A d \in Conns : d # c => conn'[d] = conn[d]
      /\ \/ conn[c].st # "kConnected" /\ resp' = resp
         \/ conn[c].st = "kConnected" /\ resp' = [resp EXCEPT ![c] = Append(r, x)]
  BY AnsweredConn
<1>3. /\ ClientTyped' /\ \A d \in Conns : d # c => client'[d] = client[d]
      /\ InLine(Told(r), p.q, p.buf, client'[c].pend, k)
      /\ ReqFields(p.q) /\ p.q.hasCSeq
  BY TakesIs
<1>4. /\ ReqFields(Reset(p.q)) /\ Reset(p.q).state = "kParseRequestLine" /\ ~Reset(p.q).hasCSeq
  BY <1>3, ResetIs
<1> HIDE DEF k, x
<1>5. /\ InLine(Told(r), Reset(p.q), p.buf, client'[c].pend, k)
      /\ InLine(Told(r) \cup {p.q.cseq}, Reset(p.q), p.buf, client'[c].pend, k)
      /\ p.q.cseq \in 1..k /\ \A a \in Told(r) : a < p.q.cseq
  BY <1>3, <1>4, LineAnswers
<1>6. x \in Responses /\ x.cseq = p.q.cseq /\ r \in Seq(Responses)
  <2>1. k \in Nat
    BY <1>3, Zenon DEF InLine
  <2>2. p.q.cseq \in Nat
    BY <1>5, <2>1
  <2>3. x \in Responses /\ x.cseq = p.q.cseq
    BY <2>2 DEF x, Response, Responses
  <2> QED BY <1>1, <2>3, Zenon DEF RespTyped
<1>7. /\ Append(r, x) \in Seq(Responses) /\ Told(Append(r, x)) = Told(r) \cup {p.q.cseq} /\ Rising(Append(r, x))
  <2>1. /\ Append(r, x) \in Seq(Responses) /\ Told(Append(r, x)) = Told(r) \cup {x.cseq}
        /\ Rising(r) /\ (\A a \in Told(r) : a < x.cseq) => Rising(Append(r, x))
    BY <1>6, ToldAppend
  <2> HIDE DEF r
  <2> QED BY <1>1, <1>5, <1>6, <2>1, Zenon DEF r
<1>8. /\ DOMAIN resp' = Conns /\ \A d \in Conns : d # c => resp'[d] = resp[d]
      /\ \/ conn[c].st # "kConnected" /\ resp'[c] = r
         \/ conn[c].st = "kConnected" /\ resp'[c] = Append(r, x)
  BY <1>1, <1>2, Zenon DEF RespTyped
<1> HIDE DEF r
<1>9. RespTyped' /\ \A d \in Conns : Rising(resp'[d])
  BY <1>1, <1>6, <1>7, <1>8, Zenon DEF RespTyped, r
<1>10. ASSUME NEW d \in Conns, d # c PROVE Talk(d)'
  BY <1>1, <1>2, <1>3, <1>8, <1>10, TalkKept, Zenon
<1>11. /\ conn'[c].req.state = "kParseRequestLine" /\ ~conn'[c].req.hasCSeq
       /\ InLine(Told(resp'[c]), conn'[c].req, conn'[c].buf, client'[c].pend, k)
  <2>1. InLine(Told(resp'[c]), Reset(p.q), p.buf, client'[c].pend, k)
    BY <1>5, <1>7, <1>8, Zenon
  <2> DEFINE A == Told(resp'[c])
             q == Reset(p.q)
             b == p.buf
             t == client'[c].pend
  <2> HIDE DEF A, q, b, t
  <2>2. InLine(A, q, b, t, k)
    BY <2>1, Zenon DEF A, q, b, t
  <2>3. InLine(A, q, Trim(b), t, k)
    BY <2>2, LineTrims
  <2> QED BY <1>2, <1>4, <2>3, Zenon DEF A, q, b, t
<1>12. conn'[c].st # "none" /\ (conn'[c].st = "kConnected" => conn[c].st = "kConnected")
  BY <1>1, <1>2 DEF Rtsp
<1>13. ASSUME SentWhole(c)' PROVE Whole(c)'
  <2>0. PICK item \in Items, n \in Nat : TookWhole(c, p, item, n)
    BY <1>13, TakesWhole, Zenon
  <2>1. /\ n = k /\ n = client[c].pos + 1 /\ item = script.reqs[c][k] /\ Whole(c) /\ client'[c].pend = <<>>
        /\ item.m = "RTCP" => p.q.state = "kParseRequestLine"
        /\ item.m # "RTCP" => p.q.method = item.m /\ p.q.cseq = n /\ p.buf = <<>>
    BY <2>0, Zenon DEF TookWhole, k
  <2>2. item.m # "RTCP"
    BY <2>1
  <2>3. p.q.method = item.m /\ p.q.cseq = k /\ conn'[c].buf = <<>>
    BY <1>2, <2>1, <2>2, TrimEmpty, Zenon
  <2>4. client[c].pos \in Nat
    BY <1>1, Zenon DEF Talk, InLine
  <2>5. /\ Asked(c)' = Asked(c) \cup {j \in {k} : script.reqs[c][j].m # "RTCP"}
        /\ AskedToDescribe(c)' <=> AskedToDescribe(c) \/ script.reqs[c][k].m = "DESCRIBE"
    <3>1. client'[c].pos = client[c].pos + 1
      BY <2>1, Zenon DEF k
    <3> QED BY <1>1, <2>4, <3>1, AskedMore, Zenon DEF k
  <2>6. Asked(c)' = Asked(c) \cup {k}
    BY <2>1, <2>2, <2>5, Zenon
  <2>7. conn'[c].st = "kConnected" => Told(resp'[c]) = Asked(c)'
    BY <1>7, <1>8, <1>12, <2>1, <2>3, <2>6, Zenon DEF Whole, r
  <2>8. AskedToDescribe(c)' => rtp'[c].alive
    BY <1>1, <2>1, <2>3, <2>5, Zenon DEF Whole
  <2> QED BY <1>11, <2>1, <2>3, <2>7, <2>8, Zenon DEF Whole
<1>14. Talk(c)'
  BY <1>11, <1>12, <1>13, Zenon DEF Talk, k
<1>15. OrderlyGoOn'
  BY DEF OrderlyGoOn
<1> QED BY <1>1, <1>3, <1>9, <1>10, <1>14, <1>15, Zenon DEF TalkInv

\* The request is not complete, or an interleaved packet came.
LEMMA TalkParse ==
    ASSUME TalkInv, ConnTyped, fault = "none", fault' = "none", NEW c \in Conns, NEW e, NEW p, Takes(c, e, p),
           HandleRtcp(c, p) \/ KeepParsing(c, p)
    PROVE  TalkInv'
<1> DEFINE k == client'[c].pos
           have == Len(p.buf)
           len == IF have > 1 /\ p.buf[1][1] = "rtcp" THEN p.buf[1][3] + 1 ELSE 0
<1>1. /\ script \in Scripts /\ script' = script /\ Rtsp(conn[c]) /\ RespTyped
      /\ (\A d \in Conns : Rising(resp[d])) /\ \A d \in Conns : Talk(d)
  BY Zenon DEF Takes, TalkInv
<1>2. /\ UNCHANGED <<rtp, resp>>
      /\ \/ p.ok /\ p.q.method = "RTCP" /\ len > have /\ fault' = "retrieve_assert"
         \/ p.ok /\ p.q.method = "RTCP" /\ len = have /\ conn' = [conn EXCEPT ![c].req = p.q, ![c].buf = Trim(<<>>)]
         \/ p.ok /\ p.q.method = "RTCP" /\ len < have /\ conn' = [conn EXCEPT ![c].req = p.q, ![c].buf = Trim(p.buf)]
         \/ (~p.ok \/ (p.q.method # "RTCP" /\ ~GotAll(p.q))) /\ conn' = [conn EXCEPT ![c].req = p.q, ![c].buf = Trim(p.buf)]
  BY Zenon DEF HandleRtcp, KeepParsing
<1>3. /\ ClientTyped' /\ \A d \in Conns : d # c => client'[d] = client[d]
      /\ InLine(Told(resp[c]), p.q, p.buf, client'[c].pend, k)
      /\ ReqFields(p.q) /\ p.q.state \in {"kParseRequestLine", "kParseHeadersLine", "kGotAll"}
      /\ p.q.state = "kGotAll" => p.ok /\ p.q.method # "RTCP"
  BY TakesIs
<1> HIDE DEF k, len, have
<1>4. p.q.state \in {"kParseRequestLine", "kParseHeadersLine"}
  <2>1. p.q.state # "kGotAll"
    BY <1>2, <1>3, Zenon DEF GotAll
  <2> QED BY <1>3, <2>1
<1>5. PICK b : /\ conn' = [conn EXCEPT ![c].req = p.q, ![c].buf = b]
               /\ \/ p.q.method = "RTCP" /\ p.ok /\ b = <<>>
                  \/ b = Trim(p.buf) /\ (p.ok /\ p.q.method = "RTCP" => len < have)
  <2>1. fault' # "retrieve_assert"
    OBVIOUS
  <2> QED BY <1>2, <2>1, TrimEmpty, Zenon
<1>6. /\ conn'[c].req = p.q /\ conn'[c].buf = b /\ conn'[c].st = conn[c].st
      /\ \A d \in Conns : d # c => conn'[d] = conn[d]
  BY <1>5, ParsedConn
<1>7. InLine(Told(resp[c]), p.q, b, client'[c].pend, k)
  <2> DEFINE A == Told(resp[c])
             q == p.q
             t == client'[c].pend
             u == p.buf
  <2> HIDE DEF A, q, t, u
  <2>1. InLine(A, q, u, t, k)
    BY <1>3, Zenon DEF A, q, t, u
  <2>2. InLine(A, q, Trim(u), t, k) /\ InLine(A, q, <<>>, t, k)
    BY <2>1, LineTrims
  <2> QED BY <1>5, <2>2, Zenon DEF A, q, t, u
<1>8. ASSUME NEW d \in Conns, d # c PROVE Talk(d)'
  BY <1>1, <1>2, <1>3, <1>6, <1>8, TalkKept, Zenon
<1>9. ASSUME SentWhole(c)' PROVE Whole(c)'
  <2>0. PICK item \in Items, n \in Nat : TookWhole(c, p, item, n)
    BY <1>9, TakesWhole, Zenon
  <2>1. /\ n = k /\ n = client[c].pos + 1 /\ item = script.reqs[c][k] /\ Whole(c) /\ client'[c].pend = <<>>
        /\ item.m = "RTCP" =>
             /\ p.ok /\ SameNumber(conn[c].req, p.q) /\ p.q.state = "kParseRequestLine" /\ p.q.method = "RTCP"
             /\ have > 1 /\ p.buf[1][1] = "rtcp" /\ p.buf[1][3] + 1 = have
        /\ item.m # "RTCP" => p.q.state = "kGotAll"
    BY <2>0, Zenon DEF TookWhole, k, have
  <2>2. item.m = "RTCP"
    BY <1>4, <2>1
  <2>3. len = have /\ have \in Nat
    <3>1. len = p.buf[1][3] + 1
      BY <2>1, <2>2, Zenon DEF len
    <3>2. have \in Nat
      BY <1>3 DEF InLine, have
    <3> QED BY <2>1, <2>2, <3>1, <3>2
  <2>4. b = <<>>
    <3>1. ~(len < have)
      BY <2>3
    <3> QED BY <1>5, <2>1, <2>2, <3>1, Zenon
  <2>5. client[c].pos \in Nat /\ ~conn[c].req.hasCSeq
    BY <1>1, <2>1, Zenon DEF Talk, InLine, Whole
  <2>6. /\ Asked(c)' = Asked(c) \cup {j \in {k} : script.reqs[c][j].m # "RTCP"}
        /\ AskedToDescribe(c)' <=> AskedToDescribe(c) \/ script.reqs[c][k].m = "DESCRIBE"
    <3>1. client'[c].pos = client[c].pos + 1
      BY <2>1, Zenon DEF k
    <3> QED BY <1>1, <2>5, <3>1, AskedMore, Zenon DEF k
  <2>7. Asked(c)' = Asked(c)
    BY <2>1, <2>2, <2>6, Zenon
  <2>8. AskedToDescribe(c)' <=> AskedToDescribe(c)
    <3>1. script.reqs[c][k].m # "DESCRIBE"
      BY <2>1, <2>2
    <3> QED BY <2>6, <3>1
  <2>9. Rtsp(conn'[c]) <=> Rtsp(conn[c])
    BY <1>6, Zenon DEF Rtsp
  <2>10. conn'[c].st = "kConnected" => Told(resp'[c]) = Asked(c)'
    BY <1>2, <1>6, <2>1, <2>7, Zenon DEF Whole
  <2>11. Rtsp(conn'[c]) /\ AskedToDescribe(c)' => rtp'[c].alive
    BY <1>2, <2>1, <2>8, <2>9, Zenon DEF Whole
  <2>12. conn'[c].req.state = "kParseRequestLine" /\ ~conn'[c].req.hasCSeq
    BY <1>6, <2>1, <2>2, <2>5, Zenon DEF SameNumber
  <2> QED BY <1>6, <2>1, <2>4, <2>10, <2>11, <2>12, Zenon DEF Whole
<1>10. conn'[c].st # "none"
  BY <1>1, <1>6 DEF Rtsp
<1>11. Talk(c)'
  BY <1>2, <1>4, <1>6, <1>7, <1>9, <1>10, Zenon DEF Talk, k
<1>12. OrderlyGoOn'
  BY DEF OrderlyGoOn
<1>13. RespTyped' /\ \A d \in Conns : Rising(resp'[d])
  BY <1>1, <1>2, Zenon DEF RespTyped
<1> QED BY <1>1, <1>3, <1>8, <1>11, <1>12, <1>13, Zenon DEF TalkInv

\* The segment ends the behaviour: not the segment of an orderly client.
LEMMA TalkEnds ==
    ASSUME TalkInv, fault = "none", fault' # "none", NEW c \in Conns, NEW e, NEW p, Takes(c, e, p), resp' = resp,
           \/ HandleRtcp(c, p)
           \/ p.q.state = "kGotAll" /\ p.q.method \in {"PLAY", "TEARDOWN"} /\ ~rtp[c].alive
    PROVE  TalkInv'
<1> DEFINE k == client'[c].pos
           have == Len(p.buf)
           len == IF have > 1 /\ p.buf[1][1] = "rtcp" THEN p.buf[1][3] + 1 ELSE 0
<1>1. /\ script \in Scripts /\ script' = script /\ Rtsp(conn[c]) /\ RespTyped
      /\ (\A d \in Conns : Rising(resp[d])) /\ Talk(c) /\ ClientTyped'
  BY TakesIs, Zenon DEF Takes, TalkInv
<1> HIDE DEF k, len, have
<1>2. ASSUME Orderly(c)' PROVE FALSE
  <2>1. SentWhole(c)'
    BY <1>2, Zenon DEF Orderly
  <2>0. PICK item \in Items, n \in Nat : TookWhole(c, p, item, n)
    BY <2>1, TakesWhole, Zenon
  <2>2. /\ n = k /\ n = client[c].pos + 1 /\ item = script.reqs[c][k] /\ Whole(c)
        /\ item.m = "RTCP" =>
             /\ p.q.state = "kParseRequestLine"
             /\ have > 1 /\ p.buf[1][1] = "rtcp" /\ p.buf[1][3] + 1 = have
        /\ item.m # "RTCP" => p.q.method = item.m
    BY <2>0, Zenon DEF TookWhole, k, have
  <2>3. CASE HandleRtcp(c, p)
    <3>1. p.q.method = "RTCP" /\ (fault' = fault \/ len > have)
      BY <2>3, Zenon DEF HandleRtcp, len, have
    <3>2. item.m = "RTCP"
      BY <2>2, <3>1, Zenon
    <3>3. len = p.buf[1][3] + 1
      BY <2>2, <3>2, Zenon DEF len
    <3>4. have \in Nat
      <4>1. p.buf \in Seq(Wire)
        BY TakesIs, Zenon DEF InLine
      <4> QED BY <4>1 DEF have
    <3> QED BY <2>2, <3>1, <3>2, <3>3, <3>4
  <2>4. CASE p.q.state = "kGotAll" /\ p.q.method \in {"PLAY", "TEARDOWN"} /\ ~rtp[c].alive
    <3>1. item.m # "RTCP" /\ item.m \in {"PLAY", "TEARDOWN"} /\ item.m # "DESCRIBE"
      <4>1. item.m # "RTCP"
        BY <2>2, <2>4
      <4>2. item.m \in {"PLAY", "TEARDOWN"}
        BY <2>2, <2>4, <4>1, Zenon
      <4> QED BY <4>1, <4>2
    <3>2. client[c].pos \in Nat
      BY <1>1, Zenon DEF Talk, InLine
    <3>3. /\ k \in 1..k
          /\ AskedToDescribe(c)' <=> AskedToDescribe(c) \/ script.reqs[c][k].m = "DESCRIBE"
      <4>1. client'[c].pos = client[c].pos + 1
        BY <2>2, Zenon DEF k
      <4> QED BY <1>1, <3>2, <4>1, AskedMore, Zenon DEF k
    <3>4. \E j \in 1..k : script.reqs[c][j].m = "DESCRIBE"
      BY <1>1, <1>2, <2>2, <3>1, <3>3, Zenon DEF Orderly, k
    <3>5. AskedToDescribe(c)
      BY <1>1, <2>2, <3>1, <3>3, <3>4, Zenon DEF AskedToDescribe, k
    <3> QED BY <1>1, <2>2, <2>4, <3>5, Zenon DEF Whole
  <2> QED BY <2>3, <2>4
<1>3. OrderlyGoOn'
  BY <1>2, Zenon DEF OrderlyGoOn
<1>4. RespTyped' /\ \A d \in Conns : Rising(resp'[d])
  BY <1>1, Zenon DEF RespTyped
<1> QED BY <1>1, <1>3, <1>4, Zenon DEF TalkInv

\* A segment: the parser takes it, and the request is answered when it is there.
LEMMA TalkReceive ==
    ASSUME Inv, SeqInv, TalkInv, NEW c \in Conns, Receive(c)
    PROVE  TalkInv'
<1> DEFINE e == conn[c].buf \o Segment(c)
           p == ParseRequest(conn[c].req, e)
<1>1. /\ fault = "none" /\ HasSocket(c) /\ Segment(c) # <<>> /\ Send(c) /\ script' = script
      /\ \/ HandleRtcp(c, p) \/ KeepParsing(c, p)
         \/ /\ GotAll(p.q)
            /\ \/ HandleCmdOption(c, p) \/ HandleCmdDescribe(c, p) \/ HandleCmdSetup(c, p)
               \/ HandleCmdPlay(c, p) \/ HandleCmdTeardown(c, p) \/ HandleCmdGetParamter(c, p)
  BY Zenon DEF Receive, InEvents
<1>2. Rtsp(conn[c])
  BY <1>1, TheFunctions, Zenon DEF HasSocket
<1>3. Takes(c, e, p)
  BY <1>1, <1>2, Zenon DEF Takes, TalkInv
<1>4. /\ ConnTyped /\ RtpTyped /\ RtpShape(rtp[c]) /\ SetUpInv(rtp[c], clean)
  BY Zenon DEF Inv, Typed, RtpTyped, SeqInv, SeqOK
<1>5. p.q.channel \in Channels
  <2>1. ReqShape(conn[c].req)
    BY Zenon DEF Inv, Typed, ConnTyped, ConnShape
  <2>2. ReqShape(p.q)
    BY <2>1, ParseShape
  <2> QED BY <2>2 DEF ReqShape
<1> HIDE DEF e, p
<1>6. CASE HandleRtcp(c, p) \/ KeepParsing(c, p)
  <2>1. fault' = "none" \/ (HandleRtcp(c, p) /\ fault' = "retrieve_assert" /\ resp' = resp)
    BY <1>1, <1>6, Zenon DEF HandleRtcp, KeepParsing
  <2>2. CASE fault' = "none"
    BY <1>1, <1>3, <1>4, <1>6, <2>2, TalkParse
  <2>3. CASE HandleRtcp(c, p) /\ fault' = "retrieve_assert" /\ resp' = resp
    <3>1. fault' # "none"
      BY <2>3
    <3> QED BY <1>1, <1>3, <2>3, <3>1, TalkEnds
  <2> QED BY <2>1, <2>2, <2>3
<1>7. ASSUME GotAll(p.q), fault' = fault, NEW status \in Nat, NEW sess, NEW st, st \in {conn[c].st, "kDisconnecting"},
             Answer(c, p, status, sess, st), \A d \in Conns : rtp[d].alive => rtp'[d].alive,
             p.q.method = "DESCRIBE" => rtp'[c].alive
      PROVE  TalkInv'
  <2>1. p.q.state = "kGotAll" /\ fault' = "none"
    BY <1>1, <1>7, Zenon DEF GotAll
  <2> QED BY <1>1, <1>3, <1>4, <1>7, <2>1, TalkAnswer
<1>8. ASSUME GotAll(p.q), fault' = fault, NEW status \in Nat, Answer(c, p, status, conn[c].sess, conn[c].st),
             p.q.method # "DESCRIBE", UNCHANGED rtp
      PROVE  TalkInv'
  <2>1. (\A d \in Conns : rtp[d].alive => rtp'[d].alive) /\ (p.q.method = "DESCRIBE" => rtp'[c].alive)
    BY <1>8, Zenon
  <2>2. conn[c].st \in {conn[c].st, "kDisconnecting"}
    OBVIOUS
  <2> QED BY <1>7, <1>8, <2>1, <2>2
<1>9. CASE GotAll(p.q) /\ (HandleCmdOption(c, p) \/ HandleCmdGetParamter(c, p))
  <2>1. /\ Answer(c, p, 200, conn[c].sess, conn[c].st) /\ UNCHANGED rtp /\ fault' = fault
        /\ p.q.method = "OPTIONS" \/ p.q.method = "GET_PARAMETER"
    BY <1>9, Zenon DEF HandleCmdOption, HandleCmdGetParamter
  <2>2. p.q.method # "DESCRIBE" /\ 200 \in Nat
    BY <2>1
  <2> QED BY <1>8, <1>9, <2>1, <2>2
<1>10. CASE GotAll(p.q) /\ HandleCmdDescribe(c, p)
  <2> DEFINE x == IF rtp[c].alive THEN rtp[c] ELSE NewRtp
  <2>1. /\ rtp' = [rtp EXCEPT ![c] = x] /\ fault' = fault
        /\ \/ Answer(c, p, 200, SessionId, conn[c].st)
           \/ Answer(c, p, 404, conn[c].sess, conn[c].st)
    BY <1>10, Zenon DEF HandleCmdDescribe
  <2>2. x.alive
    BY DEF NewRtp
  <2> HIDE DEF x
  <2>3. rtp'[c] = x /\ \A d \in Conns : d # c => rtp'[d] = rtp[d]
    BY <1>4, <2>1, PutRtp, Zenon
  <2>4. (\A d \in Conns : rtp[d].alive => rtp'[d].alive) /\ rtp'[c].alive
    BY <2>2, <2>3, Zenon
  <2>5. conn[c].st \in {conn[c].st, "kDisconnecting"} /\ 200 \in Nat /\ 404 \in Nat
    OBVIOUS
  <2> QED BY <1>7, <1>10, <2>1, <2>4, <2>5
<1>11. CASE GotAll(p.q) /\ HandleCmdSetup(c, p)
  <2> DEFINE n == p.q.channel
  <2>1. p.q.method # "DESCRIBE" /\ fault' = fault
    <3>1. p.q.method = "SETUP" /\ fault' = fault
      BY <1>11, Zenon DEF HandleCmdSetup
    <3> QED BY <3>1
  <2>2. ASSUME NEW status \in Nat, Answer(c, p, status, conn[c].sess, conn[c].st), LookId(conn[c].sess),
               SetupRtpOverTcp(c, n) \/ SetupRtpOverUdp(c, n) \/ SetupRtpOverUdpFails(c, n)
        PROVE  TalkInv'
    <3>1. rtp[c].alive
      BY <1>2, <2>2, Zenon DEF LookId, Inv, Described
    <3>2. /\ \A d \in Conns : d # c => rtp'[d] = rtp[d]
          /\ Quiet(rtp[c], rtp'[c])
      BY <1>4, <1>5, <2>2, <3>1, SetUpQuiet
    <3>3. \A d \in Conns : rtp[d].alive => rtp'[d].alive
      BY <3>1, <3>2, Zenon DEF Quiet
    <3>4. conn[c].st \in {conn[c].st, "kDisconnecting"}
      OBVIOUS
    <3> QED BY <1>7, <1>11, <2>1, <2>2, <3>3, <3>4
  <2>3. 200 \in Nat /\ 461 \in Nat /\ 500 \in Nat
    OBVIOUS
  <2>4. CASE /\ Answer(c, p, 500, conn[c].sess, conn[c].st)
             /\ UNCHANGED <<owner, rtp, clean>>
    BY <1>8, <1>11, <2>1, <2>3, <2>4
  <2>5. CASE /\ LookId(conn[c].sess) /\ SetupRtpOverTcp(c, n)
             /\ Answer(c, p, 200, conn[c].sess, conn[c].st)
    BY <2>2, <2>3, <2>5
  <2>6. CASE /\ LookId(conn[c].sess) /\ SetupRtpOverUdp(c, n)
             /\ Answer(c, p, 200, conn[c].sess, conn[c].st)
    BY <2>2, <2>3, <2>6
  <2>7. CASE /\ LookId(conn[c].sess) /\ SetupRtpOverUdpFails(c, n)
             /\ Answer(c, p, 500, conn[c].sess, conn[c].st)
    BY <2>2, <2>3, <2>7
  <2>8. CASE /\ Answer(c, p, 461, conn[c].sess, conn[c].st)
             /\ UNCHANGED <<owner, rtp, clean>>
    BY <1>8, <1>11, <2>1, <2>3, <2>8
  <2> QED BY <1>11, <2>4, <2>5, <2>6, <2>7, <2>8, SetupIs
<1>12. CASE GotAll(p.q) /\ (HandleCmdPlay(c, p) \/ HandleCmdTeardown(c, p))
  <2>1. /\ p.q.method = "PLAY" \/ p.q.method = "TEARDOWN"
        /\ \/ ~rtp[c].alive /\ fault' = "null_rtp" /\ resp' = resp
           \/ /\ rtp' = [rtp EXCEPT ![c] = StartPlay(rtp[c])] /\ fault' = fault
              /\ Answer(c, p, 200, conn[c].sess, conn[c].st)
           \/ /\ rtp' = [rtp EXCEPT ![c] = Teardown(rtp[c])] /\ fault' = fault
              /\ Answer(c, p, 200, conn[c].sess, "kDisconnecting")
    BY <1>12, Zenon DEF HandleCmdPlay, HandleCmdTeardown, NullRtp
  <2>2. p.q.method # "DESCRIBE" /\ p.q.method \in {"PLAY", "TEARDOWN"} /\ 200 \in Nat
    BY <2>1
  <2>3. CASE ~rtp[c].alive /\ fault' = "null_rtp" /\ resp' = resp
    <3>1. fault' # "none"
      BY <2>3
    <3>2. p.q.state = "kGotAll"
      BY <1>12, Zenon DEF GotAll
    <3> QED BY <1>1, <1>3, <2>2, <2>3, <3>1, <3>2, TalkEnds
  <2>4. ASSUME NEW x, rtp' = [rtp EXCEPT ![c] = x], fault' = fault, Quiet(rtp[c], x),
               NEW st \in {conn[c].st, "kDisconnecting"}, Answer(c, p, 200, conn[c].sess, st)
        PROVE  TalkInv'
    <3>1. rtp'[c] = x /\ \A d \in Conns : d # c => rtp'[d] = rtp[d]
      BY <1>4, <2>4, PutRtp, Zenon
    <3>2. \A d \in Conns : rtp[d].alive => rtp'[d].alive
      BY <2>4, <3>1, Zenon DEF Quiet
    <3> QED BY <1>7, <1>12, <2>2, <2>4, <3>2
  <2>5. conn[c].st \in {conn[c].st, "kDisconnecting"} /\ "kDisconnecting" \in {conn[c].st, "kDisconnecting"}
    OBVIOUS
  <2>6. CASE /\ rtp' = [rtp EXCEPT ![c] = StartPlay(rtp[c])] /\ fault' = fault
             /\ Answer(c, p, 200, conn[c].sess, conn[c].st)
    <3>1. Quiet(rtp[c], StartPlay(rtp[c]))
      BY <1>4, StartPlayQuiet
    <3> QED BY <2>4, <2>5, <2>6, <3>1
  <2>7. CASE /\ rtp' = [rtp EXCEPT ![c] = Teardown(rtp[c])] /\ fault' = fault
             /\ Answer(c, p, 200, conn[c].sess, "kDisconnecting")
    <3>1. Quiet(rtp[c], Teardown(rtp[c]))
      BY <1>4, TeardownQuiet
    <3> QED BY <2>4, <2>5, <2>7, <3>1
  <2> QED BY <2>1, <2>3, <2>6, <2>7
<1> QED BY <1>1, <1>6, <1>9, <1>10, <1>11, <1>12

\* Steps that send and answer nothing.
LEMMA TalkOthers ==
    ASSUME TalkInv, UNCHANGED <<script, client, resp>>, fault' = fault \/ fault' \notin {"none", "null_rtp", "retrieve_assert"},
           fault = "none" => \A c \in Conns : Talk(c) => Talk(c)'
    PROVE  TalkInv'
<1>1. /\ script' \in Scripts /\ ClientTyped' /\ RespTyped' /\ \A c \in Conns : Rising(resp'[c])
  BY Zenon DEF TalkInv, ClientTyped, RespTyped
<1>2. fault' = "none" => \A c \in Conns : Talk(c)'
  <2>1. fault' = "none" => fault = "none"
    OBVIOUS
  <2> QED BY <2>1, Zenon DEF TalkInv
<1>3. OrderlyGoOn'
  <2>1. CASE fault' = fault
    <3>1. \A c \in Conns : Orderly(c)' <=> Orderly(c)
      BY Zenon DEF Orderly, SentWhole
    <3> QED BY <2>1, <3>1, Zenon DEF TalkInv, OrderlyGoOn
  <2>2. CASE fault' \notin {"none", "null_rtp", "retrieve_assert"}
    BY <2>2 DEF OrderlyGoOn
  <2> QED BY <2>1, <2>2
<1> QED BY <1>1, <1>2, <1>3, Zenon DEF TalkInv

\* Whatever happens to descriptors, frames and functors.
LEMMA TalkElsewhere ==
    ASSUME TalkInv, UNCHANGED <<script, client, resp, conn>>, fault' = fault \/ fault' \notin {"none", "null_rtp", "retrieve_assert"},
           \A c \in Conns : Rtsp(conn[c]) /\ rtp[c].alive => rtp'[c].alive
    PROVE  TalkInv'
<1>1. ASSUME NEW c \in Conns, Talk(c) PROVE Talk(c)'
  <2>1. conn'[c] = conn[c] /\ client'[c] = client[c] /\ resp'[c] = resp[c] /\ script' = script
    BY Zenon
  <2> QED BY <1>1, <2>1, TalkKept, Zenon
<1> QED BY <1>1, TalkOthers

\* A connection begins, or ends, with an empty buffer and a fresh parser.
LEMMA TalkAnew ==
    ASSUME script' = script, NEW c \in Conns, Talk(c), client'[c] = client[c], resp'[c] = resp[c],
           conn'[c].req = NewRequest, conn'[c].buf = <<>>,
           \/ conn'[c].st = "kConnected" /\ conn[c].st = "none"
           \/ conn'[c].st \in {"kDisconnected", "gone"}
    PROVE  Talk(c)'
<1>1. conn'[c].req.state = "kParseRequestLine" /\ ~conn'[c].req.hasCSeq /\ ReqFields(conn'[c].req)
  BY NewRequestIs, Zenon
<1>2. InLine(Told(resp'[c]), conn'[c].req, conn'[c].buf, client'[c].pend, client'[c].pos)
  <2> DEFINE A == Told(resp[c])
             q == conn[c].req
             b == conn[c].buf
             t == client[c].pend
             n == client[c].pos
             r == conn'[c].req
  <2>1. InLine(A, q, b, t, n) /\ ReqFields(r) /\ ~r.hasCSeq
    BY <1>1, Zenon DEF Talk
  <2> HIDE DEF A, q, b, t, n, r
  <2>2. InLine(A, r, b, t, n)
    BY <2>1, LineAnswers
  <2>3. InLine(A, r, <<>>, t, n)
    BY <2>2, LineTrims
  <2> QED BY <2>3, Zenon DEF A, q, b, t, n, r
<1>3. conn'[c].st # "none"
  OBVIOUS
<1>4. ASSUME SentWhole(c)' PROVE Whole(c)'
  <2>1. Whole(c)
    BY <1>4, Zenon DEF SentWhole, Talk
  <2>2. CASE conn'[c].st = "kConnected" /\ conn[c].st = "none"
    <3>1. client[c].pos = 0 /\ resp[c] = <<>>
      BY <2>2, Zenon DEF Talk
    <3>2. Asked(c)' = {} /\ ~AskedToDescribe(c)'
      <4>1. \A k \in 1..client'[c].pos : FALSE
        BY <3>1
      <4> QED BY <4>1, Zenon DEF Asked, AskedToDescribe
    <3>3. Told(resp'[c]) = {}
      <4>1. \A k \in 1..Len(resp'[c]) : FALSE
        BY <3>1
      <4> QED BY <4>1, Zenon DEF Told
    <3> QED BY <1>1, <2>1, <3>2, <3>3, Zenon DEF Whole
  <2>3. CASE conn'[c].st \in {"kDisconnected", "gone"}
    <3>1. conn'[c].st # "kConnected" /\ ~Rtsp(conn'[c])
      BY <2>3 DEF Rtsp
    <3> QED BY <1>1, <2>1, <3>1, Zenon DEF Whole
  <2> QED BY <2>2, <2>3
<1> QED BY <1>1, <1>2, <1>3, <1>4, Zenon DEF Talk

\* A fresh record.
LEMMA AnewIs ==
    ASSUME NEW x
    PROVE  /\ \A s : /\ [NoConn EXCEPT !.st = s, !.fd = x].st = s
                     /\ [NoConn EXCEPT !.st = s, !.fd = x].req = NewRequest
                     /\ [NoConn EXCEPT !.st = s, !.fd = x].buf = <<>>
           /\ \A s : /\ [NoConn EXCEPT !.st = s].st = s /\ [NoConn EXCEPT !.st = s].req = NewRequest
                     /\ [NoConn EXCEPT !.st = s].buf = <<>>
<1>1. /\ {"st", "fd", "buf", "req", "sess"} \subseteq DOMAIN NoConn /\ NoConn.req = NewRequest
      /\ NoConn.buf = <<>>
  BY DEF NoConn
<1> QED BY <1>1, Zenon

LEMMA TalkAccept ==
    ASSUME Inv, TalkInv, NEW c \in Conns, Accept(c) \/ AcceptEMFILE(c)
    PROVE  TalkInv'
<1> DEFINE new == [NoConn EXCEPT !.st = "kConnected", !.fd = LowestFree(owner, 1)]
<1>1. /\ ConnTyped /\ fault = "none" /\ conn[c].st = "none" /\ UNCHANGED <<rtp, script, client, resp>>
      /\ \/ fault' = "epoll_assert" /\ UNCHANGED conn
         \/ fault' = fault /\ conn' = [conn EXCEPT ![c] = new]
         \/ fault' = fault /\ conn' = [conn EXCEPT ![c].st = "refused"]
  BY ZenonT(60) DEF Accept, AcceptEMFILE, InEvents, Inv, Typed
<1>2. new.st = "kConnected" /\ new.req = NewRequest /\ new.buf = <<>>
  BY AnewIs, Zenon
<1> HIDE DEF new
<1>3. CASE fault' = "epoll_assert" /\ UNCHANGED conn
  <2>1. fault' \notin {"none", "null_rtp", "retrieve_assert"}
    BY <1>3
  <2> QED BY <1>1, <1>3, <2>1, TalkElsewhere
<1>4. ASSUME NEW d \in Conns, d # c, Talk(d), conn'[d] = conn[d] PROVE Talk(d)'
  <2>1. client'[d] = client[d] /\ resp'[d] = resp[d] /\ script' = script /\ (rtp[d].alive => rtp'[d].alive)
    BY <1>1, Zenon
  <2> QED BY <1>4, <2>1, TalkKept, Zenon
<1>5. CASE fault' = fault /\ conn' = [conn EXCEPT ![c] = new]
  <2>1. conn'[c] = new /\ \A d \in Conns : d # c => conn'[d] = conn[d]
    BY <1>1, <1>5, PutConn, Zenon
  <2>2. ASSUME Talk(c) PROVE Talk(c)'
    <3>1. client'[c] = client[c] /\ resp'[c] = resp[c] /\ script' = script
      BY <1>1, Zenon
    <3>2. conn'[c].st = "kConnected" /\ conn'[c].req = NewRequest /\ conn'[c].buf = <<>>
      BY <1>2, <2>1, Zenon
    <3> QED BY <1>1, <2>2, <3>1, <3>2, TalkAnew, Zenon
  <2>3. \A d \in Conns : Talk(d) => Talk(d)'
    BY <1>4, <2>1, <2>2
  <2> QED BY <1>1, <1>5, <2>3, TalkOthers
<1>6. CASE fault' = fault /\ conn' = [conn EXCEPT ![c].st = "refused"]
  <2>1. /\ conn'[c].st = "refused" /\ conn'[c].req = conn[c].req /\ conn'[c].buf = conn[c].buf
        /\ \A d \in Conns : d # c => conn'[d] = conn[d]
    BY <1>1, <1>6, Zenon DEF ConnTyped, ConnShape
  <2>2. ASSUME Talk(c) PROVE Talk(c)'
    <3>1. SentWhole(c)' => Whole(c)
      BY <1>1, <2>2, Zenon DEF SentWhole, Talk
    <3>2. conn'[c].st # "none" /\ conn'[c].st # "kConnected" /\ ~Rtsp(conn'[c])
      BY <2>1 DEF Rtsp
    <3>3. Whole(c) => Whole(c)'
      BY <1>1, <2>1, <3>2, Zenon DEF Whole
    <3> QED BY <1>1, <2>1, <2>2, <3>1, <3>2, <3>3, Zenon DEF Talk
  <2>3. \A d \in Conns : Talk(d) => Talk(d)'
    BY <1>4, <2>1, <2>2
  <2> QED BY <1>1, <1>6, <2>3, TalkOthers
<1> QED BY <1>1, <1>3, <1>5, <1>6

\* The connection of c ends.
LEMMA TalkEnded ==
    ASSUME TalkInv, script' = script, client' = client, resp' = resp, fault' = fault,
           NEW c \in Conns, conn'[c].st \in {"kDisconnected", "gone"}, conn'[c].req = NewRequest, conn'[c].buf = <<>>,
           \A d \in Conns : d # c => conn'[d] = conn[d] /\ rtp'[d] = rtp[d]
    PROVE  TalkInv'
<1>1. ASSUME Talk(c) PROVE Talk(c)'
  <2>1. client'[c] = client[c] /\ resp'[c] = resp[c]
    BY Zenon
  <2> QED BY <1>1, <2>1, TalkAnew, Zenon
<1>2. ASSUME NEW d \in Conns, d # c, Talk(d) PROVE Talk(d)'
  <2>1. client'[d] = client[d] /\ resp'[d] = resp[d] /\ conn'[d] = conn[d] /\ (rtp[d].alive => rtp'[d].alive)
    BY <1>2, Zenon
  <2> QED BY <1>2, <2>1, TalkKept, Zenon
<1>3. \A d \in Conns : Talk(d) => Talk(d)'
  BY <1>1, <1>2
<1> QED BY <1>3, TalkOthers

LEMMA TalkHandleClose ==
    ASSUME Inv, TalkInv, NEW c \in Conns, HandleClose(c)
    PROVE  TalkInv'
<1> DEFINE new == [NoConn EXCEPT !.st = "kDisconnected", !.fd = conn[c].fd]
<1>1. /\ ConnTyped /\ RtpTyped /\ script' = script /\ client' = client /\ resp' = resp /\ fault' = fault
      /\ conn' = [conn EXCEPT ![c] = new]
      /\ rtp' = [rtp EXCEPT ![c] = DeadRtp] \/ UNCHANGED rtp
  BY Zenon DEF HandleClose, DestroyRtp, Inv, Typed
<1>2. new.st = "kDisconnected" /\ new.req = NewRequest /\ new.buf = <<>>
  BY AnewIs, Zenon
<1> HIDE DEF new
<1>3. conn'[c] = new /\ \A d \in Conns : d # c => conn'[d] = conn[d]
  BY <1>1, PutConn, Zenon
<1>4. \A d \in Conns : d # c => conn'[d] = conn[d] /\ rtp'[d] = rtp[d]
  BY <1>1, <1>3, PutRtp, Zenon
<1>5. conn'[c].req = NewRequest /\ conn'[c].buf = <<>> /\ conn'[c].st \in {"kDisconnected", "gone"}
  BY <1>2, <1>3
<1> QED BY <1>1, <1>4, <1>5, TalkEnded

LEMMA TalkConnectDestroyed ==
    ASSUME Inv, TalkInv, ConnectDestroyed
    PROVE  TalkInv'
<1> DEFINE c == Head(batch).c
           new == [NoConn EXCEPT !.st = "gone"]
<1>1. /\ ConnTyped /\ LoopTyped /\ phase = "functors" /\ PopFunctor
      /\ script' = script /\ client' = client /\ resp' = resp /\ fault' = fault
      /\ conn' = [conn EXCEPT ![c] = new] /\ rtp' = rtp
  BY Zenon DEF ConnectDestroyed, Inv, Typed
<1>2. c \in Conns
  BY <1>1, Popped DEF Functors
<1>3. new.st = "gone" /\ new.req = NewRequest /\ new.buf = <<>>
  BY AnewIs, Zenon
<1> HIDE DEF new
<1>4. PICK d \in Conns : conn' = [conn EXCEPT ![d] = new]
  BY <1>1, <1>2
<1>5. conn'[d] = new /\ \A x \in Conns : x # d => conn'[x] = conn[x]
  BY <1>1, <1>4, PutConn, Zenon
<1>6. \A x \in Conns : x # d => conn'[x] = conn[x] /\ rtp'[x] = rtp[x]
  BY <1>1, <1>5, Zenon
<1>7. conn'[d].req = NewRequest /\ conn'[d].buf = <<>> /\ conn'[d].st \in {"kDisconnected", "gone"}
  BY <1>3, <1>5
<1> HIDE DEF c
<1> QED BY <1>1, <1>6, <1>7, TalkEnded

\* A packet sets numbers and may close the RtpConnection, not destroy it.
LEMMA TalkSendPacket ==
    ASSUME Inv, SeqInv, TalkInv, SendPacket
    PROVE  TalkInv'
<1>1. /\ LoopTyped /\ RtpTyped /\ phase = "functors" /\ PopFunctor
      /\ UNCHANGED <<conn, script, client, resp>>
  BY Zenon DEF SendPacket, Inv, Typed
<1>2. Head(batch) \in Functors
  BY <1>1, Popped
<1>3. PICK c \in Conns : c = Head(batch).c
  BY <1>2 DEF Functors
<1>4. \/ fault' = "use_after_free" /\ UNCHANGED rtp
      \/ fault' = fault /\ rtp' = [rtp EXCEPT ![c] = SetRtpHeader(rtp[c])]
      \/ fault' = fault /\ rtp' = [rtp EXCEPT ![c] = Teardown(SetRtpHeader(rtp[c]))]
  BY <1>3, ZenonT(60) DEF SendPacket
<1>5. RtpShape(rtp[c]) /\ SetUpInv(rtp[c], clean)
  BY <1>1, Zenon DEF RtpTyped, SeqInv, SeqOK
<1>6. /\ SetRtpHeader(rtp[c]).alive = rtp[c].alive
      /\ Teardown(SetRtpHeader(rtp[c])).alive = rtp[c].alive
  <2> DEFINE r == rtp[c]
             x == SetRtpHeader(r)
  <2>1. RtpShape(r) /\ SetUpInv(r, clean)
    BY <1>5
  <2> HIDE DEF r, x
  <2>2. x.alive = r.alive /\ SetUpInv(x, clean)
    BY <2>1, SetRtpHeaderNumbers DEF x
  <2>3. RtpShape(x)
    BY <2>1, SetRtpHeaderAlike DEF x
  <2>4. Quiet(x, Teardown(x))
    BY <2>2, <2>3, TeardownQuiet
  <2> QED BY <2>2, <2>4, Zenon DEF r, x, Quiet
<1>7. ASSUME NEW x, rtp' = [rtp EXCEPT ![c] = x], x.alive = rtp[c].alive, fault' = fault
      PROVE  TalkInv'
  <2>1. rtp'[c] = x /\ \A d \in Conns : d # c => rtp'[d] = rtp[d]
    BY <1>1, <1>7, PutRtp, Zenon
  <2>2. \A d \in Conns : rtp[d].alive => rtp'[d].alive
    BY <1>7, <2>1, Zenon
  <2> QED BY <1>1, <1>7, <2>2, TalkElsewhere
<1>8. CASE fault' = "use_after_free" /\ UNCHANGED rtp
  <2>1. fault' \notin {"none", "null_rtp", "retrieve_assert"}
    BY <1>8
  <2> QED BY <1>1, <1>8, <2>1, TalkElsewhere
<1> QED BY <1>4, <1>6, <1>7, <1>8

\* The sender destroys only RtpConnections whose RtspConnection is gone.
LEMMA TalkDropReferences ==
    ASSUME TalkInv, DropReferences
    PROVE  TalkInv'
<1> DEFINE dead == {c \in sender.held : ~HasRtsp(c)}
<1>1. /\ rtp' = [c \in Conns |-> IF c \in dead THEN DeadRtp ELSE rtp[c]]
      /\ UNCHANGED <<conn, script, client, resp, fault>>
  BY Zenon DEF DropReferences, senderKeeps
<1>2. \A c \in dead : ~Rtsp(conn[c])
  BY TheFunctions, Zenon
<1> HIDE DEF dead
<1>3. \A c \in Conns : Rtsp(conn[c]) /\ rtp[c].alive => rtp'[c].alive
  BY <1>1, <1>2
<1> QED BY <1>1, <1>3, TalkElsewhere

LEMMA InitTalk == Init => TalkInv
<1> SUFFICES ASSUME Init PROVE TalkInv
  OBVIOUS
<1>1. /\ script \in Scripts /\ client = [c \in Conns |-> [pos |-> 0, pend |-> <<>>]]
      /\ conn = [c \in Conns |-> NoConn] /\ resp = [c \in Conns |-> <<>>] /\ fault = "none"
  BY Zenon DEF Init
<1>2. /\ DOMAIN client = Conns /\ DOMAIN resp = Conns
      /\ \A c \in Conns : /\ client[c] = [pos |-> 0, pend |-> <<>>] /\ conn[c] = NoConn /\ resp[c] = <<>>
  BY <1>1
<1>3. \A c \in Conns : /\ {"pos", "pend"} \subseteq DOMAIN client[c] /\ client[c].pos = 0 /\ client[c].pend = <<>>
                       /\ conn[c].st = "none" /\ conn[c].req = NewRequest /\ conn[c].buf = <<>>
  BY <1>2 DEF NoConn
<1>4. ClientTyped
  <2>1. ASSUME NEW c \in Conns PROVE client[c].pos \in 0..Len(script.reqs[c])
    BY <1>1, <1>3, ScriptIs
  <2> QED BY <1>2, <1>3, <2>1, Zenon DEF ClientTyped
<1>5. <<>> \in Seq(Responses) /\ Rising(<<>>) /\ Told(<<>>) = {}
  <2>1. Len(<<>>) = 0 /\ 1..0 = {} /\ <<>> \in Seq(Responses)
    OBVIOUS
  <2> QED BY <2>1 DEF Rising, Told
<1>6. RespTyped /\ \A c \in Conns : Rising(resp[c])
  BY <1>2, <1>5, Zenon DEF RespTyped
<1>7. ASSUME NEW c \in Conns PROVE Talk(c)
  <2>1. Told(resp[c]) = {} /\ resp[c] = <<>>
    BY <1>2, <1>5, Zenon
  <2>2. conn[c].req.state = "kParseRequestLine" /\ ~conn[c].req.hasCSeq /\ ReqFields(conn[c].req)
    BY <1>3, NewRequestIs, Zenon
  <2>3. InLine(Told(resp[c]), conn[c].req, conn[c].buf, client[c].pend, client[c].pos)
    <3> DEFINE r == conn[c].req
    <3> HIDE DEF r
    <3>1. InLine({}, r, <<>>, <<>>, 0)
      <4>1. ReqFields(r) /\ Num(r) = {} /\ 0 \in Nat
        BY <2>2, Zenon DEF r, Num
      <4> QED BY <4>1, NoNumbers, Zenon DEF InLine, Below
    <3> QED BY <1>3, <2>1, <3>1, Zenon DEF r
  <2>4. Asked(c) = {} /\ ~AskedToDescribe(c)
    <3>1. \A k \in 1..client[c].pos : FALSE
      BY <1>3
    <3> QED BY <3>1, Zenon DEF Asked, AskedToDescribe
  <2>5. Whole(c)
    BY <1>3, <2>1, <2>2, <2>4, Zenon DEF Whole
  <2> QED BY <1>3, <2>1, <2>2, <2>3, <2>5, Zenon DEF Talk
<1>8. OrderlyGoOn
  BY <1>1 DEF OrderlyGoOn
<1> QED BY <1>1, <1>4, <1>6, <1>7, <1>8, Zenon DEF TalkInv

LEMMA NextTalk == Inv /\ SeqInv /\ TalkInv /\ [Next]_vars => TalkInv'
<1> SUFFICES ASSUME Inv, SeqInv, TalkInv, [Next]_vars PROVE TalkInv'
  OBVIOUS
<1>1. ASSUME NEW c \in Conns, Accept(c) \/ AcceptEMFILE(c) PROVE TalkInv'
  BY <1>1, TalkAccept
<1>2. ASSUME NEW c \in Conns, Receive(c) PROVE TalkInv'
  BY <1>2, TalkReceive
<1>3. ASSUME NEW c \in Conns, PeerCloses(c) \/ ForceCloseTimer(c) PROVE TalkInv'
  <2>1. HandleClose(c)
    BY <1>3, Zenon DEF PeerCloses, ForceCloseTimer
  <2> QED BY <2>1, TalkHandleClose
<1>4. ASSUME UNCHANGED <<script, client, resp, conn, fault, rtp>> PROVE TalkInv'
  <2>1. \A c \in Conns : Rtsp(conn[c]) /\ rtp[c].alive => rtp'[c].alive
    BY <1>4, Zenon
  <2> QED BY <1>4, <2>1, TalkElsewhere
<1>5. CASE LoopStep
  <2>1. CASE DoPendingFunctors
    <3>1. UNCHANGED <<script, client, resp, conn, fault, rtp>>
      BY <2>1, Zenon DEF DoPendingFunctors
    <3> QED BY <1>4, <3>1
  <2> QED BY <1>5, <2>1, TalkConnectDestroyed, TalkSendPacket DEF LoopStep
<1>6. CASE SenderStep
  <2>1. CASE PushFrame \/ Collect \/ SendRtpPacket
    <3>1. UNCHANGED <<script, client, resp, conn, fault, rtp>>
      BY <2>1, Zenon DEF PushFrame, Collect, SendRtpPacket, senderKeeps
    <3> QED BY <1>4, <3>1
  <2> QED BY <1>6, <2>1, TalkDropReferences DEF SenderStep
<1>7. CASE RemoveMediaSession
  <2>1. UNCHANGED <<script, client, resp, conn, fault, rtp>>
    BY <1>7, Zenon DEF RemoveMediaSession
  <2> QED BY <1>4, <2>1
<1>8. CASE UNCHANGED vars
  BY <1>4, <1>8, Zenon DEF vars
<1> QED BY <1>1, <1>2, <1>3, <1>5, <1>6, <1>7, <1>8, Zenon DEF Next

\* The numbers of each conversation stand in one order, from the answers over
\* the parser and its buffer to what the client has still to send.
THEOREM TalksStandInLine == Spec => []TalkInv
BY InitTalk, NextTalk, RtspInvariant, NumbersAreConsecutive, PTL DEF Spec

\* Whatever the clients send, in whatever pieces, for any number of them: no
\* client is answered twice or out of order; and one that sends complete
\* requests, each in a segment of its own, has had an answer to each of them
\* whenever the loop is back at its poll, up to its TEARDOWN (parseRequest(),
\* the reset() after each command, sendMessage()).
THEOREM AnswersAlwaysInOrder == Spec => []AnswersInOrder
<1>1. TalkInv => AnswersInOrder
  <2> SUFFICES ASSUME TalkInv, NEW c \in Conns
               PROVE  /\ \A j, k \in 1..Len(resp[c]) : j < k => resp[c][j].cseq < resp[c][k].cseq
                      /\ SentWhole(c) /\ conn[c].st = "kConnected" /\ fault = "none" =>
                           {resp[c][k].cseq : k \in 1..Len(resp[c])} =
                             {k \in 1..client[c].pos : script.reqs[c][k].m # "RTCP"}
    BY Zenon DEF AnswersInOrder
  <2>1. Rising(resp[c])
    BY Zenon DEF TalkInv
  <2>2. SentWhole(c) /\ conn[c].st = "kConnected" /\ fault = "none" => Told(resp[c]) = Asked(c)
    BY Zenon DEF TalkInv, Talk, Whole
  <2> QED BY <2>1, <2>2, Zenon DEF Rising, Told, Asked
<1> QED BY <1>1, TalksStandInLine, PTL

\* Clients that describe a session before they use one and send whole requests
\* and packets, however many there are and however their connections come and
\* go: the server meets no null RtpConnection and no short buffer, whatever
\* they set up; and while every set-up is over UDP and succeeds, its poller is
\* given no descriptor that it still knows (handleCmdPlay(),
\* handleCmdTeardown(), handleRtcp(), updateChannel()).
THEOREM OrderlyClientsStaySafe == Spec => []OrderlyClientsAreSafe
<1>1. Inv /\ TalkInv => OrderlyClientsAreSafe
  BY Zenon DEF OrderlyClientsAreSafe, Inv, TalkInv, NoEpollAssert, OrderlyGoOn
<1> QED BY <1>1, RtspInvariant, TalksStandInLine, PTL

-----------------------------------------------------------------------------
(* Clients that set up over TCP                                            *)

AsksUdp(s) == s[1] = "hdr" /\ s[2] = "Transport" /\ s[3] = Transports.udp
NoUdp(t) == \A k \in 1..Len(t) : ~AsksUdp(t[k])

LEMMA NobodyAsks ==
    /\ \A s \in Symbols : s # Hdr("Transport", Transports.udp) => ~AsksUdp(s)
    /\ ~AsksUdp(Eol) /\ (\A m, n : ~AsksUdp(Line(m, n))) /\ (\A n : ~AsksUdp(Hdr("CSeq", n)))
    /\ \A n : ~AsksUdp(<<"rtcp", "$", n>>)
    /\ NoUdp(<<>>)
<1>1. ASSUME NEW s \in Symbols, AsksUdp(s) PROVE s = Hdr("Transport", Transports.udp)
  <2>1. CASE s \in {"hdr"} \X Names \X Nat
    BY <1>1, <2>1 DEF AsksUdp, Hdr
  <2>2. CASE s = <<"data", "RTCP", 0>>
    BY <1>1, <2>2 DEF AsksUdp
  <2> QED BY <2>1, <2>2 DEF Symbols
<1>2. ~AsksUdp(Eol)
  BY DEF AsksUdp, Eol
<1>3. \A m, n : ~AsksUdp(Line(m, n))
  BY DEF AsksUdp, Line
<1>4. \A n : ~AsksUdp(Hdr("CSeq", n))
  BY DEF AsksUdp, Hdr
<1>5. \A n : ~AsksUdp(<<"rtcp", "$", n>>)
  BY DEF AsksUdp
<1>6. NoUdp(<<>>)
  <2>1. \A k \in 1..Len(<<>>) : FALSE
    OBVIOUS
  <2> QED BY <2>1, Zenon DEF NoUdp
<1> QED BY <1>1, <1>2, <1>3, <1>4, <1>5, <1>6, Zenon

LEMMA NoUdpJoined ==
    ASSUME NEW S, NEW a \in Seq(S), NEW b \in Seq(S), NEW e, Joined(S, a, b, e)
    PROVE  NoUdp(e) <=> NoUdp(a) /\ NoUdp(b)
<1>1. /\ Len(a) \in Nat /\ Len(b) \in Nat /\ Len(e) = Len(a) + Len(b)
      /\ \A k \in 1..Len(e) : e[k] = IF k <= Len(a) THEN a[k] ELSE b[k - Len(a)]
  BY DEF Joined
<1>2. ASSUME NoUdp(e) PROVE NoUdp(a) /\ NoUdp(b)
  <2>1. \A k \in 1..Len(a) : k \in 1..Len(e) /\ e[k] = a[k]
    BY <1>1
  <2>2. ASSUME NEW k \in 1..Len(b) PROVE ~AsksUdp(b[k])
    <3> DEFINE j == Len(a) + k
    <3>1. j \in 1..Len(e) /\ ~(j <= Len(a)) /\ j - Len(a) = k
      BY <1>1
    <3> HIDE DEF j
    <3>2. e[j] = b[k]
      BY <1>1, <3>1, Zenon
    <3> QED BY <1>2, <3>1, <3>2, Zenon DEF NoUdp
  <2> QED BY <1>2, <2>1, <2>2, Zenon DEF NoUdp
<1>3. ASSUME NoUdp(a), NoUdp(b) PROVE NoUdp(e)
  <2>1. ASSUME NEW k \in 1..Len(e) PROVE ~AsksUdp(e[k])
    <3>1. CASE k <= Len(a)
      <4>1. k \in 1..Len(a) /\ e[k] = a[k]
        BY <1>1, <3>1
      <4> QED BY <1>3, <4>1, Zenon DEF NoUdp
    <3>2. CASE ~(k <= Len(a))
      <4> DEFINE j == k - Len(a)
      <4>1. j \in 1..Len(b) /\ e[k] = b[j]
        BY <1>1, <3>2
      <4> HIDE DEF j
      <4> QED BY <1>3, <4>1, Zenon DEF NoUdp
    <3> QED BY <3>1, <3>2
  <2> QED BY <2>1, Zenon DEF NoUdp
<1> QED BY <1>2, <1>3

LEMMA NoUdpBehind ==
    ASSUME NEW S, NEW b \in Seq(S), NEW n \in 0..Len(b), NEW t, Behind(S, b, n, t), NoUdp(b)
    PROVE  NoUdp(t)
<1>1. Len(b) \in Nat /\ Len(t) = Len(b) - n /\ \A k \in 1..Len(t) : t[k] = b[n + k]
  BY DEF Behind
<1>2. ASSUME NEW k \in 1..Len(t) PROVE ~AsksUdp(t[k])
  <2> DEFINE j == n + k
  <2>1. j \in 1..Len(b)
    BY <1>1
  <2>2. t[k] = b[j]
    BY <1>1
  <2> HIDE DEF j
  <2> QED BY <2>1, <2>2, Zenon DEF NoUdp
<1> QED BY <1>2, Zenon DEF NoUdp

\* The text of an item without such a header.
LEMMA NoUdpText ==
    ASSUME NEW item \in Items, NEW i \in Nat, NEW all, all = Text(item, i),
           \A j \in 1..Len(item.h) : item.h[j] # Hdr("Transport", Transports.udp)
    PROVE  NoUdp(all)
<1>1. item.h \in Seq(Symbols) /\ \A j \in 1..Len(item.h) : item.h[j] \in Symbols
  BY DEF Items
<1>2. \A j \in 1..Len(item.h) : ~AsksUdp(item.h[j])
  BY <1>1, NobodyAsks, Zenon
<1>3. CASE item.m = "RTCP"
  <2> DEFINE head == <<<<"rtcp", "$", item.n>>>>
             h == item.h
             T == {<<"rtcp", "$", item.n>>} \cup Symbols
  <2>1. head \in Seq(T) /\ h \in Seq(T) /\ Len(head) = 1 /\ head[1] = <<"rtcp", "$", item.n>>
    BY <1>1
  <2>2. all = head \o h
    BY <1>3, Zenon DEF Text
  <2>3. NoUdp(head) /\ NoUdp(h)
    <3>1. \A k \in 1..Len(head) : head[k] = <<"rtcp", "$", item.n>>
      BY <2>1
    <3> QED BY <1>2, <3>1, NobodyAsks, Zenon DEF NoUdp
  <2> HIDE DEF head, h, T
  <2>4. Joined(T, head, h, head \o h)
    BY <2>1, ConcatJoins, Zenon
  <2>5. Joined(T, head, h, all)
    BY <2>2, <2>4, Zenon
  <2> QED BY <2>1, <2>3, <2>5, NoUdpJoined
<1>4. CASE item.m # "RTCP"
  <2>1. RequestText(all, item, i)
    BY <1>4, TextIs
  <2>2. ASSUME NEW k \in 1..Len(all) PROVE ~AsksUdp(all[k])
    <3>1. /\ all[1] = Line(item.m, item.n) /\ all[2] = Eol /\ all[3] = Hdr("CSeq", i) /\ all[4] = Eol
          /\ k >= 5 => all[k] = Eol \/ \E j \in 1..Len(item.h) : all[k] = item.h[j]
      BY <2>1, Zenon DEF RequestText
    <3>2. k = 1 \/ k = 2 \/ k = 3 \/ k = 4 \/ k >= 5
      <4>1. Len(all) \in Nat
        BY <2>1 DEF RequestText
      <4> QED BY <4>1
    <3> QED BY <1>2, <3>1, <3>2, NobodyAsks, Zenon
  <2> QED BY <2>2, Zenon DEF NoUdp
<1> QED BY <1>3, <1>4

\* What c sends, and what is left of it.
LEMMA NoUdpSegment ==
    ASSUME script \in Scripts, script' = script, ClientTyped, NEW c \in Conns, client[c].pend \in Seq(Wire),
           Segment(c) # <<>>, Send(c), OverTcp(c), NoUdp(client[c].pend)
    PROVE  Segment(c) \in Seq(Wire) /\ NoUdp(Segment(c)) /\ NoUdp(client'[c].pend)
<1> DEFINE seg == Segment(c)
           pend == client'[c].pend
           n == client'[c].pos
<1>1. /\ seg \in Seq(Wire) /\ pend \in Seq(Wire)
      /\ \/ seg = client[c].pend /\ pend = <<>>
         \/ /\ n \in 1..Len(script.reqs[c])
            /\ \E t \in Seq(Wire) : t = Text(script.reqs[c][n], n) /\ Joined(Wire, seg, pend, t)
  BY SegmentIs, Zenon
<1> HIDE DEF seg, pend, n
<1>2. CASE seg = client[c].pend /\ pend = <<>>
  BY <1>1, <1>2, NobodyAsks, Zenon DEF seg, pend
<1>3. CASE /\ n \in 1..Len(script.reqs[c])
           /\ \E t \in Seq(Wire) : t = Text(script.reqs[c][n], n) /\ Joined(Wire, seg, pend, t)
  <2>1. PICK t \in Seq(Wire) : t = Text(script.reqs[c][n], n) /\ Joined(Wire, seg, pend, t)
    BY <1>3
  <2>2. script.reqs[c][n] \in Items /\ n \in Nat
    BY <1>3, ScriptIs
  <2>3. \A j \in 1..Len(script.reqs[c][n].h) : script.reqs[c][n].h[j] # Hdr("Transport", Transports.udp)
    BY <1>3, Zenon DEF OverTcp
  <2>4. NoUdp(t)
    BY <2>1, <2>2, <2>3, NoUdpText
  <2>5. NoUdp(seg) /\ NoUdp(pend)
    BY <1>1, <2>1, <2>4, NoUdpJoined
  <2> QED BY <1>1, <2>5 DEF seg, pend
<1> QED BY <1>1, <1>2, <1>3

\* The Transport header a set-up was completed by.
LEMMA NoUdpHeaders ==
    ASSUME NEW S, NEW text \in Seq(S), NoUdp(text), NEW q0, ReqFields(q0), q0.state = "kParseHeadersLine",
           NEW r, r = ParseHeadersLine(q0, text), r.q.state = "kGotAll", r.q.method = "SETUP"
    PROVE  r.q.transport # Transports.udp
<1> DEFINE q == ParseCSeq(q0, text)
           t == ParseTransport(q, text)
           done == [q EXCEPT !.state = "kGotAll"]
           got == [t.q EXCEPT !.channel = ParseMediaChannel(q.arg), !.state = "kGotAll"]
<1>1. \/ r = [ok |-> FALSE, q |-> q]
      \/ r = [ok |-> TRUE, q |-> q]
      \/ r = [ok |-> TRUE, q |-> t.q]
      \/ q.method # "SETUP" /\ r = [ok |-> TRUE, q |-> done]
      \/ t.ok /\ r = [ok |-> TRUE, q |-> got]
  BY Zenon DEF ParseHeadersLine
<1>2. ReqFields(q) /\ q.state = "kParseHeadersLine"
  <2>1. q = ParseCSeq(q0, text)
    OBVIOUS
  <2> HIDE DEF q
  <2>2. ReqFields(q) /\ q.state = q0.state
    BY <2>1, CSeqIs
  <2> QED BY <2>2
<1> HIDE DEF q
<1> DEFINE w == t.q
<1>3. ReqFields(w) /\ w.state = "kParseHeadersLine"
  <2>1. w = ParseTransport(q, text).q
    OBVIOUS
  <2> HIDE DEF w
  <2>2. SameNumber(q, w) /\ w.state = q.state
    BY <1>2, <2>1, TransportIs
  <2> QED BY <1>2, <2>2, Zenon DEF SameNumber
<1>4. done.state = "kGotAll" /\ done.method = q.method
  BY <1>2, Zenon DEF ReqFields
<1>5. r = [ok |-> TRUE, q |-> got] /\ t.ok
  <2> HIDE DEF w, done, got
  <2>1. CASE r = [ok |-> FALSE, q |-> q] \/ r = [ok |-> TRUE, q |-> q]
    <3>1. r.q = q
      BY <2>1
    <3> QED BY <1>2, <3>1
  <2>2. CASE r = [ok |-> TRUE, q |-> t.q]
    <3>1. r.q = w
      BY <2>2 DEF w
    <3> QED BY <1>3, <3>1
  <2>3. CASE q.method # "SETUP" /\ r = [ok |-> TRUE, q |-> done]
    <3>1. r.q = done
      BY <2>3
    <3> QED BY <1>4, <2>3, <3>1
  <2> QED BY <1>1, <2>1, <2>2, <2>3
<1> DEFINE at == Headers(text, "Transport")
           tcp == {k \in at : text[k][3] \in {Transports.tcp, Transports.badTcp}}
           T == IF tcp # {} THEN tcp ELSE at
           x == IF at = {} THEN 0 ELSE text[Min(T)][3]
           mode == CASE x = Transports.badTcp -> Transports.tcp
                     [] x = Transports.badUdp -> Transports.udp
                     [] OTHER -> x
<1>6. /\ t.ok = (x \in {Transports.tcp, Transports.udp, Transports.multicast})
      /\ t.q = IF mode = 0 THEN q ELSE [q EXCEPT !.transport = mode]
  BY Zenon DEF ParseTransport
<1>7. x # Transports.udp
  <2>1. CASE at = {}
    <3>1. x = 0
      BY <2>1
    <3> HIDE DEF x
    <3> QED BY <3>1 DEF Transports
  <2>2. CASE at # {}
    <3>1. T \in SUBSET at /\ T # {}
      BY <2>2
    <3> DEFINE m == Min(T)
    <3> HIDE DEF T, at
    <3>2. m \in at
      <4>1. Min(T) \in T
        BY <3>1, HeadersAre, Zenon DEF at
      <4> QED BY <3>1, <4>1
    <3>3. x = text[m][3]
      BY <2>2, Zenon
    <3> HIDE DEF m, x
    <3>4. m \in 1..Len(text) /\ text[m][1] = "hdr" /\ text[m][2] = "Transport"
      BY <3>2, Zenon DEF at, Headers
    <3> QED BY <3>3, <3>4, Zenon DEF NoUdp, AsksUdp
  <2> QED BY <2>1, <2>2
<1> HIDE DEF x
<1>8. mode = x /\ x # 0
  <2>1. x \in {Transports.tcp, Transports.udp, Transports.multicast}
    BY <1>5, <1>6
  <2>2. /\ Transports.tcp = 1 /\ Transports.udp = 2 /\ Transports.multicast = 3
        /\ Transports.badTcp = 4 /\ Transports.badUdp = 5
    BY DEF Transports
  <2>3. x # Transports.badTcp /\ x # Transports.badUdp /\ x # 0
    BY <2>1, <2>2
  <2> QED BY <2>3
<1> HIDE DEF mode, t
<1>9. t.q = [q EXCEPT !.transport = x]
  BY <1>6, <1>8, Zenon
<1>10. got.transport = x
  BY <1>2, <1>9, Zenon DEF ReqFields
<1> HIDE DEF got
<1>11. r.q = got
  BY <1>5
<1> QED BY <1>7, <1>10, <1>11, Zenon

\* One call of the parser on a text without UDP.
LEMMA NoUdpParsed ==
    ASSUME NEW S, NEW b \in Seq(S), NoUdp(b), NEW q, ReqFields(q),
           q.state \in {"kParseRequestLine", "kParseHeadersLine"}, NEW p, p = ParseRequest(q, b)
    PROVE  /\ NoUdp(p.buf)
           /\ p.q.state = "kGotAll" /\ p.q.method = "SETUP" => p.q.transport # Transports.udp
<1>1. NoUdp(p.buf)
  <2>1. PICK n \in 0..Len(b) : Behind(S, b, n, p.buf)
    BY ParsedIs
  <2> QED BY <2>1, NoUdpBehind
<1> SUFFICES ASSUME p.q.state = "kGotAll", p.q.method = "SETUP" PROVE p.q.transport # Transports.udp
  BY <1>1
<1> DEFINE first == FindCRLF(b)
           taken == q.state = "kParseRequestLine" /\ first > 0
           line == IF taken THEN ParseRequestLine(q, SubSeq(b, 1, first - 1)) ELSE [ok |-> TRUE, q |-> q]
           rest == IF taken THEN SubSeq(b, first + 1, Len(b)) ELSE b
           last == FindLastCRLF(rest)
           text == SubSeq(rest, 1, last - 1)
           h == ParseHeadersLine(line.q, text)
<1>2. CASE b[1][1] = "rtcp"
  <2> DEFINE m == [q EXCEPT !.method = "RTCP"]
  <2>1. p = [ok |-> TRUE, q |-> m, buf |-> b]
    BY <1>2, Zenon DEF ParseRequest
  <2>2. m.state = q.state
    BY MethodIs, Zenon
  <2> HIDE DEF m
  <2>3. p.q = m
    BY <2>1
  <2> QED BY <2>2, <2>3
<1>3. CASE b[1][1] # "rtcp"
  <2>1. p = IF line.q.state = "kParseHeadersLine" /\ last > 0
            THEN [ok |-> h.ok, q |-> h.q, buf |-> SubSeq(rest, last + 1, Len(rest))]
            ELSE [ok |-> line.ok, q |-> line.q, buf |-> rest]
    BY <1>3, Zenon DEF ParseRequest
  <2>2. rest \in Seq(S) /\ NoUdp(rest)
    <3>1. CASE taken
      <4>1. first \in 0..Len(b)
        BY CRLFsAre
      <4> HIDE DEF first
      <4>2. Behind(S, b, first, SubSeq(b, first + 1, Len(b)))
        BY <4>1, BehindCut
      <4>3. NoUdp(SubSeq(b, first + 1, Len(b)))
        BY <4>1, <4>2, NoUdpBehind
      <4>4. rest = SubSeq(b, first + 1, Len(b))
        BY <3>1, Zenon
      <4> QED BY <4>2, <4>3, <4>4, Zenon DEF Behind
    <3>2. CASE ~taken
      <4>1. rest = b
        BY <3>2, Zenon
      <4> QED BY <4>1
    <3> QED BY <3>1, <3>2
  <2>3. ReqFields(line.q) /\ line.q.state \in {"kParseRequestLine", "kParseHeadersLine"}
    <3>1. CASE taken
      <4>1. line = ParseRequestLine(q, SubSeq(b, 1, first - 1))
        BY <3>1, Zenon
      <4> HIDE DEF line, taken, first
      <4>2. SameNumber(q, line.q) /\ line.q.state \in {q.state, "kParseHeadersLine"}
        BY <4>1, RequestLineIs
      <4> QED BY <4>2 DEF SameNumber
    <3>2. CASE ~taken
      <4>1. line = [ok |-> TRUE, q |-> q]
        BY <3>2, Zenon
      <4>2. line.q = q
        BY <4>1
      <4> QED BY <4>2, Zenon
    <3> QED BY <3>1, <3>2
  <2> DEFINE lq == line.q
             lok == line.ok
             u == SubSeq(rest, last + 1, Len(rest))
  <2>4. CASE line.q.state = "kParseHeadersLine" /\ last > 0
    <3>1. p = [ok |-> h.ok, q |-> h.q, buf |-> u]
      BY <2>1, <2>4, Zenon
    <3>2. h = ParseHeadersLine(lq, text) /\ lq.state = "kParseHeadersLine" /\ ReqFields(lq)
      BY <2>3, <2>4
    <3> HIDE DEF h, rest, lq, u
    <3>3. last \in 0..Len(rest) /\ Len(rest) \in Nat
      BY <2>2, CRLFsAre
    <3>4. text \in Seq(S) /\ Len(text) = last - 1 /\ \A i \in 1..(last - 1) : text[i] = rest[i]
      <4>1. last - 1 \in 0..Len(rest)
        BY <2>4, <3>3
      <4> HIDE DEF last
      <4> QED BY <2>2, <4>1, Pieces
    <3> HIDE DEF text
    <3>5. NoUdp(text)
      <4>1. \A k \in 1..Len(text) : k \in 1..Len(rest) /\ text[k] = rest[k]
        BY <3>3, <3>4
      <4> QED BY <2>2, <4>1, Zenon DEF NoUdp
    <3>6. p.q = h.q
      BY <3>1
    <3>7. h.q.state = "kGotAll" /\ h.q.method = "SETUP"
      BY <3>6
    <3>8. h.q.transport # Transports.udp
      BY <3>2, <3>4, <3>5, <3>7, NoUdpHeaders
    <3> QED BY <3>6, <3>8
  <2>5. CASE ~(line.q.state = "kParseHeadersLine" /\ last > 0)
    <3>1. p = [ok |-> lok, q |-> lq, buf |-> rest]
      BY <2>1, <2>5, Zenon
    <3>2. lq.state # "kGotAll"
      BY <2>3
    <3> HIDE DEF lok, lq, rest
    <3>3. p.q = lq
      BY <3>1
    <3> QED BY <3>2, <3>3
  <2> QED BY <2>4, <2>5
<1> QED BY <1>2, <1>3


\* A connection whose writes leave.
Open(c) == conn[c].st = "kConnected" /\ owner[conn[c].fd] = <<"conn", c>>

\* What is to come asks for no UDP, the set-ups made so far did not either,
\* and no number is lost while the packets leave through the connection.
Dry(c) ==
  /\ conn[c].st = "kConnected" => conn[c].fd \in Fds
  /\ NoUdp(conn[c].buf) /\ NoUdp(client[c].pend)
  /\ rtp[c].mode # Transports.udp
  /\ Consecutive(recv[c])
  /\ Open(c) => Follows(rtp[c].ch[0].seq, recv[c])

TcpInv == \A c \in Conns : OverTcp(c) => Dry(c)

\* The kernel gives c no descriptor.
Gains(c) == \E f \in Fds : owner'[f] = <<"conn", c>> /\ owner[f] # <<"conn", c>>

LEMMA DryKept ==
    ASSUME NEW c \in Conns, Dry(c), recv'[c] = recv[c], NoUdp(conn'[c].buf), NoUdp(client'[c].pend),
           rtp'[c].mode # Transports.udp, conn'[c].st = "kConnected" => conn'[c].fd \in Fds,
           Open(c)' => recv[c] = <<>> \/ (Open(c) /\ rtp'[c].ch[0].seq = rtp[c].ch[0].seq)
    PROVE  Dry(c)'
<1>1. Consecutive(recv'[c])
  BY Zenon DEF Dry
<1>2. Open(c)' => Follows(rtp'[c].ch[0].seq, recv'[c])
  <2>1. CASE recv[c] = <<>>
    BY <2>1, NothingReceived, Zenon
  <2>2. CASE Open(c)' /\ Open(c) /\ rtp'[c].ch[0].seq = rtp[c].ch[0].seq
    BY <2>2, Zenon DEF Dry
  <2> QED BY <2>1, <2>2
<1> QED BY <1>1, <1>2, Zenon DEF Dry

\* The connection of c is not begun by this step.
LEMMA DryStays ==
    ASSUME NEW c \in Conns, Dry(c), recv'[c] = recv[c], NoUdp(conn'[c].buf), NoUdp(client'[c].pend),
           rtp'[c].mode # Transports.udp, ~Gains(c),
           conn'[c].st = "kConnected" => conn[c].st = "kConnected" /\ conn'[c].fd = conn[c].fd,
           conn'[c].st = "kConnected" => recv[c] = <<>> \/ rtp'[c].ch[0].seq = rtp[c].ch[0].seq
    PROVE  Dry(c)'
<1>1. conn'[c].st = "kConnected" => conn'[c].fd \in Fds
  BY Zenon DEF Dry
<1>2. Open(c)' => Open(c)
  BY <1>1, Zenon DEF Open, Gains
<1>3. Open(c)' => conn'[c].st = "kConnected"
  BY Zenon DEF Open
<1> QED BY <1>1, <1>2, <1>3, DryKept

LEMMA DrySame ==
    ASSUME NEW c \in Conns, Dry(c), recv'[c] = recv[c], conn'[c] = conn[c], client'[c] = client[c],
           rtp'[c] = rtp[c], ~Gains(c)
    PROVE  Dry(c)'
<1>1. NoUdp(conn'[c].buf) /\ NoUdp(client'[c].pend) /\ rtp'[c].mode # Transports.udp
  BY Zenon DEF Dry
<1> QED BY <1>1, DryStays

\* What a step has to keep of each connection.
LEMMA TcpKept ==
    ASSUME TcpInv, script' = script, \A c \in Conns : OverTcp(c) /\ Dry(c) => Dry(c)'
    PROVE  TcpInv'
<1>1. \A c \in Conns : OverTcp(c)' <=> OverTcp(c)
  BY Zenon DEF OverTcp
<1> QED BY <1>1, Zenon DEF TcpInv

LEMMA NobodyGains ==
    /\ \A c \in Conns : UNCHANGED owner => ~Gains(c)
    /\ \A S : \A c \in Conns : owner' = Close(owner, S) => ~Gains(c)
<1>1. \A c \in Conns : UNCHANGED owner => ~Gains(c)
  BY Zenon DEF Gains
<1>2. ASSUME NEW S, NEW c \in Conns, owner' = Close(owner, S) PROVE ~Gains(c)
  <2>1. ASSUME NEW f \in Fds, owner'[f] = <<"conn", c>> PROVE owner[f] = <<"conn", c>>
    <3>1. owner'[f] = Free \/ owner'[f] = owner[f]
      BY <1>2, CloseIs
    <3>2. Free # <<"conn", c>>
      BY DEF Free
    <3> QED BY <2>1, <3>1, <3>2, Zenon
  <2> QED BY <2>1, Zenon DEF Gains
<1> QED BY <1>1, <1>2

LEMMA ModeKept ==
    /\ \A r : RtpShape(r) => /\ StartPlay(r).mode = r.mode /\ Teardown(r).mode = r.mode
                             /\ SetRtpHeader(r).mode = r.mode
    /\ DeadRtp.mode # Transports.udp /\ NewRtp.mode # Transports.udp
    /\ Transports.tcp # Transports.udp
<1>1. ASSUME NEW r, RtpShape(r)
      PROVE  /\ StartPlay(r).mode = r.mode /\ Teardown(r).mode = r.mode
             /\ SetRtpHeader(r).mode = r.mode
  <2>1. {"alive", "closed", "idr", "mode", "ch"} \subseteq DOMAIN r
    BY <1>1, Zenon DEF RtpShape
  <2>2. StartPlay(r).mode = r.mode
    BY <2>1, Zenon DEF StartPlay
  <2>3. Teardown(r).mode = r.mode
    BY <2>1, Zenon DEF Teardown
  <2>4. SetRtpHeader(r).mode = r.mode
    BY <2>1, Zenon DEF SetRtpHeader
  <2> QED BY <2>2, <2>3, <2>4
<1>2. NewRtp.mode = 0 /\ DeadRtp.mode = 0
  <2>1. NewRtp.mode = 0 /\ {"alive", "closed", "idr", "mode", "ch"} \subseteq DOMAIN NewRtp
    BY Zenon DEF NewRtp
  <2>2. DeadRtp.mode = 0
    BY <2>1, Zenon DEF DeadRtp
  <2> QED BY <2>1, <2>2
<1>3. Transports.udp = 2 /\ Transports.tcp = 1
  BY DEF Transports
<1> QED BY <1>1, <1>2, <1>3

LEMMA TcpAccept ==
    ASSUME Inv, SeqInv, TcpInv, NEW c \in Conns, Accept(c) \/ AcceptEMFILE(c)
    PROVE  TcpInv'
<1> DEFINE fd == LowestFree(owner, 1)
           new == [NoConn EXCEPT !.st = "kConnected", !.fd = fd]
<1>1. /\ ConnTyped /\ DOMAIN owner = Fds /\ conn[c].st = "none" /\ UNCHANGED <<rtp, script, client, recv>>
      /\ \/ UNCHANGED <<owner, conn>>
         \/ fd # 0 /\ owner' = [owner EXCEPT ![fd] = <<"conn", c>>] /\ conn' = [conn EXCEPT ![c] = new]
         \/ conn' = [conn EXCEPT ![c].st = "refused"] /\ AcceptEMFILE(c)
  BY ZenonT(60) DEF Accept, AcceptEMFILE, Inv, Typed
<1>2. new.st = "kConnected" /\ new.fd = fd /\ new.buf = <<>>
  <2>1. {"st", "fd", "buf", "req", "sess"} \subseteq DOMAIN NoConn /\ NoConn.buf = <<>>
    BY DEF NoConn
  <2> QED BY <2>1, Zenon
<1>3. recv[c] = <<>>
  BY <1>1, Zenon DEF SeqInv, SeqOK
<1>4. ASSUME NEW d \in Conns, d # c, Dry(d), conn'[d] = conn[d], ~Gains(d) PROVE Dry(d)'
  <2>1. recv'[d] = recv[d] /\ client'[d] = client[d] /\ rtp'[d] = rtp[d]
    BY <1>1, Zenon
  <2> QED BY <1>4, <2>1, DrySame
<1>5. ASSUME Dry(c), NoUdp(conn'[c].buf), conn'[c].st = "kConnected" => conn'[c].fd \in Fds PROVE Dry(c)'
  <2>1. /\ recv'[c] = recv[c] /\ NoUdp(client'[c].pend) /\ rtp'[c].mode # Transports.udp
    BY <1>1, <1>5, Zenon DEF Dry
  <2> QED BY <1>3, <1>5, <2>1, DryKept
<1> HIDE DEF fd, new
<1>6. CASE UNCHANGED <<owner, conn>>
  <2>1. ASSUME NEW d \in Conns, Dry(d) PROVE Dry(d)'
    <3>1. recv'[d] = recv[d] /\ client'[d] = client[d] /\ rtp'[d] = rtp[d] /\ conn'[d] = conn[d] /\ ~Gains(d)
      BY <1>1, <1>6, NobodyGains, Zenon
    <3> QED BY <2>1, <3>1, DrySame
  <2> QED BY <1>1, <2>1, TcpKept
<1>7. CASE fd # 0 /\ owner' = [owner EXCEPT ![fd] = <<"conn", c>>] /\ conn' = [conn EXCEPT ![c] = new]
  <2>1. conn'[c] = new /\ \A d \in Conns : d # c => conn'[d] = conn[d]
    BY <1>1, <1>7, PutConn, Zenon
  <2>2. fd \in Fds
    BY <1>7, LowestFreeIs DEF fd
  <2>3. ASSUME NEW d \in Conns, d # c PROVE ~Gains(d)
    <3>1. ASSUME NEW f \in Fds, owner'[f] = <<"conn", d>> PROVE owner[f] = <<"conn", d>>
      <4>1. owner'[f] = <<"conn", c>> \/ owner'[f] = owner[f]
        BY <1>1, <1>7
      <4>2. <<"conn", c>> # <<"conn", d>>
        BY <2>3
      <4> QED BY <3>1, <4>1, <4>2, Zenon
    <3> QED BY <3>1, Zenon DEF Gains
  <2>4. Dry(c) => Dry(c)'
    <3>1. NoUdp(conn'[c].buf) /\ (conn'[c].st = "kConnected" => conn'[c].fd \in Fds)
      BY <1>2, <2>1, <2>2, NobodyAsks, Zenon
    <3> QED BY <1>5, <3>1
  <2>5. \A d \in Conns : Dry(d) => Dry(d)'
    BY <1>4, <2>1, <2>3, <2>4
  <2> QED BY <1>1, <2>5, TcpKept
<1>8. CASE conn' = [conn EXCEPT ![c].st = "refused"] /\ AcceptEMFILE(c)
  <2>1. /\ conn'[c].st = "refused" /\ conn'[c].buf = conn[c].buf
        /\ \A d \in Conns : d # c => conn'[d] = conn[d]
    BY <1>1, <1>8, Zenon DEF ConnTyped, ConnShape
  <2>2. ASSUME NEW d \in Conns PROVE ~Gains(d)
    <3> DEFINE S1 == {idleFd}
               S2 == {LowestFree(Close(owner, S1), 1)}
               o1 == Close(owner, S1)
    <3>1. owner' = [o1 EXCEPT ![idleFd'] = <<"idle", 0>>]
      BY <1>8, Zenon DEF AcceptEMFILE
    <3>2. DOMAIN o1 = Fds /\ \A f \in Fds : o1[f] = Free \/ o1[f] = owner[f]
      BY CloseIs
    <3> HIDE DEF o1
    <3>3. <<"idle", 0>> # <<"conn", d>> /\ Free # <<"conn", d>>
      BY DEF Free
    <3>4. ASSUME NEW f \in Fds, owner'[f] = <<"conn", d>> PROVE owner[f] = <<"conn", d>>
      <4>1. owner'[f] = <<"idle", 0>> \/ owner'[f] = o1[f]
        BY <3>1, <3>2
      <4> QED BY <3>2, <3>3, <3>4, <4>1, Zenon
    <3> QED BY <3>4, Zenon DEF Gains
  <2>3. Dry(c) => Dry(c)'
    <3>1. conn'[c].st # "kConnected"
      BY <2>1
    <3> QED BY <1>5, <2>1, <3>1, Zenon DEF Dry
  <2>4. \A d \in Conns : Dry(d) => Dry(d)'
    BY <1>4, <2>1, <2>2, <2>3
  <2> QED BY <1>1, <2>4, TcpKept
<1> QED BY <1>1, <1>6, <1>7, <1>8

LEMMA TcpHandleClose ==
    ASSUME Inv, TcpInv, NEW c \in Conns, HandleClose(c)
    PROVE  TcpInv'
<1> DEFINE new == [NoConn EXCEPT !.st = "kDisconnected", !.fd = conn[c].fd]
<1>1. /\ ConnTyped /\ RtpTyped /\ UNCHANGED <<script, client, recv>>
      /\ conn' = [conn EXCEPT ![c] = new]
      /\ \/ rtp' = [rtp EXCEPT ![c] = DeadRtp] /\ owner' = Close(owner, RtpFds(c))
         \/ UNCHANGED <<owner, rtp>>
  BY Zenon DEF HandleClose, DestroyRtp, Inv, Typed
<1>2. new.st = "kDisconnected" /\ new.buf = <<>>
  BY AnewIs, Zenon
<1> HIDE DEF new
<1>3. conn'[c] = new /\ \A d \in Conns : d # c => conn'[d] = conn[d]
  BY <1>1, PutConn, Zenon
<1>4. /\ rtp'[c] = DeadRtp \/ rtp'[c] = rtp[c]
      /\ \A d \in Conns : d # c => rtp'[d] = rtp[d]
  BY <1>1, PutRtp, Zenon
<1>5. \A d \in Conns : ~Gains(d)
  BY <1>1, NobodyGains, Zenon
<1>6. ASSUME Dry(c) PROVE Dry(c)'
  <2>1. rtp'[c].mode # Transports.udp
    BY <1>4, <1>6, ModeKept, Zenon DEF Dry
  <2>2. recv'[c] = recv[c] /\ NoUdp(conn'[c].buf) /\ NoUdp(client'[c].pend)
    BY <1>1, <1>2, <1>3, <1>6, NobodyAsks, Zenon DEF Dry
  <2>3. conn'[c].st # "kConnected"
    BY <1>2, <1>3
  <2> QED BY <1>5, <1>6, <2>1, <2>2, <2>3, DryStays
<1>7. ASSUME NEW d \in Conns, d # c, Dry(d) PROVE Dry(d)'
  <2>1. recv'[d] = recv[d] /\ client'[d] = client[d]
    BY <1>1, Zenon
  <2> QED BY <1>3, <1>4, <1>5, <1>7, <2>1, DrySame
<1>8. \A d \in Conns : Dry(d) => Dry(d)'
  BY <1>6, <1>7
<1> QED BY <1>1, <1>8, TcpKept

LEMMA TcpConnectDestroyed ==
    ASSUME Inv, TcpInv, ConnectDestroyed
    PROVE  TcpInv'
<1> DEFINE h == Head(batch).c
           new == [NoConn EXCEPT !.st = "gone"]
<1>1. /\ ConnTyped /\ LoopTyped /\ phase = "functors" /\ PopFunctor
      /\ UNCHANGED <<script, client, recv, rtp>>
      /\ conn' = [conn EXCEPT ![h] = new] /\ owner' = Close(owner, {conn[h].fd})
  BY Zenon DEF ConnectDestroyed, Inv, Typed
<1>2. h \in Conns
  BY <1>1, Popped DEF Functors
<1>3. new.st = "gone" /\ new.buf = <<>>
  BY AnewIs, Zenon
<1> DEFINE S == {conn[h].fd}
<1> HIDE DEF new, h
<1>4. PICK c \in Conns : c = h
  BY <1>2
<1>5. conn'[c] = new /\ \A d \in Conns : d # c => conn'[d] = conn[d]
  BY <1>1, <1>4, PutConn, Zenon
<1>6. \A d \in Conns : ~Gains(d)
  <2>1. owner' = Close(owner, S)
    BY <1>1
  <2> HIDE DEF S
  <2> QED BY <2>1, NobodyGains, Zenon
<1>7. ASSUME Dry(c) PROVE Dry(c)'
  <2>1. recv'[c] = recv[c] /\ NoUdp(conn'[c].buf) /\ NoUdp(client'[c].pend) /\ rtp'[c].mode # Transports.udp
    BY <1>1, <1>2, <1>3, <1>5, <1>7, NobodyAsks, Zenon DEF Dry
  <2>2. conn'[c].st # "kConnected"
    BY <1>3, <1>5
  <2> QED BY <1>6, <1>7, <2>1, <2>2, DryStays
<1>8. ASSUME NEW d \in Conns, d # c, Dry(d) PROVE Dry(d)'
  <2>1. recv'[d] = recv[d] /\ client'[d] = client[d] /\ rtp'[d] = rtp[d]
    BY <1>1, Zenon
  <2> QED BY <1>5, <1>6, <1>8, <2>1, DrySame
<1>9. \A d \in Conns : Dry(d) => Dry(d)'
  BY <1>7, <1>8
<1> QED BY <1>1, <1>9, TcpKept

LEMMA TcpDropReferences ==
    ASSUME Inv, TcpInv, DropReferences
    PROVE  TcpInv'
<1> DEFINE dead == {c \in sender.held : ~HasRtsp(c)}
           gone == UNION {RtpFds(c) : c \in dead}
<1>1. /\ rtp' = [c \in Conns |-> IF c \in dead THEN DeadRtp ELSE rtp[c]]
      /\ owner' = Close(owner, gone) /\ UNCHANGED <<conn, script, client, recv>>
  BY Zenon DEF DropReferences, senderKeeps
<1>2. \A c \in dead : ~Rtsp(conn[c])
  BY TheFunctions, Zenon
<1> HIDE DEF dead, gone
<1>3. ASSUME NEW c \in Conns, Dry(c) PROVE Dry(c)'
  <2>1. recv'[c] = recv[c] /\ conn'[c] = conn[c] /\ client'[c] = client[c] /\ ~Gains(c)
    BY <1>1, NobodyGains, Zenon
  <2>2. CASE c \in dead
    <3>1. rtp'[c] = DeadRtp
      BY <1>1, <2>2
    <3>2. conn'[c].st # "kConnected"
      BY <1>2, <2>1, <2>2 DEF Rtsp
    <3>3. NoUdp(conn'[c].buf) /\ NoUdp(client'[c].pend) /\ rtp'[c].mode # Transports.udp
      BY <1>3, <2>1, <3>1, ModeKept, Zenon DEF Dry
    <3> QED BY <1>3, <2>1, <3>2, <3>3, DryStays
  <2>3. CASE c \notin dead
    <3>1. rtp'[c] = rtp[c]
      BY <1>1, <2>3
    <3> QED BY <1>3, <2>1, <3>1, DrySame
  <2> QED BY <2>2, <2>3
<1> QED BY <1>1, <1>3, TcpKept

\* setRtpHeader(), whatever the channel's set-up.
LEMMA HeaderNumbers ==
    ASSUME NEW r, RtpShape(r)
    PROVE  /\ r.ch[0].play => SetRtpHeader(r).ch[0].seq = (r.ch[0].seq + 1) % SeqModulus
           /\ ~r.ch[0].play => SetRtpHeader(r).ch[0].seq = r.ch[0].seq
<1> DEFINE x == IF r.ch[0].play THEN (r.ch[0].seq + 1) % SeqModulus ELSE r.ch[0].seq
<1>1. /\ ChannelShape(r.ch[0]) /\ {"alive", "closed", "idr", "mode", "ch"} \subseteq DOMAIN r
      /\ DOMAIN r.ch = Channels /\ 0 \in Channels
  BY ChannelNumbers, Zenon DEF RtpShape
<1>2. SetRtpHeader(r).ch[0].seq = x
  BY <1>1, Zenon DEF SetRtpHeader, ChannelShape
<1> QED BY <1>2, Zenon

\* A packet takes the next number; over TCP it leaves or finds no connection.
LEMMA TcpSendPacket ==
    ASSUME Inv, RecvTyped, TcpInv, SendPacket
    PROVE  TcpInv'
<1>1. LoopTyped /\ RtpTyped /\ phase = "functors" /\ PopFunctor /\ UNCHANGED <<owner, conn, script, client>>
  BY Zenon DEF SendPacket, Inv, Typed
<1>2. Head(batch) \in Functors
  BY <1>1, Popped
<1>3. PICK c \in Conns : c = Head(batch).c
  BY <1>2 DEF Functors
<1> DEFINE r == rtp[c]
           packet(port) == [frame |-> Head(batch).frame, part |-> Head(batch).part, seq |-> rtp[c].ch[0].seq,
                            port |-> port]
           Sent(port) == recv' = [recv EXCEPT ![c] = Append(recv[c], packet(port))]
           Header == rtp' = [rtp EXCEPT ![c] = SetRtpHeader(rtp[c])]
<1>3a. \/ UNCHANGED <<rtp, recv>>
       \/ ~r.ch[0].play /\ Header /\ UNCHANGED recv
       \/ /\ r.ch[0].play /\ Header
          /\ IF conn[c].st = "kConnected" /\ HasSocket(c) THEN Sent("interleaved") ELSE UNCHANGED recv
       \/ /\ r.mode = Transports.udp /\ ((\E port \in UdpPorts : Sent(port)) \/ UNCHANGED recv)
          /\ \/ Header
             \/ rtp' = [rtp EXCEPT ![c] = Teardown(SetRtpHeader(rtp[c]))]
  BY <1>3, ZenonT(60) DEF SendPacket
<1> HIDE DEF packet, Header
<1>3b. PICK port \in Ports :
         \/ UNCHANGED <<rtp, recv>>
         \/ ~r.ch[0].play /\ Header /\ UNCHANGED recv
         \/ /\ r.ch[0].play /\ Header
            /\ IF conn[c].st = "kConnected" /\ HasSocket(c) THEN Sent(port) ELSE UNCHANGED recv
         \/ /\ r.mode = Transports.udp /\ (Sent(port) \/ UNCHANGED recv)
            /\ \/ Header
               \/ rtp' = [rtp EXCEPT ![c] = Teardown(SetRtpHeader(rtp[c]))]
  <2>1. "interleaved" \in Ports /\ UdpPorts \subseteq Ports
    BY DEF Ports
  <2> HIDE DEF Sent
  <2> QED BY <1>3a, <2>1, Zenon
<1> DEFINE pkt == packet(port)
           Deliver == recv' = [recv EXCEPT ![c] = Append(recv[c], pkt)]
<1>4. \/ UNCHANGED <<rtp, recv>>
      \/ ~r.ch[0].play /\ Header /\ UNCHANGED recv
      \/ /\ r.ch[0].play /\ Header
         /\ IF conn[c].st = "kConnected" /\ HasSocket(c) THEN Deliver ELSE UNCHANGED recv
      \/ /\ r.mode = Transports.udp /\ (Deliver \/ UNCHANGED recv)
         /\ \/ Header
            \/ rtp' = [rtp EXCEPT ![c] = Teardown(SetRtpHeader(rtp[c]))]
  BY <1>3b
<1> USE DEF Header
<1>5. RtpShape(r) /\ SetRtpHeader(r).mode = r.mode
  BY <1>1, ModeKept, Zenon DEF RtpTyped
<1>6. /\ r.ch[0].play => SetRtpHeader(r).ch[0].seq = (r.ch[0].seq + 1) % SeqModulus
      /\ ~r.ch[0].play => SetRtpHeader(r).ch[0].seq = r.ch[0].seq
  BY <1>5, HeaderNumbers
<1>7. pkt \in Packets /\ pkt.seq = r.ch[0].seq
  <2>1. rtp[c].ch[0].seq \in Nat
    BY <1>1, ChannelNumbers, Zenon DEF RtpTyped, RtpShape, ChannelShape
  <2> QED BY <1>2, <2>1 DEF Packets, Functors, packet
<1>8. DOMAIN recv = Conns /\ recv[c] \in Seq(Packets)
  BY Zenon DEF RecvTyped
<1> HIDE DEF pkt
<1>9. Header => rtp'[c] = SetRtpHeader(r)
  BY <1>1, PutRtp, Zenon
<1>10. \/ UNCHANGED rtp
       \/ \E x : rtp' = [rtp EXCEPT ![c] = x]
  BY <1>4, Zenon
<1>11. \A d \in Conns : d # c => rtp'[d] = rtp[d] /\ recv'[d] = recv[d]
  <2>1. \A d \in Conns : d # c => rtp'[d] = rtp[d]
    BY <1>1, <1>10, PutRtp, Zenon
  <2>2. Deliver \/ UNCHANGED recv
    BY <1>4, Zenon
  <2>3. \A d \in Conns : d # c => recv'[d] = recv[d]
    BY <1>8, <2>2, Zenon
  <2> QED BY <2>1, <2>3
<1>12. conn'[c] = conn[c] /\ client'[c] = client[c] /\ (\A d \in Conns : ~Gains(d)) /\ (Open(c)' <=> Open(c))
  BY <1>1, NobodyGains, Zenon DEF Open
<1>13. Open(c) <=> conn[c].st = "kConnected" /\ HasSocket(c)
  <2>1. conn[c].st = "kConnected" => Rtsp(conn[c])
    BY DEF Rtsp
  <2> QED BY <2>1, TheFunctions, Zenon DEF Open, HasSocket
<1>14. ASSUME NEW d \in Conns, d # c, Dry(d) PROVE Dry(d)'
  <2>1. conn'[d] = conn[d] /\ client'[d] = client[d] /\ rtp'[d] = rtp[d] /\ recv'[d] = recv[d] /\ ~Gains(d)
    BY <1>1, <1>11, <1>12, <1>14, Zenon
  <2> QED BY <1>14, <2>1, DrySame
<1>15. ASSUME Dry(c) PROVE Dry(c)'
  <2>1. r.mode # Transports.udp /\ NoUdp(conn'[c].buf) /\ NoUdp(client'[c].pend)
    BY <1>12, <1>15, Zenon DEF Dry
  <2>2. CASE UNCHANGED <<rtp, recv>>
    <3>1. recv'[c] = recv[c] /\ rtp'[c] = rtp[c] /\ ~Gains(c)
      BY <1>12, <2>2, Zenon
    <3> QED BY <1>12, <1>15, <3>1, DrySame
  <2>3. CASE ~r.ch[0].play /\ Header /\ UNCHANGED recv
    <3>1. recv'[c] = recv[c] /\ rtp'[c].ch[0].seq = rtp[c].ch[0].seq /\ rtp'[c].mode # Transports.udp
      BY <1>5, <1>6, <1>9, <2>1, <2>3, Zenon
    <3>2. conn'[c].st = conn[c].st /\ conn'[c].fd = conn[c].fd /\ ~Gains(c)
      BY <1>12, Zenon
    <3> QED BY <1>15, <2>1, <3>1, <3>2, DryStays
  <2>4. CASE /\ r.ch[0].play /\ Header
             /\ IF conn[c].st = "kConnected" /\ HasSocket(c) THEN Deliver ELSE UNCHANGED recv
    <3>1. rtp'[c] = SetRtpHeader(r) /\ rtp'[c].mode # Transports.udp
      BY <1>5, <1>9, <2>1, <2>4, Zenon
    <3>2. CASE ~Open(c)
      <4>1. recv'[c] = recv[c]
        BY <1>13, <2>4, <3>2, Zenon
      <4>2. conn'[c].st = "kConnected" => conn'[c].fd \in Fds
        BY <1>12, <1>15, Zenon DEF Dry
      <4> QED BY <1>12, <1>15, <2>1, <3>1, <3>2, <4>1, <4>2, DryKept
    <3>3. CASE Open(c)
      <4>1. recv'[c] = Append(recv[c], pkt)
        BY <1>8, <1>13, <2>4, <3>3, Zenon
      <4>2. Consecutive(recv[c]) /\ Follows(pkt.seq, recv[c])
        BY <1>7, <1>15, <3>3, Zenon DEF Dry
      <4>3. Consecutive(Append(recv[c], pkt)) /\ Follows((pkt.seq + 1) % SeqModulus, Append(recv[c], pkt))
        BY <1>7, <1>8, <4>2, Numbered
      <4>4. rtp'[c].ch[0].seq = (pkt.seq + 1) % SeqModulus
        BY <1>6, <1>7, <2>4, <3>1, Zenon
      <4>5. conn'[c].st = "kConnected" => conn'[c].fd \in Fds
        BY <1>12, <1>15, Zenon DEF Dry
      <4> QED BY <2>1, <3>1, <4>1, <4>3, <4>4, <4>5, Zenon DEF Dry
    <3> QED BY <3>2, <3>3
  <2> QED BY <1>4, <2>1, <2>2, <2>3, <2>4
<1>16. \A d \in Conns : Dry(d) => Dry(d)'
  BY <1>14, <1>15
<1> QED BY <1>1, <1>16, TcpKept

\* What a request leaves of the RtpConnection of a client that asks for no UDP:
\* over how it is sent, and the next number unless nothing has been received.
Steady(c) ==
  /\ rtp'[c].mode # Transports.udp
  /\ recv[c] = <<>> \/ rtp'[c].ch[0].seq = rtp[c].ch[0].seq

\* The parser and the connection after a segment.
LEMMA DrySegment ==
    ASSUME TalkInv, ConnTyped, fault = "none", script' = script, recv' = recv, NEW c \in Conns, OverTcp(c), Dry(c),
           Segment(c) # <<>>, Send(c), NEW p, p = ParseRequest(conn[c].req, conn[c].buf \o Segment(c))
    PROVE  /\ NoUdp(p.buf) /\ NoUdp(client'[c].pend)
           /\ p.q.state = "kGotAll" /\ p.q.method = "SETUP" => p.q.transport # Transports.udp
<1> DEFINE b == conn[c].buf
           seg == Segment(c)
           q == conn[c].req
           e == b \o seg
<1>1. /\ script \in Scripts /\ ClientTyped /\ client[c].pend \in Seq(Wire) /\ b \in Seq(Wire) /\ ReqFields(q)
      /\ q.state \in {"kParseRequestLine", "kParseHeadersLine"}
  BY Zenon DEF TalkInv, Talk, InLine
<1>2. NoUdp(b) /\ NoUdp(client[c].pend)
  BY Zenon DEF Dry
<1>3. seg \in Seq(Wire) /\ NoUdp(seg) /\ NoUdp(client'[c].pend)
  BY <1>1, <1>2, NoUdpSegment
<1>4. p = ParseRequest(q, e)
  OBVIOUS
<1> HIDE DEF b, seg, q
<1>5. Joined(Wire, b, seg, e)
  BY <1>1, <1>3, ConcatJoins
<1> HIDE DEF e
<1>6. e \in Seq(Wire) /\ NoUdp(e)
  <2>1. e \in Seq(Wire)
    BY <1>5 DEF Joined
  <2> QED BY <1>1, <1>2, <1>3, <1>5, <2>1, NoUdpJoined
<1> QED BY <1>1, <1>3, <1>4, <1>6, NoUdpParsed

\* The request of c, and the connection it leaves.
LEMMA DryRequest ==
    ASSUME ConnTyped, recv' = recv, NEW c \in Conns, Dry(c), Steady(c), ~Gains(c),
           NoUdp(client'[c].pend), NEW p, NoUdp(p.buf), Rtsp(conn[c]), ReqShape(p.q),
           \/ UNCHANGED conn
           \/ \E b \in {p.buf, <<>>} : conn' = [conn EXCEPT ![c].req = p.q, ![c].buf = Trim(b)]
           \/ \E status, sess : \E st \in {conn[c].st, "kDisconnecting"} : Answer(c, p, status, sess, st)
    PROVE  Dry(c)'
<1>1. NoUdp(Trim(p.buf)) /\ NoUdp(Trim(<<>>))
  BY TrimIs, NobodyAsks, Zenon
<1>2. /\ NoUdp(conn'[c].buf) /\ conn'[c].st \in {conn[c].st, "kDisconnecting"} /\ conn'[c].fd = conn[c].fd
  <2>1. CASE UNCHANGED conn
    BY <2>1, Zenon DEF Dry
  <2>2. ASSUME NEW b \in {p.buf, <<>>}, conn' = [conn EXCEPT ![c].req = p.q, ![c].buf = Trim(b)]
        PROVE  NoUdp(conn'[c].buf) /\ conn'[c].st \in {conn[c].st, "kDisconnecting"} /\ conn'[c].fd = conn[c].fd
    <3> DEFINE t == Trim(b)
               q == p.q
    <3>1. conn' = [conn EXCEPT ![c].req = q, ![c].buf = t] /\ NoUdp(t) /\ ReqShape(q)
      BY <1>1, <2>2
    <3> HIDE DEF t, q
    <3>2. /\ conn'[c].req = q /\ conn'[c].buf = t /\ conn'[c].st = conn[c].st
          /\ \A d \in Conns : d # c => conn'[d] = conn[d]
      BY <3>1, ParsedConn
    <3>3. SameConns
      BY <3>1, ParsingIs
    <3> QED BY <3>1, <3>2, <3>3, Zenon DEF SameConns
  <2>3. ASSUME NEW status, NEW sess, NEW st \in {conn[c].st, "kDisconnecting"}, Answer(c, p, status, sess, st)
        PROVE  NoUdp(conn'[c].buf) /\ conn'[c].st \in {conn[c].st, "kDisconnecting"} /\ conn'[c].fd = conn[c].fd
    <3>1. conn'[c].buf = Trim(p.buf) /\ conn'[c].st = st
      BY <2>3, AnsweredConn
    <3>2. st \in {"kConnected", "kDisconnecting"}
      BY DEF Rtsp
    <3>3. SameConns
      BY <2>3, <3>2, AnswerIs
    <3> QED BY <1>1, <3>1, <3>3, Zenon DEF SameConns
  <2> QED BY <2>1, <2>2, <2>3
<1>3. recv'[c] = recv[c] /\ rtp'[c].mode # Transports.udp
      /\ (recv[c] = <<>> \/ rtp'[c].ch[0].seq = rtp[c].ch[0].seq)
  BY Zenon DEF Steady
<1>4. conn'[c].st = "kConnected" => conn[c].st = "kConnected" /\ conn'[c].fd = conn[c].fd
  BY <1>2
<1> QED BY <1>2, <1>3, <1>4, DryStays

LEMMA TcpRequest ==
    ASSUME Inv, TalkInv, TcpInv, fault = "none", script' = script, recv' = recv, NEW c \in Conns, Rtsp(conn[c]),
           Segment(c) # <<>>, Send(c), NEW p, p = ParseRequest(conn[c].req, conn[c].buf \o Segment(c)), ReqShape(p.q),
           \/ UNCHANGED conn
           \/ \E b \in {p.buf, <<>>} : conn' = [conn EXCEPT ![c].req = p.q, ![c].buf = Trim(b)]
           \/ \E status, sess : \E st \in {conn[c].st, "kDisconnecting"} : Answer(c, p, status, sess, st),
           \A d \in Conns : d # c => rtp'[d] = rtp[d],
           \A d \in Conns : ~Gains(d),
           OverTcp(c) /\ Dry(c) => Steady(c)
    PROVE  TcpInv'
<1>1. ConnTyped /\ script \in Scripts /\ ClientTyped /\ client[c].pend \in Seq(Wire)
  BY Zenon DEF Inv, Typed, TalkInv, Talk, InLine
<1>2. \A d \in Conns : d # c => client'[d] = client[d]
  BY <1>1, SegmentIs
<1>3. \A d \in Conns : d # c => conn'[d] = conn[d]
  <2>1. CASE UNCHANGED conn
    BY <2>1
  <2>2. ASSUME NEW b \in {p.buf, <<>>}, conn' = [conn EXCEPT ![c].req = p.q, ![c].buf = Trim(b)]
        PROVE  \A d \in Conns : d # c => conn'[d] = conn[d]
    <3> DEFINE t == Trim(b)
               q == p.q
    <3>1. conn' = [conn EXCEPT ![c].req = q, ![c].buf = t]
      BY <2>2
    <3> HIDE DEF t, q
    <3> QED BY <1>1, <3>1, ParsedConn
  <2>3. ASSUME NEW status, NEW sess, NEW st \in {conn[c].st, "kDisconnecting"}, Answer(c, p, status, sess, st)
        PROVE  \A d \in Conns : d # c => conn'[d] = conn[d]
    BY <1>1, <2>3, AnsweredConn
  <2> QED BY <2>1, <2>2, <2>3
<1>4. ASSUME NEW d \in Conns, d # c, Dry(d) PROVE Dry(d)'
  <2>1. conn'[d] = conn[d] /\ client'[d] = client[d] /\ rtp'[d] = rtp[d] /\ recv'[d] = recv[d]
    BY <1>2, <1>3, <1>4, Zenon
  <2> QED BY <1>4, <2>1, DrySame
<1>5. ASSUME OverTcp(c), Dry(c) PROVE Dry(c)'
  <2>1. NoUdp(p.buf) /\ NoUdp(client'[c].pend)
    BY <1>1, <1>5, DrySegment
  <2>2. Steady(c)
    BY <1>5
  <2> QED BY <1>1, <1>5, <2>1, <2>2, DryRequest
<1>6. \A d \in Conns : OverTcp(d) /\ Dry(d) => Dry(d)'
  BY <1>4, <1>5
<1> QED BY <1>6, TcpKept

\* A set-up, with the transport the client asked for.
LEMMA SetUpOver ==
    ASSUME NEW c, NEW p, HandleCmdSetup(c, p)
    PROVE  /\ p.q.method = "SETUP"
           /\ \E status \in {200, 461, 500} : Answer(c, p, status, conn[c].sess, conn[c].st)
           /\ \/ UNCHANGED <<owner, rtp>>
              \/ SetupRtpOverTcp(c, p.q.channel) /\ LookId(conn[c].sess)
              \/ /\ p.q.transport = Transports.udp /\ LookId(conn[c].sess)
                 /\ SetupRtpOverUdp(c, p.q.channel) \/ SetupRtpOverUdpFails(c, p.q.channel)
<1>1. p.q.method = "SETUP"
  BY Zenon DEF HandleCmdSetup
<1>2. \/ Answer(c, p, 500, conn[c].sess, conn[c].st) \/ Answer(c, p, 200, conn[c].sess, conn[c].st)
      \/ Answer(c, p, 461, conn[c].sess, conn[c].st)
  BY Zenon DEF HandleCmdSetup
<1>3. \E status \in {200, 461, 500} : Answer(c, p, status, conn[c].sess, conn[c].st)
  BY <1>2
<1>4. \/ UNCHANGED <<owner, rtp>>
      \/ SetupRtpOverTcp(c, p.q.channel) /\ LookId(conn[c].sess)
      \/ /\ p.q.transport = Transports.udp /\ LookId(conn[c].sess)
         /\ SetupRtpOverUdp(c, p.q.channel) \/ SetupRtpOverUdpFails(c, p.q.channel)
  BY ZenonT(60) DEF HandleCmdSetup
<1> QED BY <1>1, <1>3, <1>4

\* The kernel's answers to a set-up are for RTP.
LEMMA UdpGains ==
    ASSUME DOMAIN owner = Fds, NEW c \in Conns, NEW n, SetupRtpOverUdp(c, n)
    PROVE  \A d \in Conns : ~Gains(d)
<1> DEFINE f1 == LowestFree(owner, 1)
           f2 == LowestFree(owner, 2)
<1>1. owner' = [owner EXCEPT ![f1] = <<"rtp", c>>, ![f2] = <<"rtp", c>>]
  BY Zenon DEF SetupRtpOverUdp
<1> HIDE DEF f1, f2
<1>2. ASSUME NEW d \in Conns, NEW f \in Fds, owner'[f] = <<"conn", d>> PROVE owner[f] = <<"conn", d>>
  <2>1. owner'[f] = <<"rtp", c>> \/ owner'[f] = owner[f]
    BY <1>1
  <2>2. <<"rtp", c>> # <<"conn", d>>
    OBVIOUS
  <2> QED BY <1>2, <2>1, <2>2, Zenon
<1> QED BY <1>2, Zenon DEF Gains

LEMMA TcpReceive ==
    ASSUME Inv, SeqInv, TalkInv, TcpInv, NEW c \in Conns, Receive(c)
    PROVE  TcpInv'
<1> DEFINE p == ParseRequest(conn[c].req, conn[c].buf \o Segment(c))
           Parses == \E b \in {p.buf, <<>>} : conn' = [conn EXCEPT ![c].req = p.q, ![c].buf = Trim(b)]
           Answers == \E status, sess : \E st \in {conn[c].st, "kDisconnecting"} : Answer(c, p, status, sess, st)
<1>1. /\ fault = "none" /\ HasSocket(c) /\ Segment(c) # <<>> /\ Send(c) /\ script' = script /\ recv' = recv
      /\ \/ HandleRtcp(c, p) \/ KeepParsing(c, p)
         \/ /\ GotAll(p.q)
            /\ \/ HandleCmdOption(c, p) \/ HandleCmdDescribe(c, p) \/ HandleCmdSetup(c, p)
               \/ HandleCmdPlay(c, p) \/ HandleCmdTeardown(c, p) \/ HandleCmdGetParamter(c, p)
  BY Zenon DEF Receive, InEvents
<1>2. Rtsp(conn[c])
  BY <1>1, TheFunctions, Zenon DEF HasSocket
<1>3. /\ DOMAIN owner = Fds /\ ConnTyped /\ RtpTyped /\ RtpShape(rtp[c]) /\ SetUpInv(rtp[c], clean)
  BY Zenon DEF Inv, Typed, RtpTyped, SeqInv, SeqOK
<1>4. ReqShape(p.q) /\ p.q.channel \in Channels
  <2>1. ReqShape(conn[c].req)
    BY Zenon DEF Inv, Typed, ConnTyped, ConnShape
  <2>2. ReqShape(p.q)
    BY <2>1, ParseShape
  <2> QED BY <2>2 DEF ReqShape
<1>5. p = ParseRequest(conn[c].req, conn[c].buf \o Segment(c))
  OBVIOUS
<1> HIDE DEF p
<1>6. ASSUME UNCHANGED conn \/ Parses \/ Answers, \A d \in Conns : d # c => rtp'[d] = rtp[d],
             \A d \in Conns : ~Gains(d), OverTcp(c) /\ Dry(c) => Steady(c)
      PROVE  TcpInv'
  BY <1>1, <1>2, <1>4, <1>5, <1>6, TcpRequest
<1>7. ASSUME NEW status, NEW sess, Answer(c, p, status, sess, conn[c].st) \/ Answer(c, p, status, sess, "kDisconnecting")
      PROVE  Answers
  <2>1. conn[c].st \in {conn[c].st, "kDisconnecting"} /\ "kDisconnecting" \in {conn[c].st, "kDisconnecting"}
    OBVIOUS
  <2> QED BY <1>7, <2>1, Zenon
<1>8. (\A d \in Conns : UNCHANGED owner => ~Gains(d))
  BY NobodyGains
<1>9. ASSUME UNCHANGED conn \/ Parses \/ Answers, UNCHANGED <<owner, rtp>> PROVE TcpInv'
  <2>1. OverTcp(c) /\ Dry(c) => Steady(c)
    BY <1>9, Zenon DEF Dry, Steady
  <2>2. (\A d \in Conns : d # c => rtp'[d] = rtp[d]) /\ (\A d \in Conns : ~Gains(d))
    BY <1>8, <1>9, Zenon
  <2> QED BY <1>6, <1>9, <2>1, <2>2
<1>10. ASSUME Answers, UNCHANGED owner, NEW x, rtp' = [rtp EXCEPT ![c] = x],
              Dry(c) => x.mode # Transports.udp /\ (recv[c] = <<>> \/ x.ch[0].seq = rtp[c].ch[0].seq)
       PROVE  TcpInv'
  <2>1. rtp'[c] = x /\ \A d \in Conns : d # c => rtp'[d] = rtp[d]
    BY <1>3, <1>10, PutRtp, Zenon
  <2>2. OverTcp(c) /\ Dry(c) => Steady(c)
    BY <1>10, <2>1, Zenon DEF Steady
  <2>3. \A d \in Conns : ~Gains(d)
    BY <1>8, <1>10
  <2> QED BY <1>6, <1>10, <2>1, <2>2, <2>3
<1>11. CASE HandleRtcp(c, p) \/ KeepParsing(c, p)
  <2>1. /\ UNCHANGED <<owner, rtp>>
        /\ \/ UNCHANGED conn
           \/ conn' = [conn EXCEPT ![c].req = p.q, ![c].buf = Trim(<<>>)]
           \/ conn' = [conn EXCEPT ![c].req = p.q, ![c].buf = Trim(p.buf)]
    BY <1>11, Zenon DEF HandleRtcp, KeepParsing
  <2>2. p.buf \in {p.buf, <<>>} /\ <<>> \in {p.buf, <<>>}
    OBVIOUS
  <2>3. UNCHANGED conn \/ Parses
    BY <2>1, <2>2, Zenon
  <2> QED BY <1>9, <2>1, <2>3
<1>12. CASE NullRtp(c)
  <2>1. UNCHANGED <<owner, conn, rtp>>
    BY <1>12, Zenon DEF NullRtp
  <2> QED BY <1>9, <2>1
<1>13. CASE HandleCmdOption(c, p) \/ HandleCmdGetParamter(c, p)
  <2>1. Answer(c, p, 200, conn[c].sess, conn[c].st) /\ UNCHANGED <<owner, rtp>>
    BY <1>13, Zenon DEF HandleCmdOption, HandleCmdGetParamter
  <2>2. Answers
    BY <1>7, <2>1
  <2> QED BY <1>9, <2>1, <2>2
<1>14. CASE HandleCmdDescribe(c, p)
  <2> DEFINE x == IF rtp[c].alive THEN rtp[c] ELSE NewRtp
  <2>1. /\ rtp' = [rtp EXCEPT ![c] = x] /\ UNCHANGED owner
        /\ \/ Answer(c, p, 200, SessionId, conn[c].st)
           \/ Answer(c, p, 404, conn[c].sess, conn[c].st)
    BY <1>14, Zenon DEF HandleCmdDescribe
  <2>2. Answers
    BY <1>7, <2>1
  <2>3. Dry(c) => x.mode # Transports.udp /\ (recv[c] = <<>> \/ x.ch[0].seq = rtp[c].ch[0].seq)
    <3>1. rtp[c].alive \/ recv[c] = <<>>
      BY <1>2, Zenon DEF SeqInv, SeqOK
    <3>2. (rtp[c].alive => x = rtp[c]) /\ (~rtp[c].alive => x = NewRtp)
      BY Zenon
    <3> HIDE DEF x
    <3> QED BY <3>1, <3>2, ModeKept, Zenon DEF Dry
  <2> HIDE DEF x
  <2> QED BY <1>10, <2>1, <2>2, <2>3
<1>15. CASE GotAll(p.q) /\ HandleCmdSetup(c, p)
  <2> DEFINE n == p.q.channel
  <2>1. /\ p.q.method = "SETUP" /\ p.q.state = "kGotAll"
        /\ \E status \in {200, 461, 500} : Answer(c, p, status, conn[c].sess, conn[c].st)
        /\ \/ UNCHANGED <<owner, rtp>>
           \/ SetupRtpOverTcp(c, n) /\ LookId(conn[c].sess)
           \/ /\ p.q.transport = Transports.udp /\ LookId(conn[c].sess)
              /\ SetupRtpOverUdp(c, n) \/ SetupRtpOverUdpFails(c, n)
    BY <1>15, SetUpOver DEF GotAll
  <2>2. Answers
    BY <1>7, <2>1
  <2>3. ASSUME LookId(conn[c].sess), SetupRtpOverTcp(c, n) \/ SetupRtpOverUdp(c, n) \/ SetupRtpOverUdpFails(c, n)
        PROVE  /\ \A d \in Conns : d # c => rtp'[d] = rtp[d]
               /\ rtp'[c].ch[0].seq = rtp[c].ch[0].seq
    <3>1. rtp[c].alive
      BY <1>2, <2>3, Zenon DEF LookId, Inv, Described
    <3>2. /\ clean' => clean
          /\ \A d \in Conns : d # c => rtp'[d] = rtp[d]
          /\ Quiet(rtp[c], rtp'[c]) /\ SetUpInv(rtp'[c], clean')
      BY <1>3, <1>4, <2>3, <3>1, SetUpQuiet
    <3> QED BY <3>2, Zenon DEF Quiet
  <2>4. CASE SetupRtpOverTcp(c, n) /\ LookId(conn[c].sess)
    <3>1. UNCHANGED owner /\ rtp'[c].mode = Transports.tcp
      <4>1. /\ UNCHANGED owner
            /\ \E h : rtp' = [rtp EXCEPT ![c].mode = Transports.tcp, ![c].ch[n] = h]
        BY <2>4, Zenon DEF SetupRtpOverTcp
      <4>2. c \in DOMAIN rtp /\ {"alive", "closed", "idr", "mode", "ch"} \subseteq DOMAIN rtp[c]
        BY <1>3, Zenon DEF RtpTyped, RtpShape
      <4> QED BY <4>1, <4>2, Zenon
    <3>2. Steady(c)
      BY <2>3, <2>4, <3>1, ModeKept, Zenon DEF Steady
    <3>3. \A d \in Conns : ~Gains(d)
      BY <1>8, <3>1
    <3> QED BY <1>6, <2>2, <2>3, <2>4, <3>2, <3>3
  <2>5. CASE /\ p.q.transport = Transports.udp /\ LookId(conn[c].sess)
             /\ SetupRtpOverUdp(c, n) \/ SetupRtpOverUdpFails(c, n)
    <3>1. ~(OverTcp(c) /\ Dry(c))
      BY <1>1, <1>3, <1>5, <2>1, <2>5, DrySegment
    <3>2. \A d \in Conns : ~Gains(d)
      <4>1. SetupRtpOverUdpFails(c, n) => UNCHANGED owner
        BY Zenon DEF SetupRtpOverUdpFails
      <4> QED BY <1>3, <1>8, <2>5, <4>1, UdpGains
    <3> QED BY <1>6, <2>2, <2>3, <2>5, <3>1, <3>2
  <2> QED BY <1>9, <2>1, <2>2, <2>4, <2>5
<1>16. CASE HandleCmdPlay(c, p) \/ HandleCmdTeardown(c, p)
  <2>1. \/ NullRtp(c)
        \/ /\ rtp' = [rtp EXCEPT ![c] = StartPlay(rtp[c])] /\ UNCHANGED owner
           /\ Answer(c, p, 200, conn[c].sess, conn[c].st)
        \/ /\ rtp' = [rtp EXCEPT ![c] = Teardown(rtp[c])] /\ UNCHANGED owner
           /\ Answer(c, p, 200, conn[c].sess, "kDisconnecting")
    BY <1>16, Zenon DEF HandleCmdPlay, HandleCmdTeardown
  <2>2. /\ Quiet(rtp[c], StartPlay(rtp[c])) /\ Quiet(rtp[c], Teardown(rtp[c]))
        /\ StartPlay(rtp[c]).mode = rtp[c].mode /\ Teardown(rtp[c]).mode = rtp[c].mode
    BY <1>3, StartPlayQuiet, TeardownQuiet, ModeKept
  <2>3. CASE /\ rtp' = [rtp EXCEPT ![c] = StartPlay(rtp[c])] /\ UNCHANGED owner
             /\ Answer(c, p, 200, conn[c].sess, conn[c].st)
    <3> DEFINE x == StartPlay(rtp[c])
    <3>1. Answers
      BY <1>7, <2>3
    <3>2. Dry(c) => x.mode # Transports.udp /\ (recv[c] = <<>> \/ x.ch[0].seq = rtp[c].ch[0].seq)
      BY <2>2, Zenon DEF Dry, Quiet
    <3>3. rtp' = [rtp EXCEPT ![c] = x] /\ UNCHANGED owner
      BY <2>3
    <3> HIDE DEF x
    <3> QED BY <1>10, <3>1, <3>2, <3>3
  <2>4. CASE /\ rtp' = [rtp EXCEPT ![c] = Teardown(rtp[c])] /\ UNCHANGED owner
             /\ Answer(c, p, 200, conn[c].sess, "kDisconnecting")
    <3> DEFINE x == Teardown(rtp[c])
    <3>1. Answers
      BY <1>7, <2>4
    <3>2. Dry(c) => x.mode # Transports.udp /\ (recv[c] = <<>> \/ x.ch[0].seq = rtp[c].ch[0].seq)
      BY <2>2, Zenon DEF Dry, Quiet
    <3>3. rtp' = [rtp EXCEPT ![c] = x] /\ UNCHANGED owner
      BY <2>4
    <3> HIDE DEF x
    <3> QED BY <1>10, <3>1, <3>2, <3>3
  <2> QED BY <1>12, <2>1, <2>3, <2>4
<1> QED BY <1>1, <1>11, <1>13, <1>14, <1>15, <1>16

LEMMA InitTcp == Init => TcpInv
<1> SUFFICES ASSUME Init, NEW c \in Conns PROVE Dry(c)
  BY Zenon DEF TcpInv
<1>1. /\ conn = [d \in Conns |-> NoConn] /\ rtp = [d \in Conns |-> DeadRtp] /\ recv = [d \in Conns |-> <<>>]
      /\ client = [d \in Conns |-> [pos |-> 0, pend |-> <<>>]]
  BY Zenon DEF Init
<1>2. conn[c] = NoConn /\ rtp[c] = DeadRtp /\ recv[c] = <<>> /\ client[c].pend = <<>>
  BY <1>1
<1>3. NoConn.st = "none" /\ NoConn.buf = <<>>
  BY DEF NoConn
<1>4. conn[c].st # "kConnected"
  BY <1>2, <1>3
<1> QED BY <1>2, <1>3, <1>4, NothingReceived, NobodyAsks, ModeKept, Zenon DEF Dry

LEMMA NextTcp == Inv /\ RecvTyped /\ SeqInv /\ TalkInv /\ TcpInv /\ [Next]_vars => TcpInv'
<1> SUFFICES ASSUME Inv, RecvTyped, SeqInv, TalkInv, TcpInv, [Next]_vars PROVE TcpInv'
  OBVIOUS
<1>1. ASSUME NEW c \in Conns, Accept(c) \/ AcceptEMFILE(c) PROVE TcpInv'
  BY <1>1, TcpAccept
<1>2. ASSUME NEW c \in Conns, Receive(c) PROVE TcpInv'
  BY <1>2, TcpReceive
<1>3. ASSUME NEW c \in Conns, PeerCloses(c) \/ ForceCloseTimer(c) PROVE TcpInv'
  <2>1. HandleClose(c)
    BY <1>3, Zenon DEF PeerCloses, ForceCloseTimer
  <2> QED BY <2>1, TcpHandleClose
<1>4. ASSUME UNCHANGED <<owner, conn, rtp, script, client, recv>> PROVE TcpInv'
  <2>1. ASSUME NEW c \in Conns, Dry(c) PROVE Dry(c)'
    <3>1. recv'[c] = recv[c] /\ conn'[c] = conn[c] /\ client'[c] = client[c] /\ rtp'[c] = rtp[c] /\ ~Gains(c)
      BY <1>4, NobodyGains, Zenon
    <3> QED BY <2>1, <3>1, DrySame
  <2> QED BY <1>4, <2>1, TcpKept
<1>5. CASE LoopStep
  <2>1. CASE DoPendingFunctors
    <3>1. UNCHANGED <<owner, conn, rtp, script, client, recv>>
      BY <2>1, Zenon DEF DoPendingFunctors
    <3> QED BY <1>4, <3>1
  <2> QED BY <1>5, <2>1, TcpConnectDestroyed, TcpSendPacket DEF LoopStep
<1>6. CASE SenderStep
  <2>1. CASE PushFrame \/ Collect \/ SendRtpPacket
    <3>1. UNCHANGED <<owner, conn, rtp, script, client, recv>>
      BY <2>1, Zenon DEF PushFrame, Collect, SendRtpPacket, senderKeeps
    <3> QED BY <1>4, <3>1
  <2> QED BY <1>6, <2>1, TcpDropReferences DEF SenderStep
<1>7. CASE RemoveMediaSession
  <2>1. UNCHANGED <<owner, conn, rtp, script, client, recv>>
    BY <1>7, Zenon DEF RemoveMediaSession
  <2> QED BY <1>4, <2>1
<1>8. CASE UNCHANGED vars
  BY <1>4, <1>8, Zenon DEF vars
<1> QED BY <1>1, <1>2, <1>3, <1>5, <1>6, <1>7, <1>8, Zenon DEF Next

\* A client whose set-ups are all over TCP loses no number while the socket
\* of its connection is open (setupRtpOverTcp(), sendRtpOverTcp()).
THEOREM TcpLosesNoNumber == Spec => []TcpInv
<1>1. OrderInv => RecvTyped
  BY DEF OrderInv
<1> QED BY <1>1, InitTcp, NextTcp, RtspInvariant, PacketsStandInLine, NumbersAreConsecutive, TalksStandInLine,
           PTL DEF Spec

\* Whatever the clients do, for any number of connections, descriptors and
\* frames: the packets of a client come in order, and while every set-up is
\* over UDP and succeeds, or the client's own are all over TCP, none of its
\* sequence numbers is skipped or repeated, across the wrap too
\* (addMediaSource()'s callback, setRtpHeader(), sendRtpOverTcp(),
\* sendRtpOverUdp()).
THEOREM PacketsAlwaysInOrder == Spec => []PacketsInOrder
<1>1. OrderInv /\ SeqInv /\ TcpInv => PacketsInOrder
  <2> SUFFICES ASSUME OrderInv, SeqInv, TcpInv, NEW c \in Conns, NEW k \in 1..Len(recv[c]) - 1
               PROVE  /\ recv[c][k + 1].frame > recv[c][k].frame
                           \/ (recv[c][k + 1].frame = recv[c][k].frame /\ recv[c][k + 1].part > recv[c][k].part)
                      /\ (clean \/ OverTcp(c)) /\ conn[c].st = "kConnected" /\ ~rtp[c].closed =>
                           recv[c][k + 1].seq = (recv[c][k].seq + 1) % SeqModulus
    BY Zenon DEF PacketsInOrder
  <2>1. recv[c] \in Seq(Packets)
    BY Zenon DEF OrderInv, RecvTyped
  <2>2. k \in 1..Len(recv[c]) /\ k + 1 \in 1..Len(recv[c]) /\ k < k + 1
    BY <2>1, LenProperties
  <2>3. recv[c][k] \in Packets /\ recv[c][k + 1] \in Packets
    BY <2>1, <2>2
  <2>4. Before(recv[c][k], recv[c][k + 1])
    BY <2>2, Zenon DEF OrderInv, LineInv, Lined, Ordered
  <2>5. recv[c][k + 1].frame > recv[c][k].frame
          \/ (recv[c][k + 1].frame = recv[c][k].frame /\ recv[c][k + 1].part > recv[c][k].part)
    BY <2>3, <2>4 DEF Before, Packets
  <2>6. (clean \/ OverTcp(c)) /\ conn[c].st = "kConnected" /\ ~rtp[c].closed => Consecutive(recv[c])
    BY Zenon DEF SeqInv, SeqOK, TcpInv, Dry
  <2>7. (clean \/ OverTcp(c)) /\ conn[c].st = "kConnected" /\ ~rtp[c].closed =>
          recv[c][k + 1].seq = (recv[c][k].seq + 1) % SeqModulus
    BY <2>6, Zenon DEF Consecutive
  <2> QED BY <2>5, <2>7
<1> QED BY <1>1, PacketsStandInLine, NumbersAreConsecutive, TcpLosesNoNumber, PTL
=============================================================================
