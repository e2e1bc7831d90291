---------------------------- MODULE MCRtspServer ----------------------------
(***************************************************************************)
(* Instances of RtspServer for TLC: a file of two access units, the first  *)
(* larger than a payload, and the scripts of the clients.                  *)
(***************************************************************************)
EXTENDS RtspServer

MCFile == <<0, 0, 0, 1, 101, 136, 2, 2, 2, 2>> \o <<0, 0, 1, 65, 136, 2, 2>>

\* A request: method, argument of its url, headers.
Req(m, n, h) == [m |-> m, n |-> n, h |-> h, cut |-> 0]
Cut(r, k) == [r EXCEPT !.cut = k]

Option == Req("OPTIONS", 0, <<Hdr("Other", 0)>>)
Describe(n) == Req("DESCRIBE", n, <<Hdr("Accept", 1)>>)
Setup(track, t) == Req("SETUP", track, <<Hdr("Transport", t)>>)
Play == Req("PLAY", 0, <<Hdr("Session", 1)>>)
TeardownReq == Req("TEARDOWN", 0, <<>>)
GetParameter == Req("GET_PARAMETER", 0, <<>>)
Rtcp(n, sent) == Req("RTCP", n, [k \in 1..sent |-> <<"data", "RTCP", 0>>])

Udp == Setup(0, Transports.udp)
Tcp == Setup(0, Transports.tcp)

\* A player next to a second client; then clients that try the error paths
\* and the segment boundaries, next to one that only connects.
MCScripts ==
  { [frames |-> 1, removes |-> FALSE, reqs |-> r] : r \in
     { << <<Describe(1), Udp, Play>>, <<Describe(1)>> >>,
       << <<Describe(1), Tcp, Play>>, <<Describe(1), Udp, Play>> >> }
     \cup
     { <<s, <<>>>> : s \in
        { <<Describe(1), Setup(0, Transports.multicast), Setup(1, Transports.udp), Udp, GetParameter>>,
          <<Describe(1), Tcp, Play, Rtcp(1, 1), TeardownReq, Option>>,
          <<Describe(0), Udp, Play, GetParameter>>,
          <<Req("PLAY", 9, <<>>), Req("RECORD", 0, <<>>), Option, Play>>,
          <<Req("DESCRIBE", 1, <<Hdr("Accept", 0)>>), Describe(1), Option>>,
          <<Describe(1), Req("SETUP", 0, <<Hdr("Transport", Transports.badUdp)>>), Tcp>>,
          <<Rtcp(2, 1)>>, <<Rtcp(1, 2), Option, Option, Option>>, <<Rtcp(1, 0), Option>>, <<TeardownReq>>, <<Play>>,
          <<Describe(1), Udp, Play, Udp>> }
        \cup {<<Cut(Option, k), Option, Option, Option>> : k \in 1..6}
        \cup {<<Cut(Describe(1), k), Tcp>> : k \in 1..6} } }
  \cup
  { [frames |-> 2, removes |-> FALSE, reqs |-> << <<Describe(1), Udp, Play, TeardownReq>>, <<>> >>],
    [frames |-> 1, removes |-> TRUE, reqs |-> << <<Describe(1), Udp, Play>>, <<>> >>] }

MCUdpScripts == {[frames |-> 1, removes |-> FALSE, reqs |-> << <<Describe(1), Udp, Play>>, <<>> >>]}
=============================================================================
