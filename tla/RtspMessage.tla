----------------------------- MODULE RtspMessage -----------------------------
(***************************************************************************)
(* RtspRequest: the incremental parser of RTSP requests and the answers    *)
(* the server builds from a parsed request.                                *)
(*                                                                         *)
(* The input buffer is a sequence of symbols <<kind, name, n>>:            *)
(*   <<"line", METHOD, n>>  the text of a request line.  n = 9: the url    *)
(*                          does not parse.  DESCRIBE: n = 1 iff the url   *)
(*                          names the published session.  SETUP: n = 1 iff *)
(*                          the url ends in track1.                        *)
(*   <<"hdr", NAME, n>>     the text of a header line: CSeq n; Accept, n = *)
(*                          1 iff it names sdp; Session, n = 1 iff a       *)
(*                          number follows; Transport n (see Transports);  *)
(*                          Other, any header the server ignores.          *)
(*   <<"eol", "CRLF", 0>>   CR LF                                          *)
(*   <<"rtcp", "$", n>>     an interleaved packet of n symbols that follow *)
(*                          it                                             *)
(* A segment of the TCP stream may end between any two symbols.            *)
(***************************************************************************)
EXTENDS Naturals, Sequences, FiniteSets, SequencesExt, FiniteSetsExt

Methods == {"OPTIONS", "DESCRIBE", "SETUP", "PLAY", "TEARDOWN", "GET_PARAMETER"}

\* Values of a Transport header: the three that parse, and the ones whose
\* channels or ports do not.
Transports == [tcp |-> 1, udp |-> 2, multicast |-> 3, badTcp |-> 4, badUdp |-> 5, none |-> 0]

Eol == <<"eol", "CRLF", 0>>
Line(m, n) == <<"line", m, n>>
Hdr(name, n) == <<"hdr", name, n>>

\* A parser in the state reset() leaves it in.  method and transport are
\* not cleared by reset(); their first values are uninitialised and never
\* read before they are set.
NewRequest ==
  [state |-> "kParseRequestLine", method |-> "NONE", arg |-> 0, cseq |-> 0,
   hasCSeq |-> FALSE, channel |-> 0, transport |-> 0]

\* Mutant: the headers of the last request are kept.
ResetKeepsHeaders(q) == [q EXCEPT !.state = "kParseRequestLine", !.arg = 0]

Reset(q) == [q EXCEPT !.state = "kParseRequestLine", !.arg = 0, !.cseq = 0, !.hasCSeq = FALSE]

GotAll(q) == q.state = "kGotAll"

\* findCRLF() and findLastCRLF(): the position of the first or last CR LF,
\* 0 if the buffer has none.
FindCRLF(buf) == LET s == {i \in 1..Len(buf) : buf[i] = Eol} IN IF s = {} THEN 0 ELSE Min(s)
FindLastCRLF(buf) == LET s == {i \in 1..Len(buf) : buf[i] = Eol} IN IF s = {} THEN 0 ELSE Max(s)

\* parseRequestLine(): _method is set even when the url is refused.
ParseRequestLine(q, text) ==
  IF Len(text) # 1 \/ text[1][1] # "line" THEN [ok |-> FALSE, q |-> q]
  ELSE IF text[1][2] \notin Methods THEN [ok |-> FALSE, q |-> [q EXCEPT !.method = "NONE"]]
  ELSE IF text[1][3] = 9 THEN [ok |-> FALSE, q |-> [q EXCEPT !.method = text[1][2]]]
  ELSE [ok |-> TRUE, q |-> [q EXCEPT !.method = text[1][2], !.arg = text[1][3],
                                     !.state = "kParseHeadersLine"]]

\* The places of a header in a piece of text.
Headers(text, name) == {k \in 1..Len(text) : text[k][1] = "hdr" /\ text[k][2] = name}

\* parseCSeq(): emplace() keeps the first number the request gave.
ParseCSeq(q, text) ==
  LET at == Headers(text, "CSeq")
  IN IF at = {} \/ q.hasCSeq THEN q ELSE [q EXCEPT !.cseq = text[Min(at)][3], !.hasCSeq = TRUE]

\* parseTransport(): _transport is set before the channels or ports are
\* read, and stays set when they are missing.
ParseTransport(q, text) ==
  LET at   == Headers(text, "Transport")
      tcp  == {k \in at : text[k][3] \in {Transports.tcp, Transports.badTcp}}
      t    == IF at = {} THEN 0 ELSE text[Min(IF tcp # {} THEN tcp ELSE at)][3]
      mode == CASE t = Transports.badTcp -> Transports.tcp
                [] t = Transports.badUdp -> Transports.udp
                [] OTHER -> t
  IN [ok |-> t \in {Transports.tcp, Transports.udp, Transports.multicast},
      q  |-> IF mode = 0 THEN q ELSE [q EXCEPT !.transport = mode]]

\* parseMediaChannel(): channel_0, unless the url names track1
ParseMediaChannel(arg) == IF arg = 1 THEN 1 ELSE 0

\* parseHeadersLine(): whether the headers seen so far complete the request
\* depends on the method; the text is discarded either way.
ParseHeadersLine(q0, text) ==
  LET q    == ParseCSeq(q0, text)
      t    == ParseTransport(q, text)
      done == [q EXCEPT !.state = "kGotAll"]
  IN IF ~q.hasCSeq THEN [ok |-> FALSE, q |-> q]
     ELSE [ok |-> TRUE,
           q  |-> CASE q.method = "DESCRIBE" ->
                         IF \E k \in Headers(text, "Accept") : text[k][3] = 1
                         THEN done ELSE q
                    [] q.method = "SETUP" ->
                         IF t.ok THEN [t.q EXCEPT !.channel = ParseMediaChannel(q.arg), !.state = "kGotAll"] ELSE t.q
                    [] q.method = "PLAY" ->
                         IF Headers(text, "Session") # {} /\ text[Min(Headers(text, "Session"))][3] = 1
                         THEN done ELSE q
                    [] q.method \in {"RTCP", "NONE"} -> q
                    [] OTHER -> done]

\* parseRequest(): the request line and, in the same call, the headers that
\* have arrived; one line or one piece of headers is taken off the buffer.
ParseRequest(q, buf) ==
  IF buf[1][1] = "rtcp" THEN [ok |-> TRUE, q |-> [q EXCEPT !.method = "RTCP"], buf |-> buf]
  ELSE LET first == FindCRLF(buf)
           line  == IF q.state = "kParseRequestLine" /\ first > 0
                    THEN ParseRequestLine(q, SubSeq(buf, 1, first - 1))
                    ELSE [ok |-> TRUE, q |-> q]
           rest  == IF q.state = "kParseRequestLine" /\ first > 0
                    THEN SubSeq(buf, first + 1, Len(buf)) ELSE buf
           last  == FindLastCRLF(rest)
       IN IF line.q.state = "kParseHeadersLine" /\ last > 0
          THEN LET h == ParseHeadersLine(line.q, SubSeq(rest, 1, last - 1))
               IN [ok |-> h.ok, q |-> h.q, buf |-> SubSeq(rest, last + 1, Len(rest))]
          ELSE [ok |-> line.ok, q |-> line.q, buf |-> rest]

\* build...Res(): every answer carries the CSeq of the request.
Response(status, q) == [status |-> status, cseq |-> q.cseq]
=============================================================================
