----------------------------- MODULE HttpServer -----------------------------
(***************************************************************************)
(* A connection's input buffer and the message callback that consumes it.  *)
(* TcpConnection::handleRead() calls Buffer::readFd(), then the callback,  *)
(* with whatever part of the stream has arrived.  Two applications:        *)
(*                                                                         *)
(*   "http"  the HTTP server of the examples, which parses requests out of *)
(*           the buffer and keeps its place in an HttpContext;             *)
(*   "any"   any owner of a Buffer, calling its operations in any order    *)
(*           that respects their assertions.                               *)
(*                                                                         *)
(* A byte is a tuple.  A request line and a header line are one byte each, *)
(* CR and LF are bytes of their own, so that a segment may end anywhere.   *)
(***************************************************************************)
EXTENDS Buffer, FiniteSets, Functions

CONSTANTS
  Scripts,   \* for each behaviour of the client: reqs, its requests, and
             \* pipelines, whether it sends them without waiting for answers
  RawBytes   \* bytes that reach the buffer of the application "any"

VARIABLES
  app,     \* which application owns the buffer
  buf,     \* _inputBuffer
  wire,    \* bytes the kernel holds for readFd()
  out,     \* what the last Buffer operation returned
  phase,   \* "idle", or "message": readFd() returned, the callback is due
  state,   \* TcpConnection::_state
  ctx,     \* the HttpContext of the connection
  resp,    \* answers written to the connection
  script,  \* the client: a member of Scripts
  sent,    \* number of requests it has sent
  fault    \* the assertion the code failed, or "spin" for the endless loop

bufVars == <<buf, wire, out>>
httpVars == <<phase, state, ctx, resp, script, sent, fault>>
vars == <<app, buf, wire, out, phase, state, ctx, resp, script, sent, fault>>

CR == <<"cr">>
LF == <<"lf">>
CRLF == <<CR, LF>>
Line(method, path, version) == <<"line", method, path, version>>
Header(field, value) == <<"header", field, value>>
OwnByte == <<"own">>
Raw == [i \in 1..RawBytes |-> <<"raw", i>>]

\* A request: its first line, its header lines and its body.
Requests ==
  [line : {x \in Byte : x[1] = "line"},
   headers : Seq({x \in Byte : x[1] = "header"}),
   body : Seq(Byte)]

ASSUME HttpAssumption ==
  /\ RawBytes \in Nat
  /\ {CR, LF, OwnByte} \cup Range(Raw) \subseteq Byte
  /\ Scripts \subseteq [reqs : Seq(Requests), pipelines : BOOLEAN]

(***************************************************************************)
(* HttpRequest and HttpContext.  The request keeps what onRequest() looks  *)
(* at: a header other than Connection is a key like any other.             *)
(***************************************************************************)

Methods == {"GET", "POST", "HEAD", "PUT", "DELETE"}
Versions == {"HTTP/1.0", "HTTP/1.1"}
Fields == {"Connection", "Host"}

NewRequest ==
  [method |-> "kInvalid", version |-> "kUnknown", path |-> "", headers |-> [f \in Fields |-> ""]]
NewContext == [state |-> "kExpectRequestLine", req |-> NewRequest]

\* Mutant: the headers of the last request stay.
ResetKeepsHeaders(c) == [NewContext EXCEPT !.req.headers = c.req.headers]

Reset(c) == NewContext

\* A later header of the same name replaces the earlier one.
AddHeader(req, h) == [req EXCEPT !.headers[h[2]] = h[3]]

\* setMethod() asserts that no method was set; another word sets none.
MayHaveMethod(req) == req.method = "kInvalid"
SetMethod(req, word) == IF word \in Methods THEN word ELSE req.method

\* setMethod(), setPath() and setVersion() as far as the line is good: the
\* method stays set when the version is refused.  A line without a space
\* never gets to setMethod().
ProcessRequestLine(req, line) ==
  LET l == line[1]
      known == Len(line) = 1 /\ l[1] = "line" /\ l[2] \in Methods
  IN IF line = <<>> THEN [ok |-> FALSE, req |-> req, abort |-> FALSE]
     ELSE [ok |-> known /\ l[4] \in Versions,
           req |-> IF ~known THEN req
                   ELSE [method |-> SetMethod(req, l[2]), path |-> l[3],
                         version |-> IF l[4] \in Versions THEN l[4] ELSE req.version,
                         headers |-> req.headers],
           abort |-> ~MayHaveMethod(req)]

\* What lies in front of the first CRLF, and what std::find() looks for in
\* the line of a header.
FirstLine(b) == SubSeq(Content(b), 1, Find(b, CRLF) - 1)
Colons(line) == {i \in 1..Len(line) : line[i][1] = "header"}

\* parseRequest(): one pass of the while loop; more is hasMore.  A context
\* in any other state than the two that expect a line would keep it going
\* for ever.
Pass(more, ok, b, c, fault_) == [more |-> more, ok |-> ok, b |-> b, c |-> c, fault |-> fault_]
ParseLine(b, c) ==
  LET at   == Find(b, CRLF)
      line == FirstLine(b)
      rest == Retrieve(b, at + 1)
      p    == ProcessRequestLine(c.req, line)
  IN CASE c.state \notin {"kExpectRequestLine", "kExpectHeaders"} -> Pass(FALSE, TRUE, b, c, "spin")
       [] c.state \in {"kExpectRequestLine", "kExpectHeaders"} /\ at = 0 -> Pass(FALSE, TRUE, b, c, "none")
       [] c.state = "kExpectRequestLine" /\ at # 0 ->
          IF p.abort THEN Pass(FALSE, TRUE, b, c, "method_assert")
          ELSE IF p.ok THEN Pass(TRUE, TRUE, rest, [state |-> "kExpectHeaders", req |-> p.req], "none")
          ELSE Pass(FALSE, FALSE, b, [c EXCEPT !.req = p.req], "none")
       [] c.state = "kExpectHeaders" /\ at # 0 ->
          IF Colons(line) # {}
          THEN Pass(TRUE, TRUE, rest, [c EXCEPT !.req = AddHeader(c.req, line[First(Colons(line))])], "none")
          ELSE Pass(FALSE, TRUE, rest, [c EXCEPT !.state = "kGotAll"], "none")

(***************************************************************************)
(* HttpServer                                                              *)
(***************************************************************************)

\* The callback of the test server: three pages, and an error that closes.
Pages == {"/", "/favicon.ico", "/hello"}

\* onRequest() and HttpResponse::appendToBuffer(): an answer that leaves the
\* connection open carries the length of its body.
CloseAsked(req) ==
  \/ req.headers["Connection"] = "close"
  \/ req.version = "HTTP/1.0" /\ req.headers["Connection"] # "Keep-Alive"
Response(req) ==
  IF req.path \in Pages
  THEN [status |-> 200, close |-> CloseAsked(req), length |-> ~CloseAsked(req)]
  ELSE [status |-> 404, close |-> TRUE, length |-> FALSE]
BadRequest == [status |-> 400, close |-> TRUE, length |-> FALSE]

\* TcpConnection::send() and shutdown(): nothing is sent once the connection
\* is going down.
Reply(r) ==
  /\ resp' = IF state = "kConnected" THEN Append(resp, r) ELSE resp
  /\ state' = IF state = "kConnected" /\ r.close THEN "kDisconnecting" ELSE state

\* onMessage() in parseRequest(): a pass that is not the last.
ParseRequest ==
  LET p == ParseLine(buf, ctx) IN
  /\ app = "http" /\ phase = "message" /\ fault = "none"
  /\ p.more
  /\ buf' = p.b
  /\ ctx' = p.c
  /\ out' = <<>>
  /\ UNCHANGED <<app, wire, phase, state, resp, script, sent, fault>>

\* The last pass and the rest of onMessage().  A refused request leaves the
\* context and the buffer as they are.
OnMessage ==
  LET p == ParseLine(buf, ctx) IN
  /\ app = "http" /\ phase = "message" /\ fault = "none"
  /\ ~p.more
  /\ phase' = "idle"
  /\ fault' = p.fault
  /\ buf' = p.b
  /\ \/ ~p.ok /\ Reply(BadRequest) /\ ctx' = p.c
     \/ p.ok /\ p.c.state = "kGotAll" /\ Reply(Response(p.c.req)) /\ ctx' = Reset(p.c)
     \/ p.ok /\ p.c.state # "kGotAll" /\ ctx' = p.c /\ UNCHANGED <<resp, state>>
  /\ out' = <<>>
  /\ UNCHANGED <<app, wire, script, sent>>

(***************************************************************************)
(* The connection and the client                                           *)
(***************************************************************************)

\* Every line with the CRLF that ends it.
Lines(ls) ==
  [i \in 1..3 * Len(ls) |-> CASE i % 3 = 1 -> ls[(i + 2) \div 3] [] i % 3 = 2 -> CR [] OTHER -> LF]
Text(item) == Lines(<<item.line>> \o item.headers) \o CRLF \o item.body

\* An orderly client sends a request when the last one was answered, and
\* none after an answer that closes.
Send ==
  /\ app = "http" /\ phase = "idle" /\ fault = "none"
  /\ sent < Len(script.reqs)
  /\ script.pipelines \/ (Len(resp) = sent /\ state = "kConnected")
  /\ wire' = wire \o Text(script.reqs[sent + 1])
  /\ sent' = sent + 1
  /\ UNCHANGED <<app, buf, out, phase, state, ctx, resp, script, fault>>

\* TcpConnection::handleRead() with n > 0, up to the message callback.
HandleRead(n) ==
  /\ phase = "idle" /\ fault = "none" /\ state # "kDisconnected"
  /\ n \in 1..Len(wire) /\ n <= ReadCapacity(buf)
  /\ buf' = ReadFd(buf, SubSeq(wire, 1, n))
  /\ wire' = SubSeq(wire, n + 1, Len(wire))
  /\ out' = <<>>
  /\ phase' = IF app = "http" THEN "message" ELSE "idle"
  /\ UNCHANGED <<app, state, ctx, resp, script, sent, fault>>

\* The client closes: read() returns 0 after the last byte.  The context
\* dies with the connection.
HandleClose ==
  /\ app = "http" /\ phase = "idle" /\ fault = "none"
  /\ wire = <<>> /\ state # "kDisconnected"
  /\ state' = "kDisconnected"
  /\ UNCHANGED <<app, bufVars, phase, ctx, resp, script, sent, fault>>

(***************************************************************************)
(* Any owner of a Buffer                                                   *)
(***************************************************************************)

IntSizes == {1, 2, 4, 8}
Own(n) == [i \in 1..n |-> OwnByte]

AnyOwner == app = "any" /\ UNCHANGED <<app, httpVars>>

DoAppend(n) ==
  /\ AnyOwner /\ n \in 1..Len(wire)
  /\ buf' = Append_(buf, SubSeq(wire, 1, n))
  /\ wire' = SubSeq(wire, n + 1, Len(wire))
  /\ out' = <<>>

DoRetrieve(n) ==
  /\ AnyOwner /\ n \in 0..ReadableBytes(buf)
  /\ buf' = Retrieve(buf, n)
  /\ out' = <<>>
  /\ UNCHANGED wire

\* retrieveAsString(), retrieveAllAsString()
DoRetrieveAsString(n) ==
  /\ AnyOwner /\ n \in 0..ReadableBytes(buf)
  /\ out' = SubSeq(Content(buf), 1, n)
  /\ buf' = Retrieve(buf, n)
  /\ UNCHANGED wire

\* readInt*(): peekInt*(), then retrieveInt*().
DoReadInt(n) ==
  /\ AnyOwner /\ n \in IntSizes /\ n <= ReadableBytes(buf)
  /\ out' = PeekInt(buf, n)
  /\ buf' = Retrieve(buf, n)
  /\ UNCHANGED wire

\* Bound: an integer is put back only when the last one has been taken.
DoPrependInt(n) ==
  /\ AnyOwner /\ n \in IntSizes
  /\ {OwnByte, Zero} \cap Range(Content(buf)) = {}
  /\ Len(PrependedInt(Own(n))) <= PrependableBytes(buf)
  /\ buf' = Prepend(buf, PrependedInt(Own(n)))
  /\ out' = <<>>
  /\ UNCHANGED wire

DoShrink(reserve) ==
  /\ AnyOwner
  /\ buf' = Shrink(buf, reserve)
  /\ out' = <<>>
  /\ UNCHANGED wire

Init ==
  /\ app \in {"http", "any"}
  /\ buf = NewBuffer
  /\ wire = IF app = "any" THEN Raw ELSE <<>>
  /\ out = <<>>
  /\ phase = "idle"
  /\ state = "kConnected"
  /\ ctx = NewContext
  /\ resp = <<>>
  /\ script \in IF app = "http" THEN Scripts ELSE {[reqs |-> <<>>, pipelines |-> FALSE]}
  /\ sent = 0
  /\ fault = "none"

Next ==
  \/ ParseRequest \/ OnMessage \/ Send \/ HandleClose
  \/ \E n \in 1..Len(wire) : HandleRead(n)
  \/ \E n \in 1..Len(wire) : DoAppend(n)
  \/ \E n \in 0..ReadableBytes(buf) : DoRetrieve(n) \/ DoRetrieveAsString(n)
  \/ \E n \in IntSizes : DoReadInt(n) \/ DoPrependInt(n)
  \/ \E reserve \in {0, InitialSize} : DoShrink(reserve)

Spec == Init /\ [][Next]_vars

(***************************************************************************)
(* Properties                                                              *)
(***************************************************************************)

Queue == INSTANCE ByteQueue WITH q <- Content(buf)

\* Whatever operations its owner calls, whether readFd() overflows into the
\* extra buffer, the content is moved down or the vector grows, a Buffer is
\* a queue of bytes: it implements ByteQueue.
BufferIsAQueue == Queue!Spec

\* The type invariant: the indices of the buffer stay in order and inside
\* the vector whatever its owner and the network do.
TypeOK ==
  /\ app \in {"http", "any"}
  /\ WellFormed(buf)
  /\ wire \in Seq(Byte)
  /\ phase \in {"idle", "message"}
  /\ state \in {"kConnected", "kDisconnecting", "kDisconnected"}
  /\ sent \in 0..Len(script.reqs)
  /\ script.reqs \in Seq(Requests) /\ script.pipelines \in BOOLEAN
  /\ fault \in {"none", "spin", "method_assert"}

\* What a client that reads HTTP expects as the answer to a request.
\* Of the first n headers, the last one of a name counts.
ValueOf(headers, n, field) ==
  LET hs == {i \in 1..n : headers[i][2] = field}
  IN IF hs = {} THEN "" ELSE headers[CHOOSE i \in hs : \A j \in hs : j <= i][3]
ConnectionOf(item) == ValueOf(item.headers, Len(item.headers), "Connection")
Expected(item) ==
  LET close == \/ ConnectionOf(item) = "close"
               \/ item.line[4] = "HTTP/1.0" /\ ConnectionOf(item) # "Keep-Alive"
  IN IF item.line[2] \notin Methods THEN [status |-> 400, close |-> TRUE, length |-> FALSE]
     ELSE IF item.line[3] \notin Pages THEN [status |-> 404, close |-> TRUE, length |-> FALSE]
     ELSE [status |-> 200, close |-> close, length |-> ~close]

\* The server does not read bodies, does not look for a second request that
\* came with the first, and cannot take more data once it refused a line
\* whose method it knew.
Orderly ==
  /\ app = "http" /\ ~script.pipelines
  /\ \A item \in Range(script.reqs) :
       item.body = <<>> /\ (item.line[2] \in Methods => item.line[4] \in Versions)

\* The part of request i that its answer depends on has been read.
Received(i) ==
  LET item == script.reqs[i]
      due  == IF item.line[2] \in Methods THEN Len(Text(item)) ELSE 3
  IN i < sent \/ Len(Text(item)) - Len(wire) >= due

\* However the stream is cut into segments, every request an orderly client
\* has got across is answered at once, in order, once, by the answer to it
\* and not to what an earlier request left in the context; no assertion of
\* the parser fails and its loop ends.
AnswersMatchRequests ==
  Orderly /\ phase = "idle" =>
    /\ fault = "none"
    /\ resp = [i \in 1..Cardinality({j \in 1..sent : Received(j)}) |-> Expected(script.reqs[i])]

=============================================================================
