---------------------------- MODULE MCHttpServer ----------------------------
(***************************************************************************)
(* The instance of HttpServer that TLC checks.                             *)
(***************************************************************************)
EXTENDS HttpServer

Item(line, headers, body) == [line |-> line, headers |-> headers, body |-> body]

Get(path, version) == Line("GET", path, version)
Host == Header("Host", "h")
Close == Header("Connection", "close")
KeepAlive == Header("Connection", "Keep-Alive")

\* Requests that leave the connection open, and requests that end it.
Opening ==
  {Item(Get("/", "HTTP/1.1"), <<Host>>, <<>>),
   Item(Get("/hello", "HTTP/1.0"), <<Close, KeepAlive>>, <<>>)}
Ending ==
  {Item(Get("/", "HTTP/1.0"), <<Host>>, <<>>),
   Item(Get("/", "HTTP/1.1"), <<Close>>, <<>>),
   Item(Get("/nowhere", "HTTP/1.1"), <<>>, <<>>),
   Item(Line("BREW", "/", "HTTP/1.1"), <<Host>>, <<>>)}

\* A known method with an unknown version; a request with a body.
Rough ==
  {Item(Get("/", "HTTP/3"), <<Host>>, <<>>),
   Item(Line("POST", "/", "HTTP/1.1"), <<Host>>, <<<<"body">>>>)}

MCScripts ==
  {[reqs |-> <<a, b, c>>, pipelines |-> FALSE] : a \in Opening, b \in Opening, c \in Opening \cup Ending}
  \cup {[reqs |-> <<a, b>>, pipelines |-> TRUE] : a \in Opening \cup Ending, b \in Ending}
  \cup {[reqs |-> <<a, b>>, pipelines |-> FALSE] : a \in Rough, b \in Opening}

MCDead == <<"dead">>
MCZero == <<"zero">>
MCByte ==
  {MCDead, MCZero, CR, LF, OwnByte, <<"body">>, Host, Close, KeepAlive} \cup Range(Raw)
  \cup {item.line : item \in Opening \cup Ending \cup Rough}

=============================================================================
