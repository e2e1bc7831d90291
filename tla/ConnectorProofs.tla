-------------------------- MODULE ConnectorProofs --------------------------
(***************************************************************************)
(* What Connector.tla promises for every delay, every time for which the   *)
(* connector is kept, every bound, and for every application: restarting,  *)
(* using the client from another thread, destroying it at any time.  The   *)
(* promises that hold only for careful applications say so (Contract).     *)
(***************************************************************************)
EXTENDS Connector, SequenceTheorems, TLAPS

-----------------------------------------------------------------------------
(* The inductive invariants                                                *)

Typed ==
    /\ state \in {"kDisconnected", "kConnecting", "kConnected"}
    /\ channel \in {"none", "watched", "removed"}
    /\ phase \in {"events", "functors"}
    /\ pending \in Seq(Functors) /\ batch \in Seq(Functors)
    /\ retryDelay \in 1..MaxDelay /\ retries \in Seq(0..MaxDelay)
    /\ keep \in 0..KeepAlive /\ starts \in Nat

Unique(s, x) == \A i, j \in 1..Len(s) : s[i] = x /\ s[j] = x => i = j

\* What is queued, and that a functor of some kind is queued once at most.
Queue(p, b) == Elements(p) \cup Elements(b)
Once(p, b, x) ==
    /\ Unique(p, x) /\ Unique(b, x)
    /\ x \in Elements(p) => x \notin Elements(b)

\* Whatever the application does: the channel is watched exactly while the
\* attempt is under way, and a channel that was removed has one reset() to
\* come, so that reset() never drops a channel that is watched.
AttemptInv ==
    /\ phase = "events" => batch = <<>>
    /\ handing => phase = "events" /\ state = "kConnected"
    /\ channel = "watched" <=> state = "kConnecting"
    /\ channel = "removed" <=> "reset" \in Queue(pending, batch)
    /\ Once(pending, batch, "reset")
    /\ openFds = IF channel = "watched" \/ handing THEN 1 ELSE 0

\* A client that is started once has one place at a time from which
\* startInLoop() may still be called, and none once an attempt is under way
\* or has succeeded.
StartInv ==
    /\ Once(pending, batch, "start") /\ Len(retries) <= 1
    /\ call = "start" => "start" \notin Queue(pending, batch)
    /\ call = "start" \/ "start" \in Queue(pending, batch) =>
         retries = <<>> /\ state = "kDisconnected" /\ channel = "none"
    /\ retries # <<>> => state = "kDisconnected"
    /\ starts = 0 =>
         /\ call # "start" /\ "start" \notin Queue(pending, batch) /\ retries = <<>>
         /\ state = "kDisconnected" /\ channel = "none"

\* An application that keeps the contract queues calls of the connector only.
RawInv ==
    /\ Queue(pending, batch) \subseteq RawCalls
    /\ call \in {"none", "start", "stop"}
    /\ onLoop => call = "none"

\* A retry is due after the channel was reset, and before the delay that the
\* next one will have.
PlanInv ==
    \A v \in Elements(retries) :
        /\ v = 0 => channel = "none"
        /\ v < retryDelay \/ retryDelay = MaxDelay

\* After ~TcpClient() with a connection: nothing of the connector is left.
GoneInv ==
    /\ state = "kConnected" /\ channel = "none" /\ retries = <<>>
    /\ Queue(pending, batch) = {}

\* After ~TcpClient() without one: no new attempt, stopInLoop() comes before
\* time passes, and a retry timer runs out before the connector does unless
\* the delay has grown past the time for which it is kept.
StoppedInv ==
    /\ ~connect
    /\ state = "kConnecting" => "stop" \in Queue(pending, batch) /\ keep > 0
    /\ keep = 0 => channel = "none" /\ Queue(pending, batch) = {}
    /\ retryDelay <= KeepAlive /\ retryDelay # MaxDelay =>
         \A v \in Elements(retries) : v < keep

ClientInv ==
    /\ conn = "up" => state = "kConnected"
    /\ dies = "never" => clientAlive
    /\ ~clientAlive => ~handing /\ conn # "up" /\ (GoneInv \/ StoppedInv)

-----------------------------------------------------------------------------
(* Sequences                                                               *)

LEMMA ElementsOf ==
    ASSUME NEW S, NEW s \in Seq(S), NEW x
    PROVE  x \in Elements(s) <=> \E i \in 1..Len(s) : s[i] = x
BY DEF Elements

LEMMA ElementsIn ==
    ASSUME NEW S, NEW s \in Seq(S)
    PROVE  Elements(s) \subseteq S
BY DEF Elements

LEMMA EmptyElements == Elements(<<>>) = {} /\ \A x : Unique(<<>>, x)
BY DEF Elements, Unique

LEMMA AppendOnce ==
    ASSUME NEW S, NEW s \in Seq(S), NEW y \in S
    PROVE  /\ Append(s, y) \in Seq(S) /\ Elements(Append(s, y)) = Elements(s) \cup {y}
           /\ \A x : Unique(s, x) /\ (x # y \/ x \notin Elements(s)) => Unique(Append(s, y), x)
<1> DEFINE t == Append(s, y)
<1>1. /\ t \in Seq(S) /\ Len(t) = Len(s) + 1 /\ t[Len(s) + 1] = y /\ Len(s) \in Nat
      /\ \A i \in 1..Len(s) : t[i] = s[i]
  BY AppendProperties
<1> HIDE DEF t
<1>2. Elements(t) = Elements(s) \cup {y}
  <2>1. ASSUME NEW x \in Elements(t) PROVE x \in Elements(s) \cup {y}
    <3>1. PICK i \in 1..Len(t) : t[i] = x
      BY <2>1 DEF Elements
    <3>2. CASE i = Len(s) + 1
      BY <1>1, <3>1, <3>2
    <3>3. CASE i \in 1..Len(s)
      BY <1>1, <3>1, <3>3 DEF Elements
    <3> QED BY <1>1, <3>1, <3>2, <3>3
  <2>2. ASSUME NEW x \in Elements(s) \cup {y} PROVE x \in Elements(t)
    <3>1. CASE x = y
      BY <1>1, <3>1 DEF Elements
    <3>2. CASE x \in Elements(s)
      <4>1. PICK i \in 1..Len(s) : s[i] = x
        BY <3>2 DEF Elements
      <4>2. i \in 1..Len(t) /\ t[i] = x
        BY <1>1, <4>1
      <4> QED BY <4>2 DEF Elements
    <3> QED BY <2>2, <3>1, <3>2
  <2> QED BY <2>1, <2>2
<1>3. ASSUME NEW x, Unique(s, x), x # y \/ x \notin Elements(s) PROVE Unique(t, x)
  <2> SUFFICES ASSUME NEW i \in 1..Len(t), NEW j \in 1..Len(t), t[i] = x, t[j] = x PROVE i = j
    BY DEF Unique
  <2>1. CASE x # y
    <3>1. i \in 1..Len(s) /\ j \in 1..Len(s)
      BY <1>1, <2>1
    <3> QED BY <1>1, <1>3, <3>1 DEF Unique
  <2>2. CASE x \notin Elements(s)
    <3>1. \A k \in 1..Len(s) : s[k] # x
      BY <2>2 DEF Elements
    <3>2. i \notin 1..Len(s) /\ j \notin 1..Len(s)
      BY <1>1, <3>1
    <3> QED BY <1>1, <3>2
  <2> QED BY <1>3, <2>1, <2>2
<1> QED BY <1>1, <1>2, <1>3 DEF t

LEMMA TailOnce ==
    ASSUME NEW S, NEW s \in Seq(S), s # <<>>
    PROVE  /\ Tail(s) \in Seq(S) /\ Head(s) \in S /\ Head(s) \in Elements(s)
           /\ Elements(Tail(s)) \subseteq Elements(s) /\ Elements(s) \subseteq Elements(Tail(s)) \cup {Head(s)}
           /\ \A x : Unique(s, x) => Unique(Tail(s), x)
           /\ Unique(s, Head(s)) => Head(s) \notin Elements(Tail(s))
<1> DEFINE t == Tail(s)
<1>1. /\ t \in Seq(S) /\ Len(t) = Len(s) - 1 /\ Head(s) = s[1] /\ Len(s) \in Nat /\ Len(s) > 0
      /\ \A i \in 1..Len(t) : t[i] = s[i + 1]
  BY HeadTailProperties
<1>2. Head(s) \in S /\ Head(s) \in Elements(s)
  BY <1>1 DEF Elements
<1> HIDE DEF t
<1>3. Elements(t) \subseteq Elements(s)
  BY <1>1 DEF Elements
<1>4. Elements(s) \subseteq Elements(t) \cup {Head(s)}
  <2> SUFFICES ASSUME NEW i \in 1..Len(s) PROVE s[i] \in Elements(t) \cup {Head(s)}
    BY DEF Elements
  <2>1. CASE i = 1
    BY <1>1, <2>1
  <2>2. CASE i # 1
    <3>1. i - 1 \in 1..Len(t) /\ t[i - 1] = s[i]
      BY <1>1, <2>2
    <3> QED BY <3>1 DEF Elements
  <2> QED BY <2>1, <2>2
<1>5. ASSUME NEW x, Unique(s, x) PROVE Unique(t, x)
  <2> SUFFICES ASSUME NEW i \in 1..Len(t), NEW j \in 1..Len(t), t[i] = x, t[j] = x PROVE i = j
    BY DEF Unique
  <2>1. i + 1 \in 1..Len(s) /\ j + 1 \in 1..Len(s) /\ s[i + 1] = x /\ s[j + 1] = x
    BY <1>1
  <2>2. i + 1 = j + 1
    BY <1>5, <2>1 DEF Unique
  <2> QED BY <2>2
<1>6. Unique(s, Head(s)) => Head(s) \notin Elements(t)
  <2> SUFFICES ASSUME Unique(s, Head(s)), NEW i \in 1..Len(t), t[i] = Head(s) PROVE FALSE
    BY DEF Elements
  <2>1. i + 1 \in 1..Len(s) /\ s[i + 1] = Head(s) /\ 1 \in 1..Len(s) /\ s[1] = Head(s)
    BY <1>1
  <2> QED BY <2>1 DEF Unique
<1> QED BY <1>1, <1>2, <1>3, <1>4, <1>5, <1>6 DEF t

\* A timer is taken out of the list.
LEMMA WithoutOne ==
    ASSUME NEW S, NEW s \in Seq(S), NEW i \in 1..Len(s)
    PROVE  /\ Without(s, i) \in Seq(S) /\ Len(Without(s, i)) = Len(s) - 1
           /\ Elements(Without(s, i)) \subseteq Elements(s)
<1> DEFINE a == SubSeq(s, 1, i - 1)
           b == SubSeq(s, i + 1, Len(s))
           t == a \o b
<1>1. Len(s) \in Nat
  OBVIOUS
<1>2. /\ a \in Seq(S) /\ Len(a) = i - 1 /\ \A k \in 1..i - 1 : a[k] = s[k]
  BY <1>1, SubSeqProperties
<1>3. /\ b \in Seq(S) /\ Len(b) = Len(s) - i /\ \A k \in 1..Len(s) - i : b[k] = s[i + k]
  BY <1>1, SubSeqProperties
<1> HIDE DEF a, b
<1>4. /\ t \in Seq(S) /\ Len(t) = Len(a) + Len(b)
      /\ \A k \in 1..Len(t) : t[k] = IF k <= Len(a) THEN a[k] ELSE b[k - Len(a)]
  <2>1. a \in Seq(S) /\ b \in Seq(S)
    BY <1>2, <1>3
  <2> QED BY <2>1
<1> HIDE DEF t
<1>5. \A k \in 1..Len(t) : \E m \in 1..Len(s) : t[k] = s[m]
  <2> TAKE k \in 1..Len(t)
  <2>1. CASE k <= i - 1
    <3>1. k \in 1..Len(s) /\ t[k] = s[k]
      <4>1. k \in 1..i - 1 /\ k \in 1..Len(s) /\ k <= Len(a)
        BY <1>1, <1>2, <1>3, <1>4, <2>1
      <4>2. t[k] = a[k] /\ a[k] = s[k]
        BY <1>2, <1>4, <4>1
      <4> QED BY <4>1, <4>2
    <3> QED BY <3>1
  <2>2. CASE ~(k <= i - 1)
    <3>1. k - (i - 1) \in 1..Len(s) - i /\ k + 1 \in 1..Len(s)
      BY <1>1, <1>2, <1>3, <1>4, <2>2
    <3>2. t[k] = b[k - (i - 1)]
      BY <1>1, <1>2, <1>4, <2>2
    <3>3. b[k - (i - 1)] = s[i + (k - (i - 1))]
      BY <1>3, <3>1
    <3>4. i + (k - (i - 1)) = k + 1
      BY <1>1, <1>4
    <3> QED BY <3>1, <3>2, <3>3, <3>4
  <2> QED BY <2>1, <2>2
<1>6. Elements(t) \subseteq Elements(s)
  BY <1>5 DEF Elements
<1>7. Without(s, i) = t
  BY DEF Without, t, a, b
<1>8. Len(t) = Len(s) - 1
  BY <1>1, <1>2, <1>3, <1>4
<1> QED BY <1>4, <1>6, <1>7, <1>8

-----------------------------------------------------------------------------
(* The queue of functors                                                   *)

LEMMA QueueAppend ==
    ASSUME NEW p \in Seq(Functors), NEW b \in Seq(Functors), NEW y \in Functors
    PROVE  /\ Append(p, y) \in Seq(Functors) /\ Queue(Append(p, y), b) = Queue(p, b) \cup {y}
           /\ \A x : Once(p, b, x) /\ (x # y \/ x \notin Queue(p, b)) => Once(Append(p, y), b, x)
<1>1. /\ Append(p, y) \in Seq(Functors) /\ Elements(Append(p, y)) = Elements(p) \cup {y}
      /\ \A x : Unique(p, x) /\ (x # y \/ x \notin Elements(p)) => Unique(Append(p, y), x)
  BY AppendOnce
<1> QED BY <1>1 DEF Queue, Once

\* queueInLoop()
LEMMA QueueInLoop ==
    ASSUME Typed, NEW y \in Functors, pending' = Append(pending, y), batch' = batch
    PROVE  /\ pending' \in Seq(Functors) /\ Queue(pending', batch') = Queue(pending, batch) \cup {y}
           /\ \A x : Once(pending, batch, x) /\ (x # y \/ x \notin Queue(pending, batch)) =>
                     Once(pending', batch', x)
<1>1. pending \in Seq(Functors) /\ batch \in Seq(Functors)
  BY DEF Typed
<1>2. /\ Append(pending, y) \in Seq(Functors) /\ Queue(Append(pending, y), batch) = Queue(pending, batch) \cup {y}
      /\ \A x : Once(pending, batch, x) /\ (x # y \/ x \notin Queue(pending, batch)) =>
                Once(Append(pending, y), batch, x)
  BY <1>1, QueueAppend, Zenon
<1> QED BY <1>2

LEMMA QueueTail ==
    ASSUME NEW p \in Seq(Functors), NEW b \in Seq(Functors), b # <<>>
    PROVE  /\ Tail(b) \in Seq(Functors) /\ Head(b) \in Functors /\ Head(b) \in Queue(p, b)
           /\ Queue(p, Tail(b)) \subseteq Queue(p, b)
           /\ Queue(p, b) \subseteq Queue(p, Tail(b)) \cup {Head(b)}
           /\ \A x : Once(p, b, x) => Once(p, Tail(b), x)
           /\ Once(p, b, Head(b)) => Head(b) \notin Queue(p, Tail(b))
<1>1. /\ Tail(b) \in Seq(Functors) /\ Head(b) \in Functors /\ Head(b) \in Elements(b)
      /\ Elements(Tail(b)) \subseteq Elements(b) /\ Elements(b) \subseteq Elements(Tail(b)) \cup {Head(b)}
      /\ \A x : Unique(b, x) => Unique(Tail(b), x)
      /\ Unique(b, Head(b)) => Head(b) \notin Elements(Tail(b))
  BY TailOnce
<1> QED BY <1>1 DEF Queue, Once

LEMMA QueueSwap ==
    ASSUME NEW p
    PROVE  /\ Queue(<<>>, p) = Queue(p, <<>>) /\ Queue(<<>>, <<>>) = {}
           /\ \A x : Once(p, <<>>, x) => Once(<<>>, p, x)
BY EmptyElements DEF Queue, Once

\* The two functors of ~TcpClient() are queued one after the other.
LEMMA TwoAppends ==
    ASSUME NEW S, NEW s \in Seq(S), NEW a \in S, NEW b \in S
    PROVE  /\ s \o <<a, b>> = Append(Append(s, a), b)
           /\ s \o <<a>> \o <<b>> = Append(Append(s, a), b)
           /\ s \o <<a>> \o <<>> = Append(s, a)
OBVIOUS

-----------------------------------------------------------------------------
(* The attempts                                                            *)

LEMMA NextDelayIs ==
    ASSUME NEW d \in 1..MaxDelay
    PROVE  /\ NextDelay(d) \in 1..MaxDelay /\ d <= NextDelay(d)
           /\ d < NextDelay(d) \/ NextDelay(d) = MaxDelay
BY ConnectorAssumption DEF NextDelay, Smaller

\* The outcomes of retry().
LEMMA RetryCases ==
    ASSUME Typed, NEW left \in Seq(0..MaxDelay), NEW fds, NEW wanted, Retry(fds, left, wanted)
    PROVE  /\ openFds' = fds - 1 /\ state' = "kDisconnected"
           /\ retries' \in Seq(0..MaxDelay) /\ retryDelay' \in 1..MaxDelay
           /\ \/ retries' = left /\ retryDelay' = retryDelay
              \/ wanted /\ retries' = Append(left, retryDelay) /\ retryDelay' = NextDelay(retryDelay)
<1>1. openFds' = fds - 1 /\ state' = "kDisconnected"
  BY DEF Retry
<1>2. \/ retries' = left /\ retryDelay' = retryDelay
      \/ wanted /\ retries' = Append(left, retryDelay) /\ retryDelay' = NextDelay(retryDelay)
  BY Zenon DEF Retry
<1>3. retryDelay \in 1..MaxDelay /\ retryDelay \in 0..MaxDelay /\ MaxDelay \in Nat
  BY ConnectorAssumption DEF Typed
<1>4. NextDelay(retryDelay) \in 1..MaxDelay
  BY <1>3, NextDelayIs
<1>5. Append(left, retryDelay) \in Seq(0..MaxDelay)
  BY <1>3, AppendProperties
<1>6. retries' \in Seq(0..MaxDelay) /\ retryDelay' \in 1..MaxDelay
  BY <1>2, <1>3, <1>4, <1>5
<1> QED BY <1>1, <1>2, <1>6

\* The outcomes of startInLoop(): an attempt is under way, a retry is
\* planned, or nothing more comes of it.
LEMMA StartCases ==
    ASSUME Typed, NEW left \in Seq(0..MaxDelay), NEW wanted, StartInLoop(left, wanted), openFds \in Int
    PROVE  /\ state = "kDisconnected" /\ retries' \in Seq(0..MaxDelay) /\ retryDelay' \in 1..MaxDelay
           /\ \/ /\ wanted /\ channel = "none" /\ state' = "kConnecting" /\ channel' = "watched"
                 /\ openFds' = openFds + 1 /\ retries' = left /\ retryDelay' = retryDelay
              \/ /\ wanted /\ state' = "kDisconnected" /\ channel' = channel /\ openFds' = openFds
                 /\ retries' = Append(left, retryDelay) /\ retryDelay' = NextDelay(retryDelay)
              \/ /\ state' = "kDisconnected" /\ channel' = channel /\ openFds' = openFds
                 /\ retries' = left /\ retryDelay' = retryDelay
<1>1. state = "kDisconnected" /\ retryDelay \in 1..MaxDelay
  BY DEF StartInLoop, Typed
<1>2. CASE wanted
  <2>1. Connect(left)
    BY <1>2, Zenon DEF StartInLoop
  <2>2. CASE /\ channel = "none" /\ state' = "kConnecting" /\ channel' = "watched"
             /\ openFds' = openFds + 1 /\ retries' = left /\ retryDelay' = retryDelay
    BY <1>1, <1>2, <2>2
  <2>3. CASE Retry(openFds + 1, left, TRUE) /\ channel' = channel
    <3>1. /\ openFds' = openFds + 1 - 1 /\ state' = "kDisconnected"
          /\ retries' = Append(left, retryDelay) /\ retryDelay' = NextDelay(retryDelay)
      BY <2>3 DEF Retry
    <3>2. retries' \in Seq(0..MaxDelay) /\ retryDelay' \in 1..MaxDelay
      BY <2>3, RetryCases
    <3> QED BY <1>1, <1>2, <2>3, <3>1, <3>2
  <2>4. CASE retries' = left /\ UNCHANGED <<state, channel, retryDelay, openFds>>
    BY <1>1, <2>4
  <2> QED BY <2>1, <2>2, <2>3, <2>4 DEF Connect
<1>3. CASE ~wanted
  <2>1. retries' = left /\ UNCHANGED <<state, channel, retryDelay, openFds>>
    BY <1>3, Zenon DEF StartInLoop
  <2> QED BY <1>1, <2>1
<1> QED BY <1>2, <1>3

LEMMA OpenFdsIs ==
    ASSUME Typed, AttemptInv
    PROVE  /\ openFds \in Int
           /\ channel = "watched" => openFds = 1 /\ ~handing
           /\ handing => openFds = 1
           /\ ~handing /\ channel # "watched" => openFds = 0
<1>1. channel = "watched" => ~handing
  BY DEF AttemptInv
<1> QED BY <1>1 DEF AttemptInv

-----------------------------------------------------------------------------
(* Attempts, whatever the application does                                 *)

\* A step that leaves the attempt and its reset() alone.
LEMMA AttemptKept ==
    ASSUME Typed, AttemptInv, handing' = handing, state' = state,
           channel' = channel, openFds' = openFds, retryDelay' = retryDelay,
           retries' \in Seq(0..MaxDelay), keep' \in 0..KeepAlive, starts' \in Nat,
           phase' \in {"events", "functors"}, phase' = "events" => batch' = <<>>,
           handing => phase' = "events",
           pending' \in Seq(Functors), batch' \in Seq(Functors), Once(pending', batch', "reset"),
           "reset" \in Queue(pending', batch') <=> "reset" \in Queue(pending, batch)
    PROVE  Typed' /\ AttemptInv'
<1>1. Typed'
  BY DEF Typed
<1>2. (phase = "events" => batch = <<>>)' /\ (channel = "watched" <=> state = "kConnecting")'
  BY DEF AttemptInv
<1>3. (handing => phase = "events" /\ state = "kConnected")'
  BY Zenon DEF AttemptInv
<1>4. (channel = "removed" <=> "reset" \in Queue(pending, batch))' /\ Once(pending, batch, "reset")'
  BY Zenon DEF AttemptInv
<1>5. (openFds = IF channel = "watched" \/ handing THEN 1 ELSE 0)'
  BY Zenon DEF AttemptInv
<1> QED BY <1>1, <1>2, <1>3, <1>4, <1>5, Zenon DEF AttemptInv

\* The same for a step that also leaves the queue and the rest alone.
LEMMA AttemptSame ==
    ASSUME Typed, AttemptInv, handing' = handing, state' = state, channel' = channel, openFds' = openFds,
           retryDelay' = retryDelay, retries' \in Seq(0..MaxDelay), keep' \in 0..KeepAlive,
           starts' \in Nat, phase' = phase, pending' = pending, batch' = batch
    PROVE  Typed' /\ AttemptInv'
<1>1. /\ phase' \in {"events", "functors"} /\ (phase' = "events" => batch' = <<>>)
      /\ pending' \in Seq(Functors) /\ batch' \in Seq(Functors) /\ Once(pending', batch', "reset")
      /\ "reset" \in Queue(pending', batch') <=> "reset" \in Queue(pending, batch)
      /\ handing => phase' = "events"
  BY DEF Typed, AttemptInv
<1> QED BY <1>1, AttemptKept

\* The same for a step that queues another functor than reset().
LEMMA AttemptQueues ==
    ASSUME Typed, AttemptInv, handing' = handing, state' = state, channel' = channel, openFds' = openFds,
           retryDelay' = retryDelay, retries' = retries, keep' \in 0..KeepAlive, starts' = starts,
           phase' = phase, batch' = batch,
           \/ \E y \in Functors \ {"reset"} : pending' = Append(pending, y)
           \/ \E y, z \in Functors \ {"reset"} : pending' = Append(Append(pending, y), z)
    PROVE  Typed' /\ AttemptInv'
<1>1. /\ phase' \in {"events", "functors"} /\ (phase' = "events" => batch' = <<>>)
      /\ batch' \in Seq(Functors) /\ (handing => phase' = "events")
      /\ retries' \in Seq(0..MaxDelay) /\ starts' \in Nat
      /\ pending \in Seq(Functors) /\ batch \in Seq(Functors) /\ Once(pending, batch, "reset")
  BY DEF Typed, AttemptInv
<1>2. /\ pending' \in Seq(Functors) /\ Once(pending', batch', "reset")
      /\ "reset" \in Queue(pending', batch') <=> "reset" \in Queue(pending, batch)
  <2>1. ASSUME NEW p \in Seq(Functors), NEW y \in Functors \ {"reset"}, Once(p, batch, "reset")
        PROVE  /\ Append(p, y) \in Seq(Functors) /\ Once(Append(p, y), batch, "reset")
               /\ "reset" \in Queue(Append(p, y), batch) <=> "reset" \in Queue(p, batch)
    <3>1. /\ Append(p, y) \in Seq(Functors) /\ Queue(Append(p, y), batch) = Queue(p, batch) \cup {y}
          /\ \A x : Once(p, batch, x) /\ (x # y \/ x \notin Queue(p, batch)) => Once(Append(p, y), batch, x)
      BY <1>1, QueueAppend
    <3> QED BY <2>1, <3>1
  <2>2. CASE \E y \in Functors \ {"reset"} : pending' = Append(pending, y)
    BY <1>1, <2>1, <2>2
  <2>3. CASE \E y, z \in Functors \ {"reset"} : pending' = Append(Append(pending, y), z)
    <3>1. PICK y \in Functors \ {"reset"}, z \in Functors \ {"reset"} : pending' = Append(Append(pending, y), z)
      BY <2>3
    <3>2. /\ Append(pending, y) \in Seq(Functors) /\ Once(Append(pending, y), batch, "reset")
          /\ "reset" \in Queue(Append(pending, y), batch) <=> "reset" \in Queue(pending, batch)
      BY <1>1, <2>1
    <3>3. /\ Append(Append(pending, y), z) \in Seq(Functors) /\ Once(Append(Append(pending, y), z), batch, "reset")
          /\ "reset" \in Queue(Append(Append(pending, y), z), batch) <=> "reset" \in Queue(Append(pending, y), batch)
      BY <2>1, <3>2
    <3> QED BY <3>1, <3>2, <3>3
  <2> QED BY <2>2, <2>3
<1> QED BY <1>1, <1>2, AttemptKept

\* A step of an attempt: the descriptor follows the channel and `handing'.
LEMMA AttemptMoves ==
    ASSUME Typed', (phase = "events" => batch = <<>>)', ~handing',
           (channel = "watched" <=> state = "kConnecting")',
           (channel = "removed" <=> "reset" \in Queue(pending, batch))', Once(pending, batch, "reset")',
           channel' = "watched" => openFds' = 1, channel' # "watched" => openFds' = 0
    PROVE  AttemptInv'
<1>1. (openFds = IF channel = "watched" \/ handing THEN 1 ELSE 0)'
  <2>1. CASE channel' = "watched"
    BY <2>1, Zenon
  <2>2. CASE channel' # "watched"
    BY <2>2, Zenon
  <2> QED BY <2>1, <2>2
<1> QED BY <1>1, Zenon DEF AttemptInv

\* startInLoop() in a step that changes nothing else of the attempt.
LEMMA AttemptStarts ==
    ASSUME Typed, AttemptInv, ~handing, handing' = handing,
           NEW left \in Seq(0..MaxDelay), NEW wanted, StartInLoop(left, wanted),
           phase' = phase, (phase = "events" => batch' = <<>>), keep' = keep, starts' \in Nat,
           pending' \in Seq(Functors), batch' \in Seq(Functors), Once(pending', batch', "reset"),
           "reset" \in Queue(pending', batch') <=> "reset" \in Queue(pending, batch)
    PROVE  Typed' /\ AttemptInv'
<1>1. openFds \in Int /\ (channel # "watched" => openFds = 0)
  BY OpenFdsIs
<1>2. /\ state = "kDisconnected" /\ retries' \in Seq(0..MaxDelay) /\ retryDelay' \in 1..MaxDelay
      /\ \/ channel = "none" /\ state' = "kConnecting" /\ channel' = "watched" /\ openFds' = openFds + 1
         \/ state' = "kDisconnected" /\ channel' = channel /\ openFds' = openFds
  BY <1>1, StartCases
<1>3. Typed'
  BY <1>2 DEF Typed
<1>4. channel # "watched" /\ (channel = "removed" <=> "reset" \in Queue(pending, batch))
  BY <1>2 DEF AttemptInv
<1>5. /\ (channel = "watched" <=> state = "kConnecting")'
      /\ channel' = "watched" => openFds' = 1
      /\ channel' # "watched" => openFds' = 0
  BY <1>1, <1>2, <1>4
<1>6. (channel = "removed" <=> "reset" \in Queue(pending, batch))'
  BY <1>2, <1>4
<1>7. ~handing' /\ (phase = "events" => batch = <<>>)'
  OBVIOUS
<1> QED BY <1>3, <1>5, <1>6, <1>7, AttemptMoves

LEMMA HandleErrorAttempt ==
    ASSUME Typed, AttemptInv, HandleError
    PROVE  Typed' /\ AttemptInv'
<1>1. /\ phase = "events" /\ ~handing /\ channel = "watched" /\ state = "kConnecting"
      /\ channel' = "removed" /\ pending' = Append(pending, "reset") /\ Retry(openFds, retries, connect)
      /\ phase' = phase /\ batch' = batch /\ handing' = handing /\ keep' = keep /\ starts' = starts
  BY DEF HandleError, InEvents, RemoveAndResetChannel, clientVars, userVars
<1>2. openFds = 1 /\ "reset" \notin Queue(pending, batch) /\ batch = <<>> /\ Once(pending, batch, "reset")
  BY <1>1, OpenFdsIs DEF AttemptInv
<1>3. pending \in Seq(Functors) /\ batch \in Seq(Functors) /\ "reset" \in Functors
      /\ retries \in Seq(0..MaxDelay)
  BY DEF Typed, Functors
<1>4. /\ pending' \in Seq(Functors) /\ "reset" \in Queue(pending', batch')
      /\ Once(pending', batch', "reset")
  <2>1. /\ pending' \in Seq(Functors) /\ Queue(pending', batch') = Queue(pending, batch) \cup {"reset"}
        /\ \A x : Once(pending, batch, x) /\ (x # "reset" \/ x \notin Queue(pending, batch)) =>
                  Once(pending', batch', x)
    BY <1>1, <1>3, QueueInLoop
  <2> QED BY <1>2, <2>1
<1>5. /\ openFds' = openFds - 1 /\ state' = "kDisconnected"
      /\ retries' \in Seq(0..MaxDelay) /\ retryDelay' \in 1..MaxDelay
  BY <1>1, <1>3, RetryCases
<1>6. Typed'
  BY <1>1, <1>4, <1>5 DEF Typed
<1>7. (channel = "watched" <=> state = "kConnecting")' /\ openFds' = 0 /\ channel' # "watched"
  BY <1>1, <1>2, <1>5
<1>8. ~handing' /\ (phase = "events" => batch = <<>>)'
  BY <1>1, <1>2
<1>9. (channel = "removed" <=> "reset" \in Queue(pending, batch))' /\ Once(pending, batch, "reset")'
  BY <1>1, <1>4
<1> QED BY <1>6, <1>7, <1>8, <1>9, AttemptMoves

LEMMA HandleWriteAttempt ==
    ASSUME Typed, AttemptInv, HandleWrite
    PROVE  Typed' /\ AttemptInv'
<1>1. /\ phase = "events" /\ ~handing /\ channel = "watched" /\ state = "kConnecting"
      /\ channel' = "removed" /\ pending' = Append(pending, "reset") /\ state' = "kConnected"
      /\ phase' = phase /\ batch' = batch /\ keep' = keep /\ starts' = starts
      /\ retries' = retries /\ retryDelay' = retryDelay
      /\ openFds' = IF connect THEN openFds ELSE openFds - 1
  BY DEF HandleWrite, InEvents, RemoveAndResetChannel, clientVars, userVars
<1>2. openFds = 1 /\ "reset" \notin Queue(pending, batch) /\ batch = <<>> /\ Once(pending, batch, "reset")
  BY <1>1, OpenFdsIs DEF AttemptInv
<1>3. pending \in Seq(Functors) /\ batch \in Seq(Functors) /\ "reset" \in Functors
  BY DEF Typed, Functors
<1>4. /\ pending' \in Seq(Functors) /\ "reset" \in Queue(pending', batch')
      /\ Once(pending', batch', "reset")
  <2>1. /\ pending' \in Seq(Functors) /\ Queue(pending', batch') = Queue(pending, batch) \cup {"reset"}
        /\ \A x : Once(pending, batch, x) /\ (x # "reset" \/ x \notin Queue(pending, batch)) =>
                  Once(pending', batch', x)
    BY <1>1, <1>3, QueueInLoop
  <2> QED BY <1>2, <2>1
<1>6. Typed'
  BY <1>1, <1>4 DEF Typed
<1>7. /\ (channel = "watched" <=> state = "kConnecting")' /\ channel' # "watched"
      /\ (phase = "events" => batch = <<>>)' /\ (phase = "events" /\ state = "kConnected")'
  BY <1>1, <1>2
<1>8. (channel = "removed" <=> "reset" \in Queue(pending, batch))' /\ Once(pending, batch, "reset")'
  BY <1>1, <1>4
<1>9. CASE connect
  <2>1. handing' /\ openFds' = 1
    BY <1>1, <1>2, <1>9, Zenon DEF HandleWrite
  <2>2. (openFds = IF channel = "watched" \/ handing THEN 1 ELSE 0)'
    BY <2>1, Zenon
  <2> QED BY <1>6, <1>7, <1>8, <2>2, Zenon DEF AttemptInv
<1>10. CASE ~connect
  <2>1. ~handing'
    BY <1>10, Zenon DEF HandleWrite
  <2>2. openFds' = openFds - 1
    BY <1>1, <1>10, Zenon
  <2>3. openFds' = 0
    BY <1>2, <2>2
  <2> QED BY <1>6, <1>7, <1>8, <2>1, <2>3, AttemptMoves
<1> QED BY <1>9, <1>10

LEMMA NewConnectionAttempt ==
    ASSUME Typed, AttemptInv, NewConnection
    PROVE  Typed' /\ AttemptInv'
<1>1. /\ handing /\ openFds' = openFds - 1 /\ state' = state /\ channel' = channel
      /\ phase' = phase /\ pending' = pending /\ batch' = batch /\ keep' = keep /\ starts' = starts
      /\ retries' = retries /\ retryDelay' = retryDelay
  BY DEF NewConnection, loopVars, userVars
<1>2. ~handing'
  BY Zenon DEF NewConnection
<1>3. openFds = 1 /\ channel # "watched"
  BY <1>1, OpenFdsIs
<1>4. openFds' = 0 /\ channel' # "watched"
  BY <1>1, <1>3
<1>5. Typed'
  BY <1>1 DEF Typed
<1>6. /\ (phase = "events" => batch = <<>>)' /\ (channel = "watched" <=> state = "kConnecting")'
      /\ (channel = "removed" <=> "reset" \in Queue(pending, batch))' /\ Once(pending, batch, "reset")'
  BY <1>1 DEF AttemptInv
<1> QED BY <1>2, <1>4, <1>5, <1>6, AttemptMoves

LEMMA RetryTimerAttempt ==
    ASSUME Typed, AttemptInv, RetryTimer
    PROVE  Typed' /\ AttemptInv'
<1>1. /\ phase = "events" /\ ~handing /\ phase' = phase /\ pending' = pending /\ batch' = batch
      /\ handing' = handing /\ keep' = keep /\ starts' = starts
  BY DEF RetryTimer, InEvents, loopVars, clientVars, userVars
<1>2. PICK i \in DOMAIN retries : StartInLoop(Without(retries, i), connect)
  BY DEF RetryTimer
<1>3. retries \in Seq(0..MaxDelay) /\ i \in 1..Len(retries)
  BY DEF Typed
<1>4. Without(retries, i) \in Seq(0..MaxDelay)
  BY <1>3, WithoutOne
<1>5. /\ (phase = "events" => batch' = <<>>) /\ starts' \in Nat
      /\ pending' \in Seq(Functors) /\ batch' \in Seq(Functors) /\ Once(pending', batch', "reset")
      /\ "reset" \in Queue(pending', batch') <=> "reset" \in Queue(pending, batch)
  BY <1>1 DEF Typed, AttemptInv
<1> QED BY <1>1, <1>2, <1>4, <1>5, AttemptStarts

LEMMA LoopStartAttempt ==
    ASSUME Typed, AttemptInv, LoopStart
    PROVE  Typed' /\ AttemptInv'
<1>1. /\ ~handing /\ phase' = phase /\ pending' = pending /\ batch' = batch
      /\ handing' = handing /\ keep' = keep /\ starts' = starts + 1 /\ StartInLoop(retries, TRUE)
  BY DEF LoopStart, loopVars, clientVars
<1>2. /\ (phase = "events" => batch' = <<>>) /\ starts' \in Nat /\ retries \in Seq(0..MaxDelay)
      /\ pending' \in Seq(Functors) /\ batch' \in Seq(Functors) /\ Once(pending', batch', "reset")
      /\ "reset" \in Queue(pending', batch') <=> "reset" \in Queue(pending, batch)
  BY <1>1 DEF Typed, AttemptInv
<1> QED BY <1>1, <1>2, AttemptStarts

LEMMA RunFunctorAttempt ==
    ASSUME Typed, AttemptInv, RunFunctor
    PROVE  Typed' /\ AttemptInv'
<1> DEFINE f == Head(batch)
<1>1. /\ phase = "functors" /\ batch # <<>> /\ batch' = Tail(batch) /\ phase' = phase
      /\ handing' = handing /\ starts' = starts
  BY DEF RunFunctor, userVars
<1>2. /\ pending \in Seq(Functors) /\ batch \in Seq(Functors) /\ retries \in Seq(0..MaxDelay)
      /\ keep \in 0..KeepAlive /\ starts \in Nat /\ retryDelay \in 1..MaxDelay /\ KeepAlive \in Nat
  BY ConnectorAssumption DEF Typed
<1>3. ~handing /\ Once(pending, batch, "reset") /\ (channel = "removed" <=> "reset" \in Queue(pending, batch))
  BY <1>1 DEF AttemptInv
<1>4. /\ batch' \in Seq(Functors) /\ f \in Queue(pending, batch)
      /\ Queue(pending, batch') \subseteq Queue(pending, batch)
      /\ Queue(pending, batch) \subseteq Queue(pending, batch') \cup {f}
      /\ Once(pending, batch', "reset")
      /\ f = "reset" => "reset" \notin Queue(pending, batch')
  BY <1>1, <1>2, <1>3, QueueTail
<1>5. f # "reset" => ("reset" \in Queue(pending, batch') <=> "reset" \in Queue(pending, batch))
  BY <1>4
<1>6. (phase = "events" => batch' = <<>>) /\ phase' # "events" /\ phase' \in {"events", "functors"}
  BY <1>1
<1>7. CASE f = "start" /\ StartInLoop(retries, connect) /\ UNCHANGED <<pending, conn, keep>>
  <2>1. /\ pending' \in Seq(Functors) /\ Once(pending', batch', "reset") /\ keep' = keep /\ starts' \in Nat
        /\ "reset" \in Queue(pending', batch') <=> "reset" \in Queue(pending, batch)
    BY <1>1, <1>2, <1>4, <1>5, <1>7
  <2>2. StartInLoop(retries, connect)
    BY <1>7
  <2> QED BY <1>1, <1>2, <1>3, <1>4, <1>6, <2>1, <2>2, AttemptStarts
<1>8. CASE f = "stop" /\ StopInLoop /\ UNCHANGED <<failures, refused, conn, keep>>
  <2>1. CASE state = "kConnecting"
    <3>1. channel' = "removed" /\ pending' = Append(pending, "reset") /\ Retry(openFds, retries, connect)
      BY <1>8, <2>1 DEF StopInLoop, RemoveAndResetChannel
    <3>2. channel = "watched" /\ openFds = 1
      BY <2>1, OpenFdsIs DEF AttemptInv
    <3>3. /\ openFds' = openFds - 1 /\ state' = "kDisconnected"
          /\ retries' \in Seq(0..MaxDelay) /\ retryDelay' \in 1..MaxDelay
      BY <1>2, <3>1, RetryCases
    <3>4. "reset" \notin Queue(pending, batch') /\ "reset" \in Functors
      BY <1>3, <1>4, <3>2 DEF Functors
    <3>5. /\ pending' \in Seq(Functors) /\ Queue(pending', batch') = Queue(pending, batch') \cup {"reset"}
          /\ Once(pending', batch', "reset")
      <4>1. /\ Append(pending, "reset") \in Seq(Functors)
            /\ Queue(Append(pending, "reset"), batch') = Queue(pending, batch') \cup {"reset"}
            /\ \A x : Once(pending, batch', x) /\ (x # "reset" \/ x \notin Queue(pending, batch')) =>
                      Once(Append(pending, "reset"), batch', x)
        BY <1>2, <1>4, <3>4, QueueAppend
      <4> QED BY <1>4, <3>1, <3>4, <4>1
    <3>6. Typed'
      BY <1>1, <1>2, <1>4, <1>6, <1>8, <3>1, <3>3, <3>5 DEF Typed
    <3>7. /\ (channel = "watched" <=> state = "kConnecting")' /\ openFds' = 0 /\ channel' # "watched"
          /\ (channel = "removed" <=> "reset" \in Queue(pending, batch))'
          /\ (phase = "events" => batch = <<>>)'
      BY <1>6, <3>1, <3>2, <3>3, <3>5
    <3>8. ~handing'
      BY <1>1, <1>3
    <3> QED BY <3>5, <3>6, <3>7, <3>8, AttemptMoves
  <2>2. CASE state # "kConnecting"
    <3>1. /\ state' = state /\ channel' = channel /\ retryDelay' = retryDelay /\ retries' = retries
          /\ openFds' = openFds /\ pending' = pending /\ keep' = keep
      BY <1>8, <2>2 DEF StopInLoop
    <3>2. /\ pending' \in Seq(Functors) /\ Once(pending', batch', "reset") /\ keep' \in 0..KeepAlive
          /\ retries' \in Seq(0..MaxDelay) /\ starts' \in Nat
          /\ "reset" \in Queue(pending', batch') <=> "reset" \in Queue(pending, batch)
      BY <1>1, <1>2, <1>4, <1>5, <1>8, <3>1
    <3> QED BY <1>1, <1>3, <1>4, <1>6, <3>1, <3>2, AttemptKept
  <2> QED BY <2>1, <2>2
<1>9. CASE f = "reset" /\ channel' = "none" /\ UNCHANGED <<state, retryDelay, retries, openFds, pending, keep>>
  <2>1. channel = "removed" /\ "reset" \notin Queue(pending, batch') /\ state # "kConnecting" /\ openFds = 0
    <3>1. channel = "removed" /\ "reset" \notin Queue(pending, batch')
      BY <1>3, <1>4, <1>9
    <3> QED BY <1>3, <3>1, OpenFdsIs DEF AttemptInv
  <2>2. Typed'
    BY <1>1, <1>4, <1>9 DEF Typed
  <2>3. /\ (channel = "watched" <=> state = "kConnecting")' /\ openFds' = 0 /\ channel' # "watched"
        /\ (channel = "removed" <=> "reset" \in Queue(pending, batch))' /\ Once(pending, batch, "reset")'
        /\ (phase = "events" => batch = <<>>)'
    BY <1>4, <1>6, <1>9, <2>1
  <2>4. ~handing'
    BY <1>1, <1>3
  <2> QED BY <2>2, <2>3, <2>4, AttemptMoves
<1>10. CASE /\ f # "reset" /\ keep' \in 0..KeepAlive
            /\ UNCHANGED <<state, channel, retryDelay, retries, openFds, pending>>
  <2>1. /\ pending' \in Seq(Functors) /\ Once(pending', batch', "reset")
        /\ retries' \in Seq(0..MaxDelay) /\ starts' \in Nat
        /\ "reset" \in Queue(pending', batch') <=> "reset" \in Queue(pending, batch)
    BY <1>1, <1>2, <1>4, <1>5, <1>10
  <2>2. /\ state' = state /\ channel' = channel /\ retryDelay' = retryDelay /\ openFds' = openFds
        /\ keep' \in 0..KeepAlive
    BY <1>10
  <2> QED BY <1>1, <1>3, <1>4, <1>6, <2>1, <2>2, AttemptKept
<1>11. CASE \/ f = "setClose" /\ UNCHANGED <<attemptVars, pending, keep>>
            \/ f = "forceClose" /\ UNCHANGED <<attemptVars, pending, keep>>
            \/ f = "keep" /\ keep' = KeepAlive /\ UNCHANGED <<attemptVars, pending, conn>>
  <2>1. keep' \in 0..KeepAlive
    BY <1>2, <1>11
  <2> QED BY <1>10, <1>11, <2>1 DEF attemptVars
<1> QED BY <1>7, <1>8, <1>9, <1>11, Zenon DEF RunFunctor

\* What a call from another thread queues.
LEMMA UserQueueCases ==
    ASSUME Typed, UserQueue
    PROVE  /\ call # "none" /\ call' = "none"
           /\ \/ call = "start" /\ pending' = Append(pending, "start")
              \/ call = "stop" /\ pending' = Append(pending, "stop")
              \/ call = "dtorStop" /\ pending' = Append(Append(pending, "stop"), "keep")
              \/ call = "dtorClose" /\ pending' = Append(pending, "setClose")
              \/ call = "dtorClose" /\ pending' = Append(Append(pending, "setClose"), "forceClose")
<1>1. pending \in Seq(Functors) /\ {"stop", "keep", "setClose", "forceClose"} \subseteq Functors
  BY DEF Typed, Functors
<1>2. /\ pending \o <<"stop", "keep">> = Append(Append(pending, "stop"), "keep")
      /\ pending \o <<"setClose">> \o <<"forceClose">> = Append(Append(pending, "setClose"), "forceClose")
      /\ pending \o <<"setClose">> \o <<>> = Append(pending, "setClose")
  BY <1>1, TwoAppends
<1>3. CASE call \in {"start", "stop"} /\ pending' = Append(pending, call)
  BY <1>3 DEF UserQueue
<1>4. CASE call = "dtorStop" /\ pending' = pending \o <<"stop", "keep">>
  <2>1. pending' = Append(Append(pending, "stop"), "keep")
    BY <1>2, <1>4
  <2> QED BY <1>4, <2>1 DEF UserQueue
<1>5. CASE call = "dtorClose" /\ \E close \in {<<>>, <<"forceClose">>} : pending' = pending \o <<"setClose">> \o close
  <2>1. \/ pending' = pending \o <<"setClose">> \o <<>>
        \/ pending' = pending \o <<"setClose">> \o <<"forceClose">>
    BY <1>5
  <2>2. \/ pending' = Append(pending, "setClose")
        \/ pending' = Append(Append(pending, "setClose"), "forceClose")
    BY <1>2, <2>1
  <2> QED BY <1>5, <2>2 DEF UserQueue
<1> QED BY <1>3, <1>4, <1>5 DEF UserQueue

\* The actions in which neither the attempt nor the loop moves.
LEMMA OtherAttempt ==
    ASSUME Typed, AttemptInv, CloseConnection \/ UserCall \/ Quiet \/ Abort \/ UNCHANGED vars
    PROVE  Typed' /\ AttemptInv'
<1>1. /\ handing' = handing /\ state' = state /\ channel' = channel /\ openFds' = openFds
      /\ retryDelay' = retryDelay /\ retries' = retries /\ keep' = keep
      /\ phase' = phase /\ pending' = pending /\ batch' = batch
      /\ starts' = starts \/ starts' = starts + 1
  BY DEF CloseConnection, UserCall, Quiet, Abort, vars, attemptVars, loopVars, clientVars, userVars
<1>2. retries' \in Seq(0..MaxDelay) /\ keep' \in 0..KeepAlive /\ starts' \in Nat
  BY <1>1 DEF Typed
<1> QED BY <1>1, <1>2, AttemptSame

\* What passes when time does.
LEMMA TickFacts ==
    ASSUME Typed, Tick
    PROVE  /\ phase = "events" /\ ~handing /\ pending = <<>>
           /\ retries' \in Seq(0..MaxDelay) /\ Len(retries') = Len(retries)
           /\ \A v \in Elements(retries') : v + 1 \in Elements(retries)
           /\ keep' \in 0..KeepAlive /\ keep' = (IF keep > 0 THEN keep - 1 ELSE keep)
<1>1. /\ phase = "events" /\ ~handing /\ pending = <<>> /\ (\A i \in DOMAIN retries : retries[i] > 0)
      /\ retries' = [i \in DOMAIN retries |-> retries[i] - 1]
      /\ keep' = (IF keep > 0 THEN keep - 1 ELSE keep)
  BY DEF Tick, InEvents
<1>2. retries \in Seq(0..MaxDelay) /\ Len(retries) \in Nat /\ DOMAIN retries = 1..Len(retries)
      /\ keep \in 0..KeepAlive /\ KeepAlive \in Nat /\ MaxDelay \in Nat
  BY ConnectorAssumption DEF Typed
<1>3. \A i \in 1..Len(retries) : retries[i] - 1 \in 0..MaxDelay /\ (retries[i] - 1) + 1 = retries[i]
  <2> TAKE i \in 1..Len(retries)
  <2>1. retries[i] \in 0..MaxDelay /\ retries[i] > 0
    BY <1>1, <1>2, SMTT(60)
  <2> QED BY <1>2, <2>1
<1>4. retries' = [i \in 1..Len(retries) |-> retries[i] - 1]
  BY <1>1, <1>2
<1>5. retries' \in [1..Len(retries) -> 0..MaxDelay]
  BY <1>3, <1>4
<1>6. retries' \in Seq(0..MaxDelay) /\ Len(retries') = Len(retries)
  BY <1>2, <1>5
<1>7. ASSUME NEW v \in Elements(retries') PROVE v + 1 \in Elements(retries)
  <2>1. PICK i \in 1..Len(retries') : v = retries'[i]
    BY <1>7 DEF Elements
  <2>2. i \in 1..Len(retries) /\ v + 1 = retries[i]
    BY <1>3, <1>4, <1>6, <2>1
  <2> QED BY <2>2 DEF Elements
<1>8. keep' \in 0..KeepAlive
  BY <1>1, <1>2
<1> QED BY <1>1, <1>6, <1>7, <1>8

LEMMA TickAttempt ==
    ASSUME Typed, AttemptInv, Tick
    PROVE  Typed' /\ AttemptInv'
<1>1. /\ handing' = handing /\ state' = state /\ channel' = channel /\ openFds' = openFds
      /\ retryDelay' = retryDelay /\ phase' = phase /\ pending' = pending /\ batch' = batch /\ starts' = starts
  BY DEF Tick, loopVars, userVars
<1>2. retries' \in Seq(0..MaxDelay) /\ keep' \in 0..KeepAlive
  BY TickFacts
<1>3. starts' \in Nat
  BY <1>1 DEF Typed
<1> QED BY <1>1, <1>2, <1>3, AttemptSame

LEMMA RoundAttempt ==
    ASSUME Typed, AttemptInv, Swap \/ EndBatch
    PROVE  Typed' /\ AttemptInv'
<1>1. /\ handing' = handing /\ state' = state /\ channel' = channel /\ openFds' = openFds
      /\ retryDelay' = retryDelay /\ retries' = retries /\ keep' = keep /\ starts' = starts
  BY DEF Swap, EndBatch, attemptVars, clientVars, userVars
<1>2. /\ retries' \in Seq(0..MaxDelay) /\ keep' \in 0..KeepAlive /\ starts' \in Nat
      /\ pending \in Seq(Functors) /\ batch \in Seq(Functors) /\ Once(pending, batch, "reset")
      /\ phase = "events" => batch = <<>>
  BY <1>1 DEF Typed, AttemptInv
<1>3. CASE Swap
  <2>1. /\ phase = "events" /\ ~handing /\ phase' = "functors" /\ batch' = pending /\ pending' = <<>>
    BY <1>3 DEF Swap, InEvents
  <2>2. /\ Queue(pending', batch') = Queue(pending, batch) /\ Once(pending', batch', "reset")
    BY <1>2, <2>1, QueueSwap
  <2>3. pending' \in Seq(Functors) /\ batch' \in Seq(Functors)
    <3>1. <<>> \in Seq(Functors)
      OBVIOUS
    <3> QED BY <1>2, <2>1, <3>1
  <2>4. phase' \in {"events", "functors"} /\ phase' # "events"
    BY <2>1
  <2> QED BY <1>1, <1>2, <2>1, <2>2, <2>3, <2>4, AttemptKept
<1>4. CASE EndBatch
  <2>1. phase' = "events" /\ batch = <<>> /\ batch' = batch /\ pending' = pending
    BY <1>4 DEF EndBatch
  <2>2. /\ phase' \in {"events", "functors"} /\ (phase' = "events" => batch' = <<>>)
        /\ pending' \in Seq(Functors) /\ batch' \in Seq(Functors) /\ Once(pending', batch', "reset")
        /\ "reset" \in Queue(pending', batch') <=> "reset" \in Queue(pending, batch)
    BY <1>2, <2>1
  <2> QED BY <1>1, <1>2, <2>1, <2>2, AttemptKept
<1> QED BY <1>3, <1>4

LEMMA CallAttempt ==
    ASSUME Typed, AttemptInv, LoopStop \/ LoopDtor \/ UserQueue
    PROVE  Typed' /\ AttemptInv'
<1>1. /\ handing' = handing /\ state' = state /\ channel' = channel /\ openFds' = openFds
      /\ retryDelay' = retryDelay /\ retries' = retries /\ phase' = phase /\ batch' = batch /\ starts' = starts
  BY DEF LoopStop, LoopDtor, UserQueue, attemptVars, clientVars, userVars
<1>2. keep' = keep \/ keep' = KeepAlive
  BY DEF LoopStop, LoopDtor, UserQueue, clientVars
<1>3. keep' \in 0..KeepAlive
  BY <1>2, ConnectorAssumption DEF Typed
<1>4. {"start", "stop", "keep", "setClose", "forceClose"} \subseteq Functors \ {"reset"}
  BY DEF Functors
<1>5. CASE pending' = pending
  <2>1. retries' \in Seq(0..MaxDelay) /\ starts' \in Nat
    BY <1>1 DEF Typed
  <2> QED BY <1>1, <1>3, <1>5, <2>1, AttemptSame
<1>6. CASE \/ \E y \in Functors \ {"reset"} : pending' = Append(pending, y)
           \/ \E y, z \in Functors \ {"reset"} : pending' = Append(Append(pending, y), z)
  BY <1>1, <1>3, <1>6, AttemptQueues
<1>7. CASE UserQueue
  <2>1. \/ pending' = Append(pending, "start") \/ pending' = Append(pending, "stop")
        \/ pending' = Append(Append(pending, "stop"), "keep")
        \/ pending' = Append(pending, "setClose")
        \/ pending' = Append(Append(pending, "setClose"), "forceClose")
    BY <1>7, UserQueueCases
  <2> QED BY <1>4, <1>6, <2>1
<1>8. CASE LoopStop \/ LoopDtor
  <2>1. pending' = pending \/ pending' = Append(pending, "stop")
    BY <1>8 DEF LoopStop, LoopDtor
  <2> QED BY <1>4, <1>5, <1>6, <2>1
<1> QED BY <1>7, <1>8

LEMMA AttemptInit == Init => Typed /\ AttemptInv
<1> SUFFICES ASSUME Init PROVE Typed /\ AttemptInv
  OBVIOUS
<1>1. /\ state = "kDisconnected" /\ channel = "none" /\ retryDelay = 1 /\ retries = <<>> /\ phase = "events"
      /\ pending = <<>> /\ batch = <<>> /\ keep = 0 /\ starts = 0 /\ openFds = 0
  BY DEF Init
<1>2. ~handing
  BY Zenon DEF Init
<1>3. <<>> \in Seq(Functors) /\ <<>> \in Seq(0..MaxDelay)
  OBVIOUS
<1>4. Typed
  BY <1>1, <1>3, ConnectorAssumption DEF Typed
<1>5. Queue(pending, batch) = {} /\ Once(pending, batch, "reset")
  BY <1>1, EmptyElements, QueueSwap DEF Once
<1>6. openFds = IF channel = "watched" \/ handing THEN 1 ELSE 0
  BY <1>1, <1>2
<1>7. AttemptInv
  BY <1>1, <1>2, <1>5, <1>6 DEF AttemptInv
<1> QED BY <1>4, <1>7

LEMMA AttemptStep == Typed /\ AttemptInv /\ [Next]_vars => Typed' /\ AttemptInv'
<1> SUFFICES ASSUME Typed, AttemptInv, [Next]_vars PROVE Typed' /\ AttemptInv'
  OBVIOUS
<1>1. CASE CloseConnection \/ UserCall \/ Quiet \/ Abort \/ UNCHANGED vars
  BY <1>1, OtherAttempt
<1>2. CASE HandleError
  BY <1>2, HandleErrorAttempt
<1>3. CASE HandleWrite
  BY <1>3, HandleWriteAttempt
<1>4. CASE NewConnection
  BY <1>4, NewConnectionAttempt
<1>5. CASE RetryTimer
  BY <1>5, RetryTimerAttempt
<1>6. CASE Swap \/ EndBatch
  BY <1>6, RoundAttempt
<1>7. CASE RunFunctor
  BY <1>7, RunFunctorAttempt
<1>8. CASE Tick
  BY <1>8, TickAttempt
<1>9. CASE LoopStart
  BY <1>9, LoopStartAttempt
<1>10. CASE LoopStop \/ LoopDtor \/ UserQueue
  BY <1>10, CallAttempt
<1> QED BY <1>1, <1>2, <1>3, <1>4, <1>5, <1>6, <1>7, <1>8, <1>9, <1>10 DEF Next, LoopStep

-----------------------------------------------------------------------------
(* A client that is started once                                           *)

LEMMA EmptyIff ==
    ASSUME NEW S, NEW s \in Seq(S)
    PROVE  s = <<>> <=> Len(s) = 0
OBVIOUS

\* What a functor does to the queue.
LEMMA RunFunctorQueue ==
    ASSUME Typed, RunFunctor, NEW f, f = Head(batch)
    PROVE  /\ f \in Queue(pending, batch) /\ Queue(pending, batch) \subseteq Queue(pending', batch') \cup {f}
           /\ \/ Queue(pending', batch') \subseteq Queue(pending, batch) /\ pending' = pending
              \/ /\ f = "stop" /\ state = "kConnecting"
                 /\ Queue(pending', batch') \subseteq Queue(pending, batch) \cup {"reset"}
           /\ \A x : x # "reset" /\ Once(pending, batch, x) =>
                     Once(pending', batch', x) /\ (x = f => x \notin Queue(pending', batch'))
<1>1. /\ batch # <<>> /\ batch' = Tail(batch)
      /\ pending \in Seq(Functors) /\ batch \in Seq(Functors) /\ "reset" \in Functors
  BY DEF RunFunctor, Typed, Functors
<1>2. /\ batch' \in Seq(Functors) /\ f \in Queue(pending, batch)
      /\ Queue(pending, batch') \subseteq Queue(pending, batch)
      /\ Queue(pending, batch) \subseteq Queue(pending, batch') \cup {f}
      /\ \A x : Once(pending, batch, x) => Once(pending, batch', x)
      /\ Once(pending, batch, f) => f \notin Queue(pending, batch')
  BY <1>1, QueueTail
<1>3. CASE pending' = pending
  BY <1>2, <1>3
<1>4. CASE f = "stop" /\ state = "kConnecting" /\ pending' = Append(pending, "reset")
  <2>1. /\ Queue(Append(pending, "reset"), batch') = Queue(pending, batch') \cup {"reset"}
        /\ \A x : Once(pending, batch', x) /\ (x # "reset" \/ x \notin Queue(pending, batch')) =>
                  Once(Append(pending, "reset"), batch', x)
    <3>1. pending \in Seq(Functors) /\ batch' \in Seq(Functors) /\ "reset" \in Functors
      BY <1>1, <1>2
    <3> QED BY <3>1, QueueAppend
  <2> QED BY <1>2, <1>4, <2>1
<1>5. CASE f = "stop" /\ StopInLoop
  <2>1. pending' = pending \/ (state = "kConnecting" /\ pending' = Append(pending, "reset"))
    BY <1>5 DEF StopInLoop, RemoveAndResetChannel
  <2> QED BY <1>3, <1>4, <1>5, <2>1
<1>6. (f = "stop" /\ StopInLoop) \/ pending' = pending
  BY DEF RunFunctor
<1> QED BY <1>3, <1>5, <1>6

\* What a round of the loop does to it.
LEMMA RoundQueue ==
    ASSUME Typed, AttemptInv, Swap \/ EndBatch
    PROVE  /\ Queue(pending', batch') = Queue(pending, batch)
           /\ \A x : Once(pending, batch, x) => Once(pending', batch', x)
<1>1. CASE Swap
  <2>1. batch = <<>> /\ batch' = pending /\ pending' = <<>>
    BY <1>1 DEF Swap, InEvents, AttemptInv
  <2> QED BY <2>1, QueueSwap
<1>2. CASE EndBatch
  BY <1>2 DEF EndBatch
<1> QED BY <1>1, <1>2

\* What the calls do to it.
LEMMA CallQueue ==
    ASSUME Typed, LoopStop \/ LoopDtor \/ UserQueue
    PROVE  /\ Queue(pending, batch) \subseteq Queue(pending', batch') /\ batch' = batch
           /\ Queue(pending', batch') \subseteq Queue(pending, batch) \cup (Functors \ {"reset"})
           /\ "start" \in Queue(pending', batch') => call = "start" \/ "start" \in Queue(pending, batch)
           /\ Once(pending, batch, "start") /\ (call = "start" => "start" \notin Queue(pending, batch)) =>
                Once(pending', batch', "start")
<1>1. batch' = batch /\ pending \in Seq(Functors) /\ batch \in Seq(Functors)
  BY DEF LoopStop, LoopDtor, UserQueue, Typed
<1>2. {"start", "stop", "keep", "setClose", "forceClose"} \subseteq Functors \ {"reset"}
  BY DEF Functors
<1>3. CASE pending' = pending
  BY <1>1, <1>3
<1>4. ASSUME NEW p \in Seq(Functors), NEW y \in {"start", "stop", "keep", "setClose", "forceClose"}
      PROVE  /\ Append(p, y) \in Seq(Functors) /\ Queue(Append(p, y), batch) = Queue(p, batch) \cup {y}
             /\ y # "start" \/ "start" \notin Queue(p, batch) =>
                  (Once(p, batch, "start") => Once(Append(p, y), batch, "start"))
  <2>1. y \in Functors
    BY <1>2
  <2>2. /\ Append(p, y) \in Seq(Functors) /\ Queue(Append(p, y), batch) = Queue(p, batch) \cup {y}
        /\ \A x : Once(p, batch, x) /\ (x # y \/ x \notin Queue(p, batch)) => Once(Append(p, y), batch, x)
    BY <1>1, <2>1, QueueAppend
  <2> QED BY <2>2
<1>5. CASE call = "start" /\ pending' = Append(pending, "start")
  BY <1>1, <1>2, <1>4, <1>5
<1>6. ASSUME NEW y \in {"stop", "setClose"}, pending' = Append(pending, y)
      PROVE  /\ Queue(pending', batch') = Queue(pending, batch) \cup {y}
             /\ Once(pending, batch, "start") => Once(pending', batch', "start")
  BY <1>1, <1>4, <1>6
<1>7. ASSUME NEW y \in {"stop", "setClose"}, NEW z \in {"keep", "forceClose"},
             pending' = Append(Append(pending, y), z)
      PROVE  /\ Queue(pending', batch') = Queue(pending, batch) \cup {y, z}
             /\ Once(pending, batch, "start") => Once(pending', batch', "start")
  <2>1. /\ Append(pending, y) \in Seq(Functors)
        /\ Queue(Append(pending, y), batch) = Queue(pending, batch) \cup {y}
        /\ Once(pending, batch, "start") => Once(Append(pending, y), batch, "start")
    BY <1>1, <1>4
  <2>2. /\ Queue(Append(Append(pending, y), z), batch) = Queue(Append(pending, y), batch) \cup {z}
        /\ Once(Append(pending, y), batch, "start") => Once(Append(Append(pending, y), z), batch, "start")
    BY <2>1, <1>4
  <2> QED BY <1>1, <1>7, <2>1, <2>2
<1>8. CASE UserQueue
  <2>1. \/ call = "start" /\ pending' = Append(pending, "start")
        \/ \E y \in {"stop", "setClose"} : pending' = Append(pending, y)
        \/ \E y \in {"stop", "setClose"}, z \in {"keep", "forceClose"} : pending' = Append(Append(pending, y), z)
    BY <1>8, UserQueueCases
  <2>2. CASE \E y \in {"stop", "setClose"} : pending' = Append(pending, y)
    <3>1. PICK y \in {"stop", "setClose"} : pending' = Append(pending, y)
      BY <2>2
    <3>2. /\ Queue(pending', batch') = Queue(pending, batch) \cup {y}
          /\ Once(pending, batch, "start") => Once(pending', batch', "start")
      BY <1>6, <3>1
    <3> QED BY <1>1, <1>2, <3>2
  <2>3. CASE \E y \in {"stop", "setClose"}, z \in {"keep", "forceClose"} :
               pending' = Append(Append(pending, y), z)
    <3>1. PICK y \in {"stop", "setClose"}, z \in {"keep", "forceClose"} :
                 pending' = Append(Append(pending, y), z)
      BY <2>3
    <3>2. /\ Queue(pending', batch') = Queue(pending, batch) \cup {y, z}
          /\ Once(pending, batch, "start") => Once(pending', batch', "start")
      BY <1>7, <3>1
    <3> QED BY <1>1, <1>2, <3>2
  <2> QED BY <1>5, <2>1, <2>2, <2>3
<1>9. CASE LoopStop \/ LoopDtor
  <2>1. pending' = pending \/ pending' = Append(pending, "stop")
    BY <1>9 DEF LoopStop, LoopDtor
  <2> QED BY <1>1, <1>2, <1>3, <1>6, <2>1
<1> QED BY <1>8, <1>9

\* An attempt or a retry leaves no other place for startInLoop().
LEMMA NoOtherStart ==
    ASSUME StartInv, state # "kDisconnected" \/ retries # <<>> \/ "start" \in Queue(pending, batch)
    PROVE  /\ call # "start" /\ starts # 0
           /\ state # "kDisconnected" \/ "start" \in Queue(pending, batch) => retries = <<>>
           /\ state # "kDisconnected" \/ retries # <<>> => "start" \notin Queue(pending, batch)
BY DEF StartInv

\* A step after which no call of start() is on its way.
LEMMA StartOver ==
    ASSUME call' # "start", "start" \notin Queue(pending', batch'), Once(pending', batch', "start"),
           Len(retries') <= 1, retries' # <<>> => state' = "kDisconnected", starts' # 0
    PROVE  StartInv'
BY DEF StartInv

\* A step that leaves those places as they are, or takes one away.
LEMMA StartKept ==
    ASSUME Typed, StartInv, call' = call \/ call' # "start", starts' = starts,
           "start" \in Queue(pending', batch') => "start" \in Queue(pending, batch),
           Once(pending', batch', "start"), retries' \in Seq(0..MaxDelay), Len(retries') = Len(retries),
           state' = state, channel' = channel \/ channel' = "none"
    PROVE  StartInv'
<1>1. retries \in Seq(0..MaxDelay)
  BY DEF Typed
<1>2. retries' = <<>> <=> retries = <<>>
  BY <1>1, EmptyIff
<1> QED BY <1>2 DEF StartInv

LEMMA ZeroOrOne == ASSUME NEW n, n = 0 \/ n = 1 PROVE n <= 1
OBVIOUS

LEMMA AppendToEmpty ==
    ASSUME NEW x
    PROVE  Len(<<>>) = 0 /\ Len(Append(<<>>, x)) = 1 /\ Elements(Append(<<>>, x)) = {x}
<1>1. <<>> \in Seq({x}) /\ x \in {x} /\ Len(<<>>) = 0
  OBVIOUS
<1>2. Len(Append(<<>>, x)) = Len(<<>>) + 1
  BY <1>1, AppendProperties
<1>3. Elements(Append(<<>>, x)) = Elements(<<>>) \cup {x}
  BY <1>1, AppendOnce
<1> QED BY <1>1, <1>2, <1>3, EmptyElements

\* startInLoop() from the one place that there is.
LEMMA StartRuns ==
    ASSUME Typed, NEW left, left = <<>>, NEW wanted, StartInLoop(left, wanted), openFds \in Int,
           call' # "start", "start" \notin Queue(pending', batch'), Once(pending', batch', "start"),
           starts' # 0
    PROVE  StartInv'
<1>1. left \in Seq(0..MaxDelay)
  OBVIOUS
<1>2. (retries' = left) \/ (state' = "kDisconnected" /\ retries' = Append(left, retryDelay))
  BY <1>1, StartCases
<1>3. Len(<<>>) = 0 /\ Len(Append(<<>>, retryDelay)) = 1
  BY AppendToEmpty
<1>4. retries' = <<>> \/ (state' = "kDisconnected" /\ retries' = Append(<<>>, retryDelay))
  BY <1>2
<1>5. Len(retries') = 0 \/ Len(retries') = 1
  BY <1>3, <1>4, Zenon
<1>6. Len(retries') <= 1
  BY <1>5, ZeroOrOne, Zenon
<1> QED BY <1>4, <1>6, StartOver

\* retry() of an attempt.
LEMMA RetryRuns ==
    ASSUME Typed, StartInv, state = "kConnecting", Retry(openFds, retries, connect),
           call' = call, starts' = starts, Once(pending', batch', "start"),
           "start" \in Queue(pending', batch') => "start" \in Queue(pending, batch)
    PROVE  StartInv'
<1>1. retries = <<>> /\ call # "start" /\ starts # 0 /\ "start" \notin Queue(pending, batch)
  BY NoOtherStart
<1>2. <<>> \in Seq(0..MaxDelay)
  OBVIOUS
<1>3. state' = "kDisconnected" /\ (retries' = <<>> \/ retries' = Append(<<>>, retryDelay))
  BY <1>1, <1>2, RetryCases
<1>4. Len(<<>>) = 0 /\ Len(Append(<<>>, retryDelay)) = 1
  BY AppendToEmpty
<1>5. Len(retries') = 0 \/ Len(retries') = 1
  BY <1>3, <1>4, Zenon
<1>6. Len(retries') <= 1
  BY <1>5, ZeroOrOne, Zenon
<1> QED BY <1>1, <1>3, <1>6, StartOver

LEMMA StartStep ==
    ASSUME ~Restarts, Typed, AttemptInv, StartInv, [Next]_vars
    PROVE  StartInv'
<1>0. /\ openFds \in Int /\ retries \in Seq(0..MaxDelay) /\ Once(pending, batch, "start")
      /\ starts \in Nat /\ pending \in Seq(Functors) /\ batch \in Seq(Functors)
  BY OpenFdsIs DEF Typed, StartInv
<1>1. CASE CloseConnection \/ Quiet \/ Abort \/ UNCHANGED vars
  <2>1. /\ call' = call /\ starts' = starts /\ pending' = pending /\ batch' = batch
        /\ retries' = retries /\ state' = state /\ channel' = channel
    BY <1>1 DEF CloseConnection, Quiet, Abort, vars, attemptVars, loopVars, userVars
  <2> QED BY <1>0, <2>1, StartKept
<1>2. CASE UserCall
  <2>1. /\ pending' = pending /\ batch' = batch /\ retries' = retries /\ state' = state /\ channel' = channel
    BY <1>2 DEF UserCall, attemptVars, loopVars
  <2>2. CASE call' = "start" /\ starts' = starts + 1 /\ MayStart
    <3>1. starts = 0
      BY <2>2 DEF MayStart
    <3>2. starts' # 0
      BY <2>2, <3>1
    <3> QED BY <2>1, <2>2, <3>1, <3>2 DEF StartInv
  <2>3. CASE call' # "start" /\ starts' = starts
    BY <1>0, <2>1, <2>3, StartKept
  <2> QED BY <1>2, <2>2, <2>3 DEF UserCall
<1>3. CASE HandleError
  <2>1. /\ state = "kConnecting" /\ pending' = Append(pending, "reset") /\ batch' = batch
        /\ Retry(openFds, retries, connect) /\ call' = call /\ starts' = starts /\ "reset" \in Functors
    BY <1>3 DEF HandleError, RemoveAndResetChannel, userVars, Functors
  <2>2. /\ Queue(pending', batch') = Queue(pending, batch) \cup {"reset"}
        /\ \A x : Once(pending, batch, x) /\ (x # "reset" \/ x \notin Queue(pending, batch)) =>
                  Once(pending', batch', x)
    BY <2>1, QueueInLoop
  <2>3. Once(pending', batch', "start") /\ ("start" \in Queue(pending', batch') => "start" \in Queue(pending, batch))
    BY <1>0, <2>2
  <2> QED BY <2>1, <2>3, RetryRuns
<1>4. CASE HandleWrite
  <2>1. /\ state = "kConnecting" /\ pending' = Append(pending, "reset") /\ batch' = batch
        /\ retries' = retries /\ call' = call /\ starts' = starts /\ "reset" \in Functors
    BY <1>4 DEF HandleWrite, RemoveAndResetChannel, userVars, Functors
  <2>2. /\ Queue(pending', batch') = Queue(pending, batch) \cup {"reset"}
        /\ \A x : Once(pending, batch, x) /\ (x # "reset" \/ x \notin Queue(pending, batch)) =>
                  Once(pending', batch', x)
    BY <2>1, QueueInLoop
  <2>3. retries = <<>> /\ call # "start" /\ starts # 0 /\ "start" \notin Queue(pending, batch)
    BY <2>1, NoOtherStart
  <2>4. Once(pending', batch', "start") /\ "start" \notin Queue(pending', batch')
    BY <1>0, <2>2, <2>3
  <2>5. Len(retries') <= 1 /\ retries' = <<>>
    BY <2>1, <2>3
  <2> QED BY <2>1, <2>3, <2>4, <2>5, StartOver
<1>5. CASE NewConnection
  <2>1. /\ call' = call /\ starts' = starts /\ pending' = pending /\ batch' = batch
        /\ retries' = retries /\ state' = state /\ channel' = channel
    BY <1>5 DEF NewConnection, loopVars, userVars
  <2> QED BY <1>0, <2>1, StartKept
<1>6. CASE RetryTimer
  <2>1. /\ call' = call /\ starts' = starts /\ pending' = pending /\ batch' = batch
    BY <1>6 DEF RetryTimer, loopVars, userVars
  <2>2. PICK i \in DOMAIN retries : StartInLoop(Without(retries, i), connect)
    BY <1>6 DEF RetryTimer
  <2>3. i \in 1..Len(retries) /\ Len(retries) <= 1 /\ Len(retries) \in Nat /\ retries # <<>>
    BY <1>0, <2>2 DEF StartInv
  <2>4. Without(retries, i) \in Seq(0..MaxDelay) /\ Len(Without(retries, i)) = Len(retries) - 1
    BY <1>0, <2>3, WithoutOne
  <2>5. Without(retries, i) = <<>>
    BY <2>3, <2>4
  <2>6. call # "start" /\ starts # 0 /\ "start" \notin Queue(pending, batch)
    BY <2>3, NoOtherStart
  <2> QED BY <1>0, <2>1, <2>2, <2>5, <2>6, StartRuns
<1>7. CASE Swap \/ EndBatch
  <2>1. /\ call' = call /\ starts' = starts /\ retries' = retries /\ state' = state /\ channel' = channel
    BY <1>7 DEF Swap, EndBatch, attemptVars, userVars
  <2>2. /\ Queue(pending', batch') = Queue(pending, batch) /\ Once(pending', batch', "start")
    BY <1>0, <1>7, RoundQueue
  <2> QED BY <1>0, <2>1, <2>2, StartKept
<1>8. CASE RunFunctor
  <2> DEFINE f == Head(batch)
  <2>1. call' = call /\ starts' = starts
    BY <1>8 DEF RunFunctor, userVars
  <2>2. /\ f \in Queue(pending, batch) /\ Once(pending', batch', "start")
        /\ "start" \in Queue(pending', batch') => "start" \in Queue(pending, batch)
        /\ f = "start" => "start" \notin Queue(pending', batch')
    BY <1>0, <1>8, RunFunctorQueue
  <2>3. CASE f = "start" /\ StartInLoop(retries, connect)
    <3>1. call # "start" /\ starts # 0 /\ retries = <<>>
      BY <2>2, <2>3, NoOtherStart
    <3> QED BY <1>0, <2>1, <2>2, <2>3, <3>1, StartRuns
  <2>4. CASE f = "stop" /\ StopInLoop
    <3>1. CASE state = "kConnecting"
      <4>1. Retry(openFds, retries, connect)
        BY <2>4, <3>1 DEF StopInLoop
      <4> QED BY <2>1, <2>2, <3>1, <4>1, RetryRuns
    <3>2. CASE state # "kConnecting"
      <4>1. state' = state /\ channel' = channel /\ retries' = retries
        BY <2>4, <3>2 DEF StopInLoop
      <4> QED BY <1>0, <2>1, <2>2, <4>1, StartKept
    <3> QED BY <3>1, <3>2
  <2>5. CASE (channel' = channel \/ channel' = "none") /\ UNCHANGED <<state, retries>>
    BY <1>0, <2>1, <2>2, <2>5, StartKept
  <2> QED BY <1>8, <2>3, <2>4, <2>5 DEF RunFunctor, attemptVars
<1>9. CASE Tick
  <2>1. /\ call' = call /\ starts' = starts /\ pending' = pending /\ batch' = batch
        /\ state' = state /\ channel' = channel
    BY <1>9 DEF Tick, loopVars, userVars
  <2>2. retries' \in Seq(0..MaxDelay) /\ Len(retries') = Len(retries)
    BY <1>9, TickFacts
  <2> QED BY <1>0, <2>1, <2>2, StartKept
<1>10. CASE LoopStart
  <2>1. /\ call' = call /\ starts' = starts + 1 /\ pending' = pending /\ batch' = batch
        /\ StartInLoop(retries, TRUE) /\ starts = 0
    BY <1>10 DEF LoopStart, loopVars, MayStart
  <2>2. starts' # 0
    BY <2>1
  <2>3. call # "start" /\ retries = <<>> /\ "start" \notin Queue(pending, batch)
    BY <2>1 DEF StartInv
  <2> QED BY <1>0, <2>1, <2>2, <2>3, StartRuns
<1>11. CASE LoopStop \/ LoopDtor \/ UserQueue
  <2>1. /\ starts' = starts /\ retries' = retries /\ state' = state /\ channel' = channel
        /\ call' = call \/ call' = "none"
    BY <1>11 DEF LoopStop, LoopDtor, UserQueue, attemptVars, userVars
  <2>2. /\ "start" \in Queue(pending', batch') => call = "start" \/ "start" \in Queue(pending, batch)
        /\ Once(pending', batch', "start")
    BY <1>11, CallQueue DEF StartInv
  <2>3. CASE LoopStop \/ LoopDtor
    <3>1. call' = call /\ (pending' = pending \/ pending' = Append(pending, "stop")) /\ batch' = batch
      BY <2>3 DEF LoopStop, LoopDtor, userVars
    <3>2. "stop" \in Functors /\ "stop" # "start"
      BY DEF Functors
    <3>3. "start" \in Queue(pending', batch') => "start" \in Queue(pending, batch)
      BY <3>1, <3>2, QueueInLoop
    <3> QED BY <1>0, <2>1, <2>2, <3>3, StartKept
  <2>4. CASE UserQueue
    <3>1. call' # "start"
      BY <2>4 DEF UserQueue
    <3> QED BY <2>1, <2>2, <3>1 DEF StartInv
  <2> QED BY <1>11, <2>3, <2>4
<1> QED BY <1>1, <1>2, <1>3, <1>4, <1>5, <1>6, <1>7, <1>8, <1>9, <1>10, <1>11 DEF Next, LoopStep

LEMMA StartInit == Init => StartInv
<1>1. Elements(<<>>) = {} /\ Unique(<<>>, "start")
  BY EmptyElements
<1>2. Len(<<>>) = 0 /\ 0 <= 1
  OBVIOUS
<1> QED BY <1>1, <1>2, Zenon DEF Init, StartInv, Queue, Once

-----------------------------------------------------------------------------
(* Sockets and retries                                                     *)

LEMMA OneInit == Init => Typed /\ AttemptInv /\ StartInv
BY AttemptInit, StartInit

LEMMA OneStep ==
    ASSUME Typed, AttemptInv, ~Restarts => StartInv, [Next]_vars
    PROVE  Typed' /\ AttemptInv' /\ (~Restarts => StartInv')
<1>1. Typed' /\ AttemptInv'
  BY AttemptStep
<1>2. ~Restarts => StartInv'
  BY StartStep
<1> QED BY <1>1, <1>2

LEMMA OneFromInv ==
    ASSUME Typed, AttemptInv, ~Restarts => StartInv
    PROVE  OneAttempt
<1>1. openFds = IF channel = "watched" \/ handing THEN 1 ELSE 0
  BY DEF AttemptInv
<1>2. ASSUME ~Restarts PROVE Len(retries) + openFds <= 1
  <2>1. StartInv /\ retries \in Seq(0..MaxDelay)
    BY <1>2 DEF Typed
  <2>2. Len(retries) \in Nat /\ Len(retries) <= 1
    BY <2>1 DEF StartInv
  <2>3. CASE channel = "watched" \/ handing
    <3>1. state # "kDisconnected" /\ openFds = 1
      BY <1>1, <2>3 DEF AttemptInv
    <3>2. retries = <<>>
      BY <2>1, <3>1 DEF StartInv
    <3>3. Len(retries) = 0
      BY <3>2
    <3> QED BY <3>1, <3>3
  <2>4. CASE ~(channel = "watched" \/ handing)
    BY <1>1, <2>2, <2>4
  <2> QED BY <2>3, <2>4
<1> QED BY <1>1, <1>2 DEF OneAttempt

\* Every socket is closed or handed over exactly once, whatever the application
\* does: the connector has one exactly while the channel watches it or
\* newConnection() is about to be called.  A client that is started once never
\* has a socket and a retry timer, or two timers, at the same time
\* (Connector::connect, retry, handleWrite, stopInLoop).
THEOREM OneAttemptAlways == Spec => []OneAttempt
<1>1. Init => Typed /\ AttemptInv /\ (~Restarts => StartInv)
  BY OneInit
<1>2. Typed /\ AttemptInv /\ (~Restarts => StartInv) /\ [Next]_vars =>
        (Typed /\ AttemptInv /\ (~Restarts => StartInv))'
  BY OneStep
<1>3. Typed /\ AttemptInv /\ (~Restarts => StartInv) => OneAttempt
  BY OneFromInv
<1> QED BY <1>1, <1>2, <1>3, PTL DEF Spec

-----------------------------------------------------------------------------
(* The queue of an application that keeps the contract                     *)

LEMMA RawNames == RawCalls = {"start", "stop", "reset"} /\ RawCalls \subseteq Functors
BY DEF RawCalls, Functors

LEMMA RawStep ==
    ASSUME Contract, Typed, AttemptInv, RawInv, [Next]_vars
    PROVE  RawInv'
<1>0. /\ Queue(pending, batch) \subseteq RawCalls /\ call \in {"none", "start", "stop"}
      /\ onLoop => call = "none"
  BY DEF RawInv
<1>1. onLoop' = onLoop /\ dies' = dies
  BY DEF Next, LoopStep, HandleError, HandleWrite, NewConnection, RetryTimer, Swap, RunFunctor, EndBatch,
         CloseConnection, Tick, LoopStart, LoopStop, LoopDtor, UserCall, UserQueue, Quiet, Abort, vars, config
<1>2. ASSUME call' = call \/ call' = "none", Queue(pending', batch') \subseteq RawCalls
      PROVE  RawInv'
  BY <1>0, <1>1, <1>2 DEF RawInv
<1>3. CASE NewConnection \/ CloseConnection \/ RetryTimer \/ Tick \/ LoopStart \/ Quiet \/ Abort \/ UNCHANGED vars
  <2>1. call' = call /\ pending' = pending /\ batch' = batch
    BY <1>3 DEF NewConnection, CloseConnection, RetryTimer, Tick, LoopStart, Quiet, Abort, vars, loopVars, userVars
  <2> QED BY <1>0, <1>2, <2>1
<1>4. CASE UserCall
  <2>1. ~onLoop /\ pending' = pending /\ batch' = batch
    BY <1>4 DEF UserCall, loopVars
  <2>2. ~MayDie
    BY <2>1 DEF Contract, MayDie
  <2>3. call' \in {"start", "stop"}
    BY <1>4, <2>2 DEF UserCall
  <2> QED BY <1>0, <1>1, <2>1, <2>3 DEF RawInv
<1>5. CASE UserQueue
  <2>1. call' = "none" /\ batch' = batch
    BY <1>5 DEF UserQueue
  <2>2. call \in Functors /\ call \in RawCalls /\ pending' = Append(pending, call)
    BY <1>0, <1>5, UserQueueCases, RawNames
  <2>3. Queue(pending', batch') = Queue(pending, batch) \cup {call}
    BY <2>1, <2>2, QueueInLoop
  <2> QED BY <1>0, <1>2, <2>1, <2>2, <2>3
<1>6. ASSUME call' = call, batch' = batch, NEW y \in {"stop", "reset"}, pending' = Append(pending, y)
      PROVE  RawInv'
  <2>1. y \in Functors /\ y \in RawCalls
    BY RawNames
  <2>2. Queue(pending', batch') = Queue(pending, batch) \cup {y}
    BY <1>6, <2>1, QueueInLoop
  <2> QED BY <1>0, <1>2, <1>6, <2>1, <2>2
<1>7. CASE HandleError \/ HandleWrite
  <2>1. call' = call /\ batch' = batch /\ pending' = Append(pending, "reset")
    BY <1>7 DEF HandleError, HandleWrite, RemoveAndResetChannel, userVars
  <2> QED BY <1>6, <2>1
<1>8. CASE LoopStop \/ LoopDtor
  <2>1. call' = call /\ batch' = batch /\ (pending' = pending \/ pending' = Append(pending, "stop"))
    BY <1>8 DEF LoopStop, LoopDtor, userVars
  <2>2. CASE pending' = pending
    BY <1>0, <1>2, <2>1, <2>2
  <2>3. CASE pending' = Append(pending, "stop")
    BY <1>6, <2>1, <2>3
  <2> QED BY <2>1, <2>2, <2>3
<1>9. CASE Swap \/ EndBatch
  <2>1. call' = call
    BY <1>9 DEF Swap, EndBatch, userVars
  <2>2. Queue(pending', batch') = Queue(pending, batch)
    BY <1>9, RoundQueue
  <2> QED BY <1>0, <1>2, <2>1, <2>2
<1>10. CASE RunFunctor
  <2>1. call' = call
    BY <1>10 DEF RunFunctor, userVars
  <2>2. Queue(pending', batch') \subseteq Queue(pending, batch) \cup {"reset"}
    BY <1>10, RunFunctorQueue
  <2> QED BY <1>0, <1>2, <2>1, <2>2, RawNames
<1> QED BY <1>3, <1>4, <1>5, <1>7, <1>8, <1>9, <1>10 DEF Next, LoopStep

-----------------------------------------------------------------------------
(* The retry timers of a client that is started once                       *)

LEMMA PlanNone ==
    ASSUME retries' = <<>>
    PROVE  PlanInv'
BY EmptyElements DEF PlanInv

LEMMA PlanKept ==
    ASSUME PlanInv, retries' = retries, retryDelay' = retryDelay, channel' = channel \/ channel' = "none"
    PROVE  PlanInv'
BY DEF PlanInv

\* retry() plans the only timer.
LEMMA PlanNew ==
    ASSUME Typed, retries' = Append(<<>>, retryDelay), retryDelay' = NextDelay(retryDelay)
    PROVE  PlanInv'
<1>1. retryDelay \in 1..MaxDelay /\ retryDelay # 0
  BY ConnectorAssumption DEF Typed
<1>2. retryDelay < retryDelay' \/ retryDelay' = MaxDelay
  BY <1>1, NextDelayIs
<1>3. Elements(Append(<<>>, retryDelay)) = {retryDelay}
  BY AppendToEmpty
<1>4. Elements(retries') = {retryDelay}
  BY <1>3
<1> QED BY <1>1, <1>2, <1>4 DEF PlanInv

LEMMA PlanStarts ==
    ASSUME Typed, NEW left, left = <<>>, NEW wanted, StartInLoop(left, wanted), openFds \in Int
    PROVE  PlanInv'
<1>1. left \in Seq(0..MaxDelay)
  OBVIOUS
<1>2. retries' = left \/ (retries' = Append(left, retryDelay) /\ retryDelay' = NextDelay(retryDelay))
  BY <1>1, StartCases
<1> QED BY <1>2, PlanNone, PlanNew

LEMMA PlanRetry ==
    ASSUME Typed, NEW wanted, Retry(openFds, <<>>, wanted)
    PROVE  PlanInv'
<1>1. <<>> \in Seq(0..MaxDelay)
  OBVIOUS
<1>2. retries' = <<>> \/ (retries' = Append(<<>>, retryDelay) /\ retryDelay' = NextDelay(retryDelay))
  BY <1>1, RetryCases
<1> QED BY <1>2, PlanNone, PlanNew

\* The queue is empty when time passes, so that the channel was reset.
LEMMA TickReset ==
    ASSUME Typed, AttemptInv, Tick
    PROVE  Queue(pending, batch) = {} /\ channel # "removed" /\ (state # "kConnecting" => channel = "none")
<1>1. pending = <<>> /\ batch = <<>>
  BY TickFacts DEF AttemptInv
<1>2. Queue(pending, batch) = {}
  BY <1>1, QueueSwap
<1> QED BY <1>2 DEF AttemptInv, Typed

LEMMA PlanTick ==
    ASSUME Typed, AttemptInv, StartInv, PlanInv, Tick
    PROVE  PlanInv'
<1>1. channel' = channel /\ retryDelay' = retryDelay
  BY DEF Tick
<1>2. SUFFICES ASSUME NEW v \in Elements(retries')
               PROVE  channel = "none" /\ (v < retryDelay \/ retryDelay = MaxDelay)
  BY <1>1 DEF PlanInv
<1>3. v + 1 \in Elements(retries) /\ retries' \in Seq(0..MaxDelay)
  BY TickFacts
<1>4. v \in 0..MaxDelay /\ retryDelay \in 1..MaxDelay /\ MaxDelay \in Nat
  BY <1>3, ElementsIn, ConnectorAssumption DEF Typed
<1>5. retries # <<>>
  BY <1>3, EmptyElements
<1>6. channel = "none"
  BY <1>5, TickReset DEF StartInv
<1>7. v + 1 < retryDelay \/ retryDelay = MaxDelay
  BY <1>3 DEF PlanInv
<1> QED BY <1>4, <1>6, <1>7

LEMMA PlanStep ==
    ASSUME ~Restarts, Typed, AttemptInv, StartInv, PlanInv, [Next]_vars
    PROVE  PlanInv'
<1>0. openFds \in Int /\ retries \in Seq(0..MaxDelay)
  BY OpenFdsIs DEF Typed
<1>1. CASE \/ NewConnection \/ CloseConnection \/ Swap \/ EndBatch \/ LoopStop \/ LoopDtor
           \/ UserCall \/ UserQueue \/ Quiet \/ Abort \/ UNCHANGED vars
  <2>1. retries' = retries /\ retryDelay' = retryDelay /\ channel' = channel
    BY <1>1 DEF NewConnection, CloseConnection, Swap, EndBatch, LoopStop, LoopDtor,
                UserCall, UserQueue, Quiet, Abort, vars, attemptVars
  <2> QED BY <2>1, PlanKept
<1>2. CASE HandleError
  <2>1. Retry(openFds, retries, connect) /\ state = "kConnecting"
    BY <1>2 DEF HandleError
  <2>2. retries = <<>>
    BY <2>1 DEF StartInv
  <2> QED BY <2>1, <2>2, PlanRetry
<1>3. CASE HandleWrite
  <2>1. retries' = retries /\ state = "kConnecting"
    BY <1>3 DEF HandleWrite
  <2>2. retries = <<>>
    BY <2>1 DEF StartInv
  <2> QED BY <2>1, <2>2, PlanNone
<1>4. CASE RetryTimer
  <2>1. PICK i \in DOMAIN retries : StartInLoop(Without(retries, i), connect)
    BY <1>4 DEF RetryTimer
  <2>2. i \in 1..Len(retries) /\ Len(retries) <= 1 /\ Len(retries) \in Nat
    BY <1>0, <2>1 DEF StartInv
  <2>3. Without(retries, i) \in Seq(0..MaxDelay) /\ Len(Without(retries, i)) = Len(retries) - 1
    BY <1>0, <2>2, WithoutOne
  <2>4. Without(retries, i) = <<>>
    BY <2>2, <2>3
  <2> QED BY <1>0, <2>1, <2>4, PlanStarts
<1>5. CASE RunFunctor
  <2> DEFINE f == Head(batch)
  <2>1. CASE f = "start" /\ StartInLoop(retries, connect)
    <3>1. f \in Queue(pending, batch)
      BY <1>5, RunFunctorQueue
    <3>2. retries = <<>>
      BY <2>1, <3>1 DEF StartInv
    <3> QED BY <1>0, <2>1, <3>2, PlanStarts
  <2>2. CASE f = "stop" /\ StopInLoop
    <3>1. CASE state = "kConnecting"
      <4>1. Retry(openFds, retries, connect) /\ retries = <<>>
        BY <2>2, <3>1 DEF StopInLoop, StartInv
      <4> QED BY <4>1, PlanRetry
    <3>2. CASE state # "kConnecting"
      BY <2>2, <3>2, PlanKept DEF StopInLoop
    <3> QED BY <3>1, <3>2
  <2>3. CASE (channel' = channel \/ channel' = "none") /\ UNCHANGED <<retries, retryDelay>>
    BY <2>3, PlanKept
  <2> QED BY <1>5, <2>1, <2>2, <2>3 DEF RunFunctor, attemptVars
<1>6. CASE Tick
  BY <1>6, PlanTick
<1>7. CASE LoopStart
  <2>1. StartInLoop(retries, TRUE) /\ starts = 0
    BY <1>7 DEF LoopStart, MayStart
  <2>2. retries = <<>>
    BY <2>1 DEF StartInv
  <2> QED BY <1>0, <2>1, <2>2, PlanStarts
<1> QED BY <1>1, <1>2, <1>3, <1>4, <1>5, <1>6, <1>7 DEF Next, LoopStep

-----------------------------------------------------------------------------
(* The client and its destruction                                          *)

\* What a step may do to a connection: the state is not left while it is up.
LEMMA UpStep ==
    ASSUME Typed, AttemptInv, conn = "up" => state = "kConnected", [Next]_vars
    PROVE  conn' = "up" => state' = "kConnected"
<1>0. openFds \in Int
  BY OpenFdsIs
<1>1. ASSUME state' = state, conn' = conn \/ conn' # "up"
      PROVE  conn' = "up" => state' = "kConnected"
  BY <1>1
<1>2. ASSUME state # "kConnected", conn' = conn
      PROVE  conn' = "up" => state' = "kConnected"
  BY <1>2
<1>3. CASE HandleError \/ HandleWrite
  BY <1>2, <1>3 DEF HandleError, HandleWrite, clientVars
<1>4. CASE NewConnection
  <2>1. handing /\ state' = state
    BY <1>4 DEF NewConnection
  <2>2. state = "kConnected"
    BY <2>1 DEF AttemptInv
  <2> QED BY <2>1, <2>2
<1>5. CASE RetryTimer \/ LoopStart
  BY <1>2, <1>5 DEF RetryTimer, LoopStart, StartInLoop, clientVars
<1>6. CASE CloseConnection \/ Swap \/ EndBatch \/ Tick \/ LoopStop \/ UserCall \/ UserQueue
           \/ Quiet \/ Abort \/ UNCHANGED vars
  <2>1. state' = state /\ (conn' = conn \/ conn' # "up")
    BY <1>6 DEF CloseConnection, Swap, EndBatch, Tick, LoopStop, UserCall, UserQueue, Quiet, Abort,
                vars, attemptVars, clientVars
  <2> QED BY <1>1, <2>1
<1>7. CASE LoopDtor
  <2>1. state' = state /\ (conn' = conn \/ conn' # "up")
    BY <1>7 DEF LoopDtor, attemptVars
  <2> QED BY <1>1, <2>1
<1>8. CASE RunFunctor
  <2>1. CASE StartInLoop(retries, connect) /\ conn' = conn
    BY <1>2, <2>1 DEF StartInLoop
  <2>2. CASE StopInLoop /\ conn' = conn
    <3>1. CASE state = "kConnecting"
      BY <1>2, <2>2, <3>1
    <3>2. CASE state # "kConnecting"
      BY <1>1, <2>2, <3>2 DEF StopInLoop
    <3> QED BY <3>1, <3>2
  <2>3. CASE state' = state /\ (conn' = conn \/ conn' # "up")
    BY <1>1, <2>3
  <2> QED BY <1>8, <2>1, <2>2, <2>3 DEF RunFunctor, attemptVars
<1> QED BY <1>3, <1>4, <1>5, <1>6, <1>7, <1>8 DEF Next, LoopStep

\* The steps that are left once the client is gone.
LEMMA DeadSteps ==
    ASSUME Contract, RawInv, ClientInv, ~clientAlive, [Next]_vars
    PROVE  /\ ~clientAlive'
           /\ \/ HandleError \/ HandleWrite \/ RetryTimer \/ Swap \/ RunFunctor \/ EndBatch
              \/ CloseConnection \/ Tick \/ Quiet \/ Abort \/ UNCHANGED vars
<1>1. onLoop /\ call = "none"
  BY DEF Contract, RawInv, ClientInv
<1>2. ~UserCall /\ ~UserQueue
  BY <1>1 DEF UserCall, UserQueue
<1>3. ~NewConnection /\ ~LoopStart /\ ~LoopStop /\ ~LoopDtor
  BY DEF NewConnection, LoopStart, LoopStop, LoopDtor, MayStart, MayStop, MayDie
<1>4. \/ HandleError \/ HandleWrite \/ RetryTimer \/ Swap \/ RunFunctor \/ EndBatch
      \/ CloseConnection \/ Tick \/ Quiet \/ Abort \/ UNCHANGED vars
  BY <1>2, <1>3, Zenon DEF Next, LoopStep
<1>5. clientAlive' = clientAlive
  BY <1>4 DEF HandleError, HandleWrite, RetryTimer, Swap, RunFunctor, EndBatch, CloseConnection, Tick,
              Quiet, Abort, vars, clientVars
<1> QED BY <1>4, <1>5, Zenon

LEMMA GoneStep ==
    ASSUME Contract, Typed, AttemptInv, RawInv, ClientInv, GoneInv, ~clientAlive, [Next]_vars
    PROVE  GoneInv' /\ ~handing' /\ conn' # "up"
<1>0. /\ state = "kConnected" /\ channel = "none" /\ retries = <<>> /\ Queue(pending, batch) = {}
      /\ ~handing /\ conn # "up" /\ pending \in Seq(Functors)
  BY DEF GoneInv, ClientInv, Typed
<1>1. ~HandleError /\ ~HandleWrite /\ ~RetryTimer
  BY <1>0 DEF HandleError, HandleWrite, RetryTimer, StartInLoop
<1>2. ~RunFunctor
  <2>1. RunFunctor => Head(batch) \in Queue(pending, batch)
    BY RunFunctorQueue
  <2> QED BY <1>0, <2>1
<1>3. CASE Swap \/ EndBatch
  <2>1. /\ state' = state /\ channel' = channel /\ retries' = retries /\ conn' = conn
    BY <1>3 DEF Swap, EndBatch, attemptVars, clientVars
  <2>2. ~handing'
    BY <1>0, <1>3, Zenon DEF Swap, EndBatch
  <2>3. Queue(pending', batch') = Queue(pending, batch)
    BY <1>3, RoundQueue
  <2> QED BY <1>0, <2>1, <2>2, <2>3 DEF GoneInv
<1>4. CASE CloseConnection \/ Quiet \/ Abort \/ UNCHANGED vars
  <2>1. /\ state' = state /\ channel' = channel /\ retries' = retries /\ (conn' = conn \/ conn' = "closed")
        /\ pending' = pending /\ batch' = batch
    BY <1>4 DEF CloseConnection, Quiet, Abort, vars, attemptVars, clientVars, loopVars
  <2>2. handing' = handing
    BY <1>4 DEF CloseConnection, Quiet, Abort, vars
  <2>3. ~handing'
    BY <1>0, <2>2, Zenon
  <2> QED BY <1>0, <2>1, <2>3 DEF GoneInv
<1>5. CASE Tick
  <2>1. /\ state' = state /\ channel' = channel /\ conn' = conn /\ pending' = pending /\ batch' = batch
    BY <1>5 DEF Tick, loopVars
  <2>2. ~handing'
    BY <1>0, <1>5, Zenon DEF Tick
  <2>3. retries' \in Seq(0..MaxDelay) /\ Len(retries') = Len(retries) /\ Len(retries) = 0
    BY <1>0, <1>5, TickFacts
  <2>4. retries' = <<>>
    BY <2>3, EmptyIff
  <2> QED BY <1>0, <2>1, <2>2, <2>4 DEF GoneInv
<1> QED BY <1>1, <1>2, <1>3, <1>4, <1>5, DeadSteps

\* A step that takes nothing from the queue but what was run, and no time.
LEMMA StoppedKept ==
    ASSUME StoppedInv, ~connect', keep' = keep, state' = "kConnecting" => state = "kConnecting",
           state' = "kConnecting" /\ "stop" \in Queue(pending, batch) => "stop" \in Queue(pending', batch'),
           \/ keep > 0
           \/ channel' = channel /\ Queue(pending', batch') \subseteq Queue(pending, batch),
           retryDelay' = retryDelay, Elements(retries') \subseteq Elements(retries)
    PROVE  StoppedInv'
<1>1. state' = "kConnecting" => "stop" \in Queue(pending', batch') /\ keep' > 0
  BY DEF StoppedInv
<1>2. keep' = 0 => channel' = "none" /\ Queue(pending', batch') = {}
  BY DEF StoppedInv
<1>3. retryDelay' <= KeepAlive /\ retryDelay' # MaxDelay => \A v \in Elements(retries') : v < keep'
  BY DEF StoppedInv
<1> QED BY <1>1, <1>2, <1>3 DEF StoppedInv

\* retry() after stop() plans nothing.
LEMMA RetryUnwanted ==
    ASSUME NEW fds, NEW left, NEW wanted, ~wanted, Retry(fds, left, wanted)
    PROVE  state' = "kDisconnected" /\ retries' = left /\ retryDelay' = retryDelay
<1>1. state' = "kDisconnected"
  BY DEF Retry
<1>2. retries' = left /\ retryDelay' = retryDelay
  BY Zenon DEF Retry
<1> QED BY <1>1, <1>2

LEMMA StartUnwanted ==
    ASSUME NEW left, NEW wanted, ~wanted, StartInLoop(left, wanted)
    PROVE  state = "kDisconnected" /\ state' = state /\ retries' = left /\ retryDelay' = retryDelay /\ channel' = channel
<1>1. state = "kDisconnected"
  BY DEF StartInLoop
<1>2. retries' = left /\ UNCHANGED <<state, channel, retryDelay, failures, openFds, refused>>
  BY Zenon DEF StartInLoop
<1> QED BY <1>1, <1>2

LEMMA StoppedTick ==
    ASSUME Typed, AttemptInv, StoppedInv, Tick
    PROVE  StoppedInv'
<1>1. /\ state' = state /\ channel' = channel /\ pending' = pending /\ batch' = batch /\ retryDelay' = retryDelay
  BY DEF Tick, loopVars
<1>2. ~connect'
  BY Zenon DEF Tick, StoppedInv
<1>3. Queue(pending, batch) = {} /\ (state # "kConnecting" => channel = "none")
  BY TickReset
<1>4. state # "kConnecting" /\ channel = "none"
  BY <1>3 DEF StoppedInv
<1>5. ASSUME retryDelay <= KeepAlive, retryDelay # MaxDelay, NEW v \in Elements(retries')
      PROVE  v < keep'
  <2>1. v + 1 \in Elements(retries) /\ retries' \in Seq(0..MaxDelay)
        /\ keep' = (IF keep > 0 THEN keep - 1 ELSE keep)
    BY TickFacts
  <2>2. v \in 0..MaxDelay /\ keep \in 0..KeepAlive /\ MaxDelay \in Nat /\ KeepAlive \in Nat
    BY <2>1, ElementsIn, ConnectorAssumption DEF Typed
  <2>3. v + 1 < keep
    BY <1>5, <2>1 DEF StoppedInv
  <2>4. v \in Nat /\ keep \in Nat
    BY <2>2
  <2> QED BY <2>1, <2>3, <2>4
<1> QED BY <1>1, <1>2, <1>3, <1>4, <1>5 DEF StoppedInv

\* A functor runs while the connector is kept.
LEMMA StoppedRun ==
    ASSUME Typed, AttemptInv, StartInv, RawInv, StoppedInv, RunFunctor
    PROVE  StoppedInv'
<1> DEFINE f == Head(batch)
<1>1. /\ f \in Queue(pending, batch) /\ Queue(pending, batch) \subseteq Queue(pending', batch') \cup {f}
  BY RunFunctorQueue
<1>2. f \in RawCalls /\ keep \in Nat /\ keep # 0
  BY <1>1 DEF RawInv, StoppedInv, Typed
<1>3. f \in {"start", "stop", "reset"} /\ keep > 0
  BY <1>2, RawNames
<1>4. ~connect /\ ~connect'
  BY Zenon DEF RunFunctor, StoppedInv
<1>5. f # "stop" /\ "stop" \in Queue(pending, batch) => "stop" \in Queue(pending', batch')
  BY <1>1
<1> HIDE DEF f
<1>6. CASE f = "start" /\ StartInLoop(retries, connect) /\ keep' = keep
  <2>1. state' = state /\ retries' = retries /\ retryDelay' = retryDelay
    BY <1>4, <1>6, StartUnwanted
  <2> QED BY <1>3, <1>4, <1>5, <1>6, <2>1, StoppedKept
<1>7. CASE f = "stop" /\ StopInLoop /\ keep' = keep
  <2>1. CASE state = "kConnecting"
    <3>1. Retry(openFds, retries, connect)
      BY <1>7, <2>1 DEF StopInLoop
    <3>2. state' = "kDisconnected" /\ retries' = retries /\ retryDelay' = retryDelay
      BY <1>4, <3>1, RetryUnwanted
    <3> QED BY <1>3, <1>4, <1>7, <3>2, StoppedKept
  <2>2. CASE state # "kConnecting"
    <3>1. state' = state /\ retries' = retries /\ retryDelay' = retryDelay
      BY <1>7, <2>2 DEF StopInLoop
    <3> QED BY <1>3, <1>4, <1>7, <2>2, <3>1, StoppedKept
  <2> QED BY <2>1, <2>2
<1>8. CASE f = "reset" /\ keep' = keep /\ UNCHANGED <<state, retries, retryDelay>>
  BY <1>3, <1>4, <1>5, <1>8, StoppedKept
<1> QED BY <1>3, <1>6, <1>7, <1>8 DEF RunFunctor, f

LEMMA StoppedStep ==
    ASSUME Contract, Typed, AttemptInv, StartInv, RawInv, ClientInv, StoppedInv, ~clientAlive, [Next]_vars
    PROVE  StoppedInv' /\ ~handing' /\ conn' # "up"
<1>0. ~handing /\ conn # "up" /\ ~connect
  BY DEF ClientInv, StoppedInv
<1>1. CASE HandleError
  <2>1. /\ state = "kConnecting" /\ pending' = Append(pending, "reset") /\ batch' = batch /\ "reset" \in Functors
        /\ keep' = keep /\ conn' = conn /\ Retry(openFds, retries, connect)
    BY <1>1 DEF HandleError, RemoveAndResetChannel, clientVars, Functors
  <2>2. ~handing' /\ ~connect'
    BY <1>0, <1>1, Zenon DEF HandleError
  <2>3. keep > 0
    BY <2>1 DEF StoppedInv
  <2>4. state' = "kDisconnected" /\ retries' = retries /\ retryDelay' = retryDelay
    BY <1>0, <2>1, RetryUnwanted
  <2>5. StoppedInv'
    BY <2>1, <2>2, <2>3, <2>4, StoppedKept
  <2> QED BY <1>0, <2>1, <2>2, <2>5
<1>2. CASE HandleWrite
  <2>1. /\ state = "kConnecting" /\ keep' = keep /\ conn' = conn
        /\ state' = "kConnected" /\ retries' = retries /\ retryDelay' = retryDelay
    BY <1>2 DEF HandleWrite, clientVars
  <2>2. ~handing' /\ ~connect'
    BY <1>0, <1>2, Zenon DEF HandleWrite
  <2>3. keep > 0
    BY <2>1 DEF StoppedInv
  <2>4. StoppedInv'
    BY <2>1, <2>2, <2>3, StoppedKept
  <2> QED BY <1>0, <2>1, <2>2, <2>4
<1>3. CASE RetryTimer
  <2>1. PICK i \in DOMAIN retries : StartInLoop(Without(retries, i), connect)
    BY <1>3 DEF RetryTimer
  <2>2. retries \in Seq(0..MaxDelay) /\ i \in 1..Len(retries)
    BY <2>1 DEF Typed
  <2>3. Elements(Without(retries, i)) \subseteq Elements(retries)
    BY <2>2, WithoutOne
  <2>4. state' = state /\ retries' = Without(retries, i) /\ retryDelay' = retryDelay /\ channel' = channel
    BY <1>0, <2>1, StartUnwanted
  <2>5. keep' = keep /\ conn' = conn /\ pending' = pending /\ batch' = batch
    BY <1>3 DEF RetryTimer, clientVars, loopVars
  <2>6. ~handing' /\ ~connect'
    BY <1>0, <1>3, Zenon DEF RetryTimer
  <2>7. StoppedInv'
    BY <2>3, <2>4, <2>5, <2>6, StoppedKept
  <2> QED BY <1>0, <2>5, <2>6, <2>7
<1>4. CASE Swap \/ EndBatch
  <2>1. /\ state' = state /\ channel' = channel /\ retries' = retries /\ retryDelay' = retryDelay
        /\ keep' = keep /\ conn' = conn
    BY <1>4 DEF Swap, EndBatch, attemptVars, clientVars
  <2>2. ~handing' /\ ~connect'
    <3>1. handing' = handing /\ connect' = connect
      BY <1>4 DEF Swap, EndBatch
    <3> QED BY <1>0, <3>1, Zenon
  <2>3. Queue(pending', batch') = Queue(pending, batch)
    BY <1>4, RoundQueue
  <2>4. StoppedInv'
    BY <2>1, <2>2, <2>3, StoppedKept
  <2> QED BY <1>0, <2>1, <2>2, <2>4
<1>5. CASE CloseConnection \/ Quiet \/ Abort \/ UNCHANGED vars
  <2>1. /\ state' = state /\ channel' = channel /\ retries' = retries /\ retryDelay' = retryDelay
        /\ keep' = keep /\ (conn' = conn \/ conn' = "closed") /\ pending' = pending /\ batch' = batch
    BY <1>5 DEF CloseConnection, Quiet, Abort, vars, attemptVars, clientVars, loopVars
  <2>2. handing' = handing /\ connect' = connect
    BY <1>5 DEF CloseConnection, Quiet, Abort, vars
  <2>3. ~handing' /\ ~connect'
    BY <1>0, <2>2, Zenon
  <2>4. StoppedInv'
    BY <2>1, <2>3, StoppedKept
  <2> QED BY <1>0, <2>1, <2>3, <2>4
<1>6. CASE Tick
  <2>1. ~handing'
    BY <1>0, <1>6, Zenon DEF Tick
  <2>2. conn' = conn
    BY <1>6 DEF Tick
  <2> QED BY <1>0, <1>6, <2>1, <2>2, StoppedTick
<1>7. CASE RunFunctor
  <2>1. conn' = conn \/ conn' # "up"
    BY <1>7 DEF RunFunctor
  <2>2. ~handing'
    BY <1>0, <1>7, Zenon DEF RunFunctor
  <2> QED BY <1>0, <1>7, <2>1, <2>2, StoppedRun
<1> QED BY <1>1, <1>2, <1>3, <1>4, <1>5, <1>6, <1>7, DeadSteps

\* ~TcpClient() of an application that keeps the contract: no functor of the
\* connector is queued, so that the channel is gone or still watched.
LEMMA DeathStep ==
    ASSUME Contract, Typed, AttemptInv, StartInv, RawInv, PlanInv, ClientInv, LoopDtor
    PROVE  ~handing' /\ conn' # "up" /\ (GoneInv' \/ StoppedInv')
<1>1. dies = "careful" /\ Queued \cap RawCalls = {}
  BY DEF LoopDtor, MayDie, Contract, ClientInv
<1>2. Queue(pending, batch) = {}
  BY <1>1 DEF Queued, Queue, RawInv
<1>3. /\ state' = state /\ channel' = channel /\ retries' = retries /\ retryDelay' = retryDelay /\ batch' = batch
  BY DEF LoopDtor, attemptVars
<1>4. ~handing'
  BY Zenon DEF LoopDtor
<1>5. CASE conn = "up"
  <2>1. conn' # "up" /\ pending' = pending
    BY <1>5 DEF LoopDtor
  <2>2. state = "kConnected"
    BY <1>5 DEF ClientInv
  <2>3. channel = "none"
    BY <1>2, <2>2 DEF AttemptInv, Typed
  <2>4. retries = <<>>
    BY <2>2 DEF StartInv
  <2>5. GoneInv'
    BY <1>2, <1>3, <2>1, <2>2, <2>3, <2>4 DEF GoneInv
  <2> QED BY <1>4, <2>1, <2>5
<1>6. CASE conn # "up"
  <2>1. conn' = conn /\ pending' = Append(pending, "stop") /\ keep' = KeepAlive
    BY <1>6 DEF LoopDtor
  <2>2. ~connect'
    BY <1>6, Zenon DEF LoopDtor
  <2>3. "stop" \in Functors
    BY DEF Functors
  <2>4. Queue(pending', batch') = Queue(pending, batch) \cup {"stop"}
    BY <1>3, <2>1, <2>3, QueueInLoop
  <2>5. KeepAlive \in Nat /\ KeepAlive # 0 /\ MaxDelay \in Nat
    BY ConnectorAssumption
  <2>6. keep' > 0 /\ keep' # 0
    BY <2>1, <2>5
  <2>7. ASSUME retryDelay <= KeepAlive, retryDelay # MaxDelay, NEW v \in Elements(retries)
        PROVE  v < KeepAlive
    <3>1. retryDelay \in 1..MaxDelay /\ retries \in Seq(0..MaxDelay)
      BY DEF Typed
    <3>2. v \in 0..MaxDelay
      BY <3>1, ElementsIn
    <3>3. v < retryDelay \/ retryDelay = MaxDelay
      BY DEF PlanInv
    <3> QED BY <2>5, <2>7, <3>1, <3>2, <3>3
  <2>8. StoppedInv'
    BY <1>3, <2>1, <2>2, <2>4, <2>6, <2>7 DEF StoppedInv
  <2> QED BY <1>4, <1>6, <2>1, <2>8
<1> QED BY <1>5, <1>6

LEMMA ClientStep ==
    ASSUME Contract, Typed, AttemptInv, StartInv, RawInv, PlanInv, ClientInv, [Next]_vars
    PROVE  ClientInv'
<1>1. conn' = "up" => state' = "kConnected"
  BY UpStep DEF ClientInv
<1>2. dies' = dies
  BY DEF Next, LoopStep, HandleError, HandleWrite, NewConnection, RetryTimer, Swap, RunFunctor, EndBatch,
         CloseConnection, Tick, LoopStart, LoopStop, LoopDtor, UserCall, UserQueue, Quiet, Abort, vars, config
<1>3. CASE ~clientAlive
  <2>1. dies # "never"
    BY <1>3 DEF ClientInv
  <2>2. GoneInv \/ StoppedInv
    BY <1>3 DEF ClientInv
  <2>3. ~handing' /\ conn' # "up" /\ (GoneInv' \/ StoppedInv')
    BY <1>3, <2>2, GoneStep, StoppedStep
  <2> QED BY <1>1, <1>2, <2>1, <2>3 DEF ClientInv
<1>4. CASE clientAlive /\ LoopDtor
  <2>1. dies # "never"
    BY <1>4 DEF LoopDtor, MayDie
  <2>2. ~handing' /\ conn' # "up" /\ (GoneInv' \/ StoppedInv')
    BY <1>4, DeathStep
  <2> QED BY <1>1, <1>2, <2>1, <2>2 DEF ClientInv
<1>5. CASE clientAlive /\ ~LoopDtor
  <2>1. CASE UserQueue
    <3>1. call \in {"start", "stop"}
      BY <2>1 DEF RawInv, UserQueue
    <3>2. clientAlive' = clientAlive
      BY <2>1, <3>1 DEF UserQueue
    <3> QED BY <1>1, <1>5, <3>2 DEF ClientInv
  <2>2. CASE ~UserQueue
    <3>1. clientAlive' = clientAlive
      BY <1>5, <2>2
      DEF Next, LoopStep, HandleError, HandleWrite, NewConnection, RetryTimer, Swap, RunFunctor, EndBatch,
          CloseConnection, Tick, LoopStart, LoopStop, UserCall, Quiet, Abort, vars, clientVars
    <3> QED BY <1>1, <1>5, <3>1 DEF ClientInv
  <2> QED BY <2>1, <2>2
<1> QED BY <1>3, <1>4, <1>5

-----------------------------------------------------------------------------
(* Applications that keep the contract                                     *)

ContractInv == Contract => RawInv /\ PlanInv /\ ClientInv

Inv == Typed /\ AttemptInv /\ (~Restarts => StartInv) /\ ContractInv

LEMMA InvInit == Init => Inv
<1> SUFFICES ASSUME Init PROVE Inv
  OBVIOUS
<1>1. Typed /\ AttemptInv /\ StartInv
  BY OneInit
<1>2. /\ pending = <<>> /\ batch = <<>> /\ call = "none" /\ retries = <<>> /\ conn = "none"
  BY DEF Init
<1>3. clientAlive
  BY Zenon DEF Init
<1>4. Queue(pending, batch) = {}
  BY <1>2, QueueSwap
<1>5. RawInv
  BY <1>2, <1>4 DEF RawInv
<1>6. PlanInv
  BY <1>2, EmptyElements DEF PlanInv
<1>7. ClientInv
  BY <1>2, <1>3 DEF ClientInv
<1> QED BY <1>1, <1>5, <1>6, <1>7 DEF Inv, ContractInv

LEMMA InvStep == Inv /\ [Next]_vars => Inv'
<1> SUFFICES ASSUME Inv, [Next]_vars PROVE Inv'
  OBVIOUS
<1>1. Typed' /\ AttemptInv' /\ (~Restarts => StartInv')
  BY OneStep DEF Inv
<1>2. onLoop' = onLoop /\ dies' = dies
  BY DEF Next, LoopStep, HandleError, HandleWrite, NewConnection, RetryTimer, Swap, RunFunctor, EndBatch,
         CloseConnection, Tick, LoopStart, LoopStop, LoopDtor, UserCall, UserQueue, Quiet, Abort, vars, config
<1>3. ASSUME Contract' PROVE RawInv' /\ PlanInv' /\ ClientInv'
  <2>1. Contract /\ ~Restarts
    BY <1>2, <1>3 DEF Contract
  <2>2. Typed /\ AttemptInv /\ StartInv /\ RawInv /\ PlanInv /\ ClientInv
    BY <2>1 DEF Inv, ContractInv
  <2> QED BY <2>1, <2>2, RawStep, PlanStep, ClientStep
<1> QED BY <1>1, <1>3 DEF Inv, ContractInv

\* The invariant on which the theorems rest.
THEOREM ConnectorInvariant == Spec => []Inv
BY InvInit, InvStep, PTL DEF Spec

LEMMA InvContract ==
    ASSUME Inv, Contract
    PROVE  Typed /\ AttemptInv /\ StartInv /\ RawInv /\ PlanInv /\ ClientInv
BY DEF Inv, ContractInv, Contract

LEMMA AboutToStartFrom ==
    ASSUME Typed, AboutToStart
    PROVE  "start" \in Queue(pending, batch) \/ 0 \in Elements(retries)
<1>1. CASE phase = "functors" /\ batch # <<>> /\ Head(batch) = "start"
  <2>1. batch \in Seq(Functors)
    BY DEF Typed
  <2>2. Len(batch) > 0 /\ Len(batch) \in Nat /\ Head(batch) = batch[1]
    BY <1>1, <2>1
  <2>3. 1 \in 1..Len(batch) /\ batch[1] = "start"
    BY <1>1, <2>2
  <2> QED BY <2>3 DEF Queue, Elements
<1>2. CASE \E i \in DOMAIN retries : retries[i] = 0
  <2>1. DOMAIN retries = 1..Len(retries)
    BY DEF Typed
  <2> QED BY <1>2, <2>1 DEF Elements
<1> QED BY <1>1, <1>2 DEF AboutToStart

\* An application that keeps the contract meets no failed assertion, however
\* retries, stop() and the reset of the channel interleave
\* (Connector::startInLoop, connecting, ~Connector).
THEOREM ContractMeetsNoFailedAssertion == Spec => []ContractKeepsAssertions
<1>1. ASSUME Inv, Contract PROVE StartAssertion /\ ConnectingAssertion /\ DtorAssertion
  <2>1. Typed /\ AttemptInv /\ StartInv /\ RawInv /\ PlanInv /\ ClientInv
    BY <1>1, InvContract
  <2>2. ASSUME AboutToStart PROVE state = "kDisconnected" /\ channel = "none"
    <3>1. CASE "start" \in Queue(pending, batch)
      BY <2>1, <3>1 DEF StartInv
    <3>2. CASE 0 \in Elements(retries)
      <4>1. retries # <<>>
        BY <3>2, EmptyElements
      <4> QED BY <2>1, <3>2, <4>1 DEF StartInv, PlanInv
    <3> QED BY <2>1, <2>2, <3>1, <3>2, AboutToStartFrom
  <2>3. ASSUME ~ConnectorAlive PROVE channel = "none"
    <3>1. ~clientAlive /\ ~(keep > 0)
      BY <2>3 DEF ConnectorAlive
    <3>2. keep \in Nat
      BY <2>1, ConnectorAssumption DEF Typed
    <3>3. keep = 0
      BY <3>1, <3>2
    <3> QED BY <2>1, <3>1, <3>3 DEF ClientInv, GoneInv, StoppedInv
  <2> QED BY <2>2, <2>3 DEF StartAssertion, ConnectingAssertion, DtorAssertion
<1>2. Inv => ContractKeepsAssertions
  BY <1>1 DEF ContractKeepsAssertions
<1> QED BY <1>2, ConnectorInvariant, PTL

\* For an application that keeps the contract, functors bound to the raw
\* Connector never outlive it, callbacks bound to the raw TcpClient find it
\* alive, and no retry timer outlives the connector but one planned when the
\* delay had grown past the time for which ~TcpClient() keeps the connector,
\* or to its maximum; for every such time and every maximum
\* (TcpClient::~TcpClient, Connector::retry, removeAndResetChannel).
THEOREM OnlyLongRetriesEverDangle == Spec => []OnlyLongRetriesDangle
<1>1. ASSUME Inv, Contract, ~ConnectorAlive
      PROVE  /\ Queued \cap RawCalls = {}
             /\ retries # <<>> => retryDelay > KeepAlive \/ retryDelay = MaxDelay
  <2>1. Typed /\ AttemptInv /\ StartInv /\ RawInv /\ PlanInv /\ ClientInv
    BY <1>1, InvContract
  <2>2. ~clientAlive /\ ~(keep > 0)
    BY <1>1 DEF ConnectorAlive
  <2>3. keep \in Nat
    BY <2>1, ConnectorAssumption DEF Typed
  <2>4. keep = 0
    BY <2>2, <2>3
  <2>5. GoneInv \/ StoppedInv
    BY <2>1, <2>2 DEF ClientInv
  <2>6. Queue(pending, batch) = {}
    BY <2>4, <2>5 DEF GoneInv, StoppedInv
  <2>7. ASSUME retryDelay <= KeepAlive, retryDelay # MaxDelay, retries # <<>> PROVE FALSE
    <3>1. StoppedInv
      BY <2>5, <2>7 DEF GoneInv
    <3>2. \A v \in Elements(retries) : v < 0
      BY <2>4, <2>7, <3>1 DEF StoppedInv
    <3>3. retries \in Seq(0..MaxDelay) /\ MaxDelay \in Nat
      BY <2>1, ConnectorAssumption DEF Typed
    <3>4. Len(retries) \in Nat /\ Len(retries) # 0
      BY <2>7, <3>3, EmptyIff
    <3>5. retries[1] \in Elements(retries) /\ retries[1] \in 0..MaxDelay
      BY <3>3, <3>4 DEF Elements
    <3> QED BY <3>2, <3>5
  <2>8. Queued = Queue(pending, batch)
    BY DEF Queued, Queue
  <2>9. retryDelay \in Nat /\ KeepAlive \in Nat
    BY <2>1, ConnectorAssumption DEF Typed
  <2> QED BY <2>6, <2>7, <2>8, <2>9
<1>2. ASSUME Inv, Contract, handing \/ conn = "up" PROVE clientAlive
  <2>1. ClientInv
    BY <1>2, InvContract
  <2> QED BY <1>2, <2>1 DEF ClientInv
<1>3. Inv => OnlyLongRetriesDangle
  BY <1>1, <1>2 DEF OnlyLongRetriesDangle
<1> QED BY <1>3, ConnectorInvariant, PTL

=============================================================================
