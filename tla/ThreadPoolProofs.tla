-------------------------- MODULE ThreadPoolProofs --------------------------
(***************************************************************************)
(* What ThreadPool.tla promises for every number of threads, every size of *)
(* the queue, every script and every clock.                                *)
(***************************************************************************)
EXTENDS ThreadPool, SequenceTheorems, FiniteSetTheorems, TLAPS

-----------------------------------------------------------------------------
(* The containers                                                          *)

\* what is queued, and what a slot of the ring may hold
Values == {"task", "stop"} \X Int
Slots == Values \cup {<<>>}

\* the place of the i-th oldest item in the ring
Wrap(x, c) == IF x < c THEN x ELSE x - c
Place(q, i) == Wrap(q.getPos + i - 1, q.capacity)

RingType ==
    [is : {"ring"}, buffer : [0..QueueSize - 1 -> Slots], capacity : {QueueSize},
     numDatas : Int, putPos : Int, getPos : Int]

RingOK(q) ==
    /\ q \in RingType /\ q.numDatas \in 0..QueueSize /\ q.getPos \in 0..QueueSize - 1
    /\ q.putPos = Wrap(q.getPos + q.numDatas, QueueSize)
    /\ \A i \in 1..q.numDatas : q.buffer[Place(q, i)] \in Values

DequeOK(q) == q \in [is : {"deque"}, items : Seq(Values), max : Nat]

QueueOK(q) == RingOK(q) \/ DequeOK(q)

\* The remainder of a position that has passed the end of the ring at most once.
LEMMA WrapIs ==
    ASSUME NEW c \in Nat \ {0}, NEW x \in 0..(2 * c - 1)
    PROVE  x % c = Wrap(x, c)
BY DEF Wrap

\* Adding an item moves the end of the ring by one place, onto a free one.
LEMMA WrapEnd ==
    ASSUME NEW c \in Nat \ {0}, NEW g \in 0..c - 1, NEW n \in 0..c - 1
    PROVE  /\ Wrap(g + n, c) \in 0..c - 1
           /\ Wrap(g + (n + 1), c) = IF Wrap(g + n, c) + 1 = c THEN 0 ELSE Wrap(g + n, c) + 1
           /\ \A i \in 1..n : Wrap(g + i - 1, c) \in 0..c - 1 /\ Wrap(g + i - 1, c) # Wrap(g + n, c)
BY DEF Wrap

\* Removing one moves its beginning.
LEMMA WrapBegin ==
    ASSUME NEW c \in Nat \ {0}, NEW g \in 0..c - 1, NEW n \in 1..c,
           NEW h, h = IF g + 1 = c THEN 0 ELSE g + 1
    PROVE  /\ h \in 0..c - 1 /\ Wrap(h + (n - 1), c) = Wrap(g + n, c) /\ Wrap(g, c) = g
           /\ \A i \in 1..n - 1 : Wrap(h + i - 1, c) = Wrap(g + (i + 1) - 1, c)
BY DEF Wrap

\* What a ring is after its fields were assigned.
LEMMA RingPushed ==
    ASSUME NEW q \in RingType, NEW x
    PROVE  PushBack(q, x) =
             [is |-> "ring", buffer |-> [q.buffer EXCEPT ![q.putPos] = x], capacity |-> QueueSize,
              numDatas |-> q.numDatas + 1, putPos |-> Advance(q, q.putPos), getPos |-> q.getPos]
BY DEF RingType, PushBack

LEMMA RingPopped ==
    ASSUME NEW q \in RingType
    PROVE  PopFront(q) =
             [is |-> "ring", buffer |-> q.buffer, capacity |-> QueueSize,
              numDatas |-> q.numDatas - 1, putPos |-> q.putPos, getPos |-> Advance(q, q.getPos)]
BY DEF RingType, PopFront

\* What a ring holds is a sequence of values.
LEMMA RingItems ==
    ASSUME NEW q, RingOK(q)
    PROVE  /\ Items(q) \in Seq(Values) /\ Len(Items(q)) = q.numDatas
           /\ \A i \in 1..q.numDatas : Items(q)[i] = q.buffer[Place(q, i)] /\ Place(q, i) \in 0..QueueSize - 1
<1>1. /\ QueueSize \in Nat \ {0} /\ q.numDatas \in 0..QueueSize /\ q.getPos \in 0..QueueSize - 1
      /\ q.capacity = QueueSize /\ q.is = "ring"
  BY PoolAssumption DEF RingOK, RingType
<1>2. \A i \in 1..q.numDatas : (q.getPos + i - 1) % q.capacity = Place(q, i) /\ Place(q, i) \in 0..QueueSize - 1
  <2> TAKE i \in 1..q.numDatas
  <2>1. q.getPos + i - 1 \in 0..(2 * QueueSize - 1)
    BY <1>1
  <2>2. (q.getPos + i - 1) % QueueSize = Wrap(q.getPos + i - 1, QueueSize)
    BY <1>1, <2>1, WrapIs
  <2> QED BY <1>1, <2>1, <2>2 DEF Place, Wrap
<1>3. Items(q) = [i \in 1..q.numDatas |-> q.buffer[(q.getPos + i - 1) % q.capacity]]
  BY <1>1 DEF Items
<1>4. Items(q) = [i \in 1..q.numDatas |-> q.buffer[Place(q, i)]]
  BY <1>2, <1>3
<1>5. Items(q) \in [1..q.numDatas -> Values]
  BY <1>4 DEF RingOK
<1>6. Items(q) \in Seq(Values) /\ Len(Items(q)) = q.numDatas
  BY <1>1, <1>5
<1> QED BY <1>2, <1>4, <1>6

\* RingBuffer::push_back(), however often the ring has wrapped.
LEMMA RingPush ==
    ASSUME NEW q, RingOK(q), ~IsFull(q), NEW x \in Values
    PROVE  RingOK(PushBack(q, x)) /\ Items(PushBack(q, x)) = Append(Items(q), x)
<1> DEFINE r == PushBack(q, x)
<1>1. /\ QueueSize \in Nat \ {0} /\ q \in RingType /\ q.buffer \in [0..QueueSize - 1 -> Slots]
      /\ q.capacity = QueueSize /\ q.is = "ring" /\ q.numDatas \in Int /\ q.putPos \in Int
  BY PoolAssumption, SMTT(60) DEF RingOK, RingType
<1>2. /\ q.putPos = Wrap(q.getPos + q.numDatas, QueueSize)
      /\ q.numDatas \in 0..QueueSize /\ q.getPos \in 0..QueueSize - 1
      /\ \A i \in 1..q.numDatas : q.buffer[Place(q, i)] \in Values
  BY DEF RingOK
<1>3. q.numDatas \in 0..QueueSize - 1
  BY <1>1, <1>2 DEF IsFull
<1>4. /\ q.putPos \in 0..QueueSize - 1
      /\ Wrap(q.getPos + (q.numDatas + 1), QueueSize) = Advance(q, q.putPos)
      /\ \A i \in 1..q.numDatas : Wrap(q.getPos + i - 1, QueueSize) \in 0..QueueSize - 1
                                  /\ Wrap(q.getPos + i - 1, QueueSize) # q.putPos
  <2> DEFINE c == QueueSize
             g == q.getPos
             n == q.numDatas
             put == Wrap(g + n, c)
  <2>1. c \in Nat \ {0} /\ g \in 0..c - 1 /\ n \in 0..c - 1
    BY <1>1, <1>2, <1>3
  <2> HIDE DEF c, g, n
  <2>2. /\ put \in 0..c - 1
        /\ Wrap(g + (n + 1), c) = IF put + 1 = c THEN 0 ELSE put + 1
        /\ \A i \in 1..n : Wrap(g + i - 1, c) \in 0..c - 1 /\ Wrap(g + i - 1, c) # put
    BY <2>1, WrapEnd, ZenonT(60)
  <2> QED BY <1>1, <1>2, <2>2, Zenon DEF Advance, c, g, n
<1> DEFINE b == [q.buffer EXCEPT ![q.putPos] = x]
<1>5. /\ b \in [0..QueueSize - 1 -> Slots] /\ b[q.putPos] = x
      /\ \A i \in 0..QueueSize - 1 : i # q.putPos => b[i] = q.buffer[i]
  BY <1>1, <1>4 DEF Slots
<1>a. Advance(q, q.putPos) \in Int /\ q.numDatas + 1 \in Int /\ q.getPos \in Int
  BY <1>1, <1>2 DEF Advance
<1>b. r = [is |-> "ring", buffer |-> b, capacity |-> QueueSize,
           numDatas |-> q.numDatas + 1, putPos |-> Advance(q, q.putPos), getPos |-> q.getPos]
  BY <1>1, RingPushed, Zenon
<1> HIDE DEF r, b
<1>c. /\ r \in RingType /\ r.is = "ring" /\ r.capacity = QueueSize
      /\ r.buffer = b /\ r.putPos = Advance(q, q.putPos) /\ r.numDatas = q.numDatas + 1
      /\ r.getPos = q.getPos
  BY <1>5, <1>a, <1>b DEF RingType
<1>d. /\ r.putPos = Wrap(r.getPos + r.numDatas, QueueSize)
      /\ r.numDatas \in 0..QueueSize /\ r.getPos \in 0..QueueSize - 1
  BY <1>1, <1>2, <1>3, <1>4, <1>c
<1>e. Place(r, r.numDatas) = q.putPos
  BY <1>1, <1>2, <1>3, <1>c DEF Place
<1>6. \A i \in 1..q.numDatas : r.buffer[Place(r, i)] = q.buffer[Place(q, i)]
  BY <1>1, <1>4, <1>5, <1>c DEF Place
<1>7. r.buffer[Place(r, r.numDatas)] = x
  BY <1>5, <1>c, <1>e
<1>8. \A i \in 1..r.numDatas : r.buffer[Place(r, i)] \in Values
  <2> TAKE i \in 1..r.numDatas
  <2>1. CASE i = r.numDatas
    BY <1>7, <2>1
  <2>2. CASE i # r.numDatas
    <3>1. i \in 1..q.numDatas
      BY <1>3, <1>c, <2>2
    <3> QED BY <1>2, <1>6, <3>1
  <2> QED BY <2>1, <2>2
<1>9. RingOK(r)
  BY <1>c, <1>d, <1>8 DEF RingOK
<1>10. Items(r) = Append(Items(q), x)
  <2>1. /\ Items(q) \in Seq(Values) /\ Len(Items(q)) = q.numDatas
        /\ \A i \in 1..q.numDatas : Items(q)[i] = q.buffer[Place(q, i)]
    BY RingItems
  <2>2. /\ Items(r) \in Seq(Values) /\ Len(Items(r)) = r.numDatas
        /\ \A i \in 1..r.numDatas : Items(r)[i] = r.buffer[Place(r, i)]
    BY <1>9, RingItems
  <2> DEFINE s == Append(Items(q), x)
  <2>3. /\ s \in Seq(Values) /\ Len(s) = q.numDatas + 1 /\ s[q.numDatas + 1] = x
        /\ \A i \in 1..q.numDatas : s[i] = Items(q)[i]
    BY <2>1, AppendProperties
  <2> HIDE DEF s
  <2>4. \A i \in 1..Len(s) : s[i] = Items(r)[i]
    <3> TAKE i \in 1..Len(s)
    <3>1. CASE i = q.numDatas + 1
      BY <1>3, <1>c, <1>7, <2>2, <2>3, <3>1
    <3>2. CASE i # q.numDatas + 1
      <4>1. i \in 1..q.numDatas /\ i \in 1..r.numDatas
        BY <1>3, <1>c, <2>3, <3>2
      <4> QED BY <1>6, <2>1, <2>2, <2>3, <4>1
    <3> QED BY <3>1, <3>2
  <2>5. s = Items(r)
    BY <1>c, <2>2, <2>3, <2>4, SeqEqual
  <2> QED BY <2>5 DEF s
<1> QED BY <1>9, <1>10 DEF r

\* RingBuffer::front() and pop_front().
LEMMA RingPop ==
    ASSUME NEW q, RingOK(q), ~IsEmpty(q)
    PROVE  /\ RingOK(PopFront(q)) /\ Items(q) # <<>>
           /\ Front(q) = Head(Items(q)) /\ Items(PopFront(q)) = Tail(Items(q))
<1> DEFINE r == PopFront(q)
<1>1. /\ QueueSize \in Nat \ {0} /\ q \in RingType /\ q.buffer \in [0..QueueSize - 1 -> Slots]
      /\ q.capacity = QueueSize /\ q.is = "ring" /\ q.numDatas \in Int /\ q.putPos \in Int
  BY PoolAssumption DEF RingOK, RingType
<1>2. /\ q.putPos = Wrap(q.getPos + q.numDatas, QueueSize)
      /\ q.numDatas \in 0..QueueSize /\ q.getPos \in 0..QueueSize - 1
      /\ \A i \in 1..q.numDatas : q.buffer[Place(q, i)] \in Values
  BY DEF RingOK
<1>3. q.numDatas \in 1..QueueSize
  BY <1>1, <1>2 DEF IsEmpty
<1>4. /\ Advance(q, q.getPos) \in 0..QueueSize - 1 /\ Wrap(q.getPos, QueueSize) = q.getPos
      /\ Wrap(Advance(q, q.getPos) + (q.numDatas - 1), QueueSize) = q.putPos
      /\ \A i \in 1..q.numDatas - 1 :
           Wrap(Advance(q, q.getPos) + i - 1, QueueSize) = Wrap(q.getPos + (i + 1) - 1, QueueSize)
  <2> DEFINE c == QueueSize
             g == q.getPos
             n == q.numDatas
             h == Advance(q, q.getPos)
  <2>1. c \in Nat \ {0} /\ g \in 0..c - 1 /\ n \in 1..c /\ h = (IF g + 1 = c THEN 0 ELSE g + 1)
    BY <1>1, <1>2, <1>3 DEF Advance
  <2> HIDE DEF c, g, n, h
  <2>2. /\ h \in 0..c - 1 /\ Wrap(h + (n - 1), c) = Wrap(g + n, c) /\ Wrap(g, c) = g
        /\ \A i \in 1..n - 1 : Wrap(h + i - 1, c) = Wrap(g + (i + 1) - 1, c)
    BY <2>1, WrapBegin
  <2> QED BY <1>2, <2>2, Zenon DEF c, g, n, h
<1>a. Advance(q, q.getPos) \in Int /\ q.numDatas - 1 \in Int
  BY <1>1, <1>4
<1>b. r = [is |-> "ring", buffer |-> q.buffer, capacity |-> QueueSize,
           numDatas |-> q.numDatas - 1, putPos |-> q.putPos, getPos |-> Advance(q, q.getPos)]
  BY <1>1, RingPopped, Zenon
<1> HIDE DEF r
<1>c. /\ r \in RingType /\ r.is = "ring" /\ r.capacity = QueueSize
      /\ r.buffer = q.buffer /\ r.putPos = q.putPos /\ r.numDatas = q.numDatas - 1
      /\ r.getPos = Advance(q, q.getPos)
  BY <1>1, <1>a, <1>b DEF RingType
<1>d. /\ r.putPos = Wrap(r.getPos + r.numDatas, QueueSize)
      /\ r.numDatas \in 0..QueueSize /\ r.getPos \in 0..QueueSize - 1
  BY <1>1, <1>3, <1>4, <1>c
<1>6. \A i \in 1..r.numDatas : Place(r, i) = Place(q, i + 1) /\ i + 1 \in 1..q.numDatas
  BY <1>1, <1>3, <1>4, <1>c DEF Place
<1>7. \A i \in 1..r.numDatas : r.buffer[Place(r, i)] \in Values
  BY <1>2, <1>6, <1>c
<1>8. RingOK(r)
  BY <1>c, <1>d, <1>7 DEF RingOK
<1>9. /\ Items(q) \in Seq(Values) /\ Len(Items(q)) = q.numDatas
      /\ \A i \in 1..q.numDatas : Items(q)[i] = q.buffer[Place(q, i)]
  BY RingItems
<1>10. Items(q) # <<>> /\ Head(Items(q)) = Items(q)[1]
  BY <1>3, <1>9
<1>11. Place(q, 1) = q.getPos
  BY <1>1, <1>2, <1>4 DEF Place
<1>12. Front(q) = Head(Items(q))
  BY <1>1, <1>3, <1>9, <1>10, <1>11 DEF Front
<1>13. Items(r) = Tail(Items(q))
  <2>2. /\ Items(r) \in Seq(Values) /\ Len(Items(r)) = r.numDatas
        /\ \A i \in 1..r.numDatas : Items(r)[i] = r.buffer[Place(r, i)]
    BY <1>8, RingItems
  <2> DEFINE s == Tail(Items(q))
  <2>3. /\ s \in Seq(Values) /\ Len(s) = q.numDatas - 1
        /\ \A i \in 1..Len(s) : s[i] = Items(q)[i + 1]
    BY <1>9, <1>10, HeadTailProperties
  <2> HIDE DEF s
  <2>4. \A i \in 1..Len(s) : s[i] = Items(r)[i]
    <3> TAKE i \in 1..Len(s)
    <3>1. i \in 1..r.numDatas
      BY <1>c, <2>3
    <3>2. i + 1 \in 1..q.numDatas /\ Place(r, i) = Place(q, i + 1)
      BY <1>6, <3>1
    <3>3. Items(r)[i] = q.buffer[Place(q, i + 1)]
      BY <1>c, <2>2, <3>1, <3>2
    <3> QED BY <1>9, <2>3, <3>2, <3>3
  <2>5. s = Items(r)
    BY <1>c, <2>2, <2>3, <2>4, SeqEqual
  <2> QED BY <2>5 DEF s
<1> QED BY <1>8, <1>10, <1>12, <1>13 DEF r

\* push_back() of either container.
LEMMA QueuePush ==
    ASSUME NEW q, QueueOK(q), ~IsFull(q), NEW x \in Values
    PROVE  QueueOK(PushBack(q, x)) /\ Items(PushBack(q, x)) = Append(Items(q), x)
<1>1. CASE RingOK(q)
  BY <1>1, RingPush DEF QueueOK
<1>2. CASE DequeOK(q)
  <2>1. q.is = "deque" /\ q.items \in Seq(Values) /\ q.max \in Nat
    BY <1>2 DEF DequeOK
  <2>2. PushBack(q, x) = [is |-> "deque", items |-> Append(q.items, x), max |-> q.max]
    BY <1>2, <2>1 DEF DequeOK, PushBack
  <2>3. Append(q.items, x) \in Seq(Values)
    BY <2>1
  <2> DEFINE r == PushBack(q, x)
  <2>4. DequeOK(r) /\ r.is = "deque" /\ r.items = Append(q.items, x)
    BY <2>1, <2>2, <2>3 DEF DequeOK
  <2> QED BY <2>1, <2>4 DEF Items, QueueOK
<1> QED BY <1>1, <1>2 DEF QueueOK

\* front() and pop_front() of either container.
LEMMA QueuePop ==
    ASSUME NEW q, QueueOK(q), ~IsEmpty(q)
    PROVE  /\ QueueOK(PopFront(q)) /\ Items(q) # <<>>
           /\ Front(q) = Head(Items(q)) /\ Items(PopFront(q)) = Tail(Items(q))
<1>1. CASE RingOK(q)
  BY <1>1, RingPop DEF QueueOK
<1>2. CASE DequeOK(q)
  <2>1. q.is = "deque" /\ q.items \in Seq(Values) /\ q.max \in Nat
    BY <1>2 DEF DequeOK
  <2>2. PopFront(q) = [is |-> "deque", items |-> Tail(q.items), max |-> q.max]
    BY <1>2, <2>1 DEF DequeOK, PopFront
  <2>3. q.items # <<>>
    BY <2>1 DEF IsEmpty
  <2>4. Tail(q.items) \in Seq(Values)
    BY <2>1, <2>3
  <2> DEFINE r == PopFront(q)
  <2>5. DequeOK(r) /\ r.is = "deque" /\ r.items = Tail(q.items)
    BY <2>1, <2>2, <2>4 DEF DequeOK
  <2> QED BY <2>1, <2>3, <2>5 DEF Items, Front, QueueOK
<1> QED BY <1>1, <1>2 DEF QueueOK

LEMMA QueueItems ==
    ASSUME NEW q, QueueOK(q)
    PROVE  Items(q) \in Seq(Values)
<1>1. CASE RingOK(q)
  BY <1>1, RingItems
<1>2. CASE DequeOK(q)
  BY <1>2 DEF DequeOK, Items
<1> QED BY <1>1, <1>2 DEF QueueOK

\* Taking the first of what is left keeps the whole.
LEMMA MoveFirst ==
    ASSUME NEW S, NEW s \in Seq(S), NEW t \in Seq(S), t # <<>>
    PROVE  Append(s, Head(t)) \o Tail(t) = s \o t
OBVIOUS

\* Adding at the end of what is left adds at the end of the whole.
LEMMA AddLast ==
    ASSUME NEW S, NEW s \in Seq(S), NEW t \in Seq(S), NEW x \in S
    PROVE  Append(s \o t, x) = s \o Append(t, x)
OBVIOUS

-----------------------------------------------------------------------------
(* First in, first out                                                     *)

FifoInv ==
    /\ QueueOK(queue) /\ QueueIsFifo
    /\ pushed \in Seq(Values) /\ taken \in Seq(Values)
    /\ left \in [Threads -> Int] /\ nthreads \in Int

\* A new container is empty.
LEMMA NewQueues ==
    /\ QueueOK(NewRing(QueueSize)) /\ Items(NewRing(QueueSize)) = <<>>
    /\ \A max \in Nat : QueueOK(NewDeque(max)) /\ Items(NewDeque(max)) = <<>>
<1>1. \A max \in Nat : QueueOK(NewDeque(max)) /\ Items(NewDeque(max)) = <<>>
  <2> TAKE max \in Nat
  <2> DEFINE r == NewDeque(max)
  <2>1. <<>> \in Seq(Values)
    OBVIOUS
  <2>2. DequeOK(r) /\ r.is = "deque" /\ r.items = <<>>
    BY <2>1 DEF NewDeque, DequeOK
  <2> QED BY <2>2 DEF QueueOK, Items
<1>2. QueueOK(NewRing(QueueSize)) /\ Items(NewRing(QueueSize)) = <<>>
  <2> DEFINE r == NewRing(QueueSize)
  <2>1. QueueSize \in Nat \ {0}
    BY PoolAssumption
  <2>2. [i \in 0..QueueSize - 1 |-> <<>>] \in [0..QueueSize - 1 -> Slots]
    BY DEF Slots
  <2>3. /\ r \in RingType /\ r.is = "ring" /\ r.capacity = QueueSize
        /\ r.numDatas = 0 /\ r.putPos = 0 /\ r.getPos = 0
    BY <2>1, <2>2 DEF NewRing, RingType
  <2> HIDE DEF r
  <2>4. RingOK(r)
    BY <2>1, <2>3 DEF RingOK, Wrap
  <2>5. Items(r) \in Seq(Values) /\ Len(Items(r)) = 0
    BY <2>3, <2>4, RingItems
  <2> QED BY <2>4, <2>5 DEF QueueOK, r
<1> QED BY <1>1, <1>2

LEMMA FifoInit == Init => FifoInv
<1> SUFFICES ASSUME Init PROVE FifoInv
  OBVIOUS
<1>1. PICK s \in Scripts :
        /\ kind = s.kind /\ nthreads = s.nthreads
        /\ left = [t \in Threads |-> IF t \in Producers THEN s.tasks[t - NWorkers]
                                     ELSE IF t = Main THEN s.lines ELSE 0]
  BY DEF Init
<1>2. /\ s.kind \in {"pool", "blocking", "bounded"} /\ s.nthreads \in 0..NWorkers
      /\ s.tasks \in [1..NProducers -> Nat] /\ s.lines \in Nat
      /\ NWorkers \in Nat /\ NProducers \in Nat /\ QueueSize \in Nat
  BY PoolAssumption
<1>3. nthreads \in Int
  BY <1>1, <1>2
<1>4. \A t \in Producers : s.tasks[t - NWorkers] \in Int
  BY <1>2 DEF Producers
<1>5. left \in [Threads -> Int]
  BY <1>1, <1>2, <1>4
<1>6. QueueOK(queue) /\ Items(queue) = <<>>
  <2>1. queue = CASE kind = "pool" -> NewDeque(QueueSize)
                  [] kind = "blocking" -> NewDeque(0)
                  [] kind = "bounded" -> NewRing(QueueSize)
    BY DEF Init
  <2>2. queue \in {NewDeque(QueueSize), NewDeque(0), NewRing(QueueSize)}
    BY <1>1, <1>2, <2>1
  <2> QED BY <1>2, <2>2, NewQueues
<1>7. pushed = <<>> /\ taken = <<>>
  BY DEF Init
<1>8. pushed \in Seq(Values) /\ taken \in Seq(Values)
  BY <1>7
<1>9. QueueIsFifo
  <2>1. <<>> \o <<>> = <<>>
    OBVIOUS
  <2> QED BY <1>6, <1>7, <2>1 DEF QueueIsFifo
<1> QED BY <1>3, <1>5, <1>6, <1>8, <1>9 DEF FifoInv

\* put() and run() of a value, or their wait.
LEMMA PutFifo ==
    ASSUME FifoInv, NEW t \in Threads, NEW x \in Values, PutItem(t, x), taken' = taken, nthreads' = nthreads
    PROVE  FifoInv'
<1>1. CASE IsFull(queue)
  <2>1. queue' = queue /\ pushed' = pushed /\ left' = left
    BY <1>1 DEF PutItem
  <2> QED BY <2>1 DEF FifoInv, QueueIsFifo
<1>2. CASE ~IsFull(queue)
  <2>1. /\ queue' = PushBack(queue, x) /\ pushed' = Append(pushed, x)
        /\ left' = [left EXCEPT ![t] = @ - 1]
    BY <1>2 DEF PutItem
  <2>2. QueueOK(queue') /\ Items(queue') = Append(Items(queue), x)
    BY <1>2, <2>1, QueuePush DEF FifoInv
  <2>3. Items(queue) \in Seq(Values) /\ taken \in Seq(Values) /\ pushed \in Seq(Values)
    BY QueueItems DEF FifoInv
  <2>4. Append(taken \o Items(queue), x) = taken \o Append(Items(queue), x)
    <3> DEFINE waiting == Items(queue)
    <3>1. waiting \in Seq(Values) /\ taken \in Seq(Values)
      BY <2>3
    <3> HIDE DEF waiting
    <3>2. Append(taken \o waiting, x) = taken \o Append(waiting, x)
      BY <3>1, AddLast
    <3> QED BY <3>2 DEF waiting
  <2>5. pushed' = taken' \o Items(queue')
    BY <2>1, <2>2, <2>4 DEF FifoInv, QueueIsFifo
  <2>6. pushed' \in Seq(Values) /\ taken' \in Seq(Values)
    BY <2>1, <2>3
  <2>7. left' \in [Threads -> Int]
    BY <2>1 DEF FifoInv
  <2>8. nthreads' \in Int
    BY DEF FifoInv
  <2> QED BY <2>2, <2>5, <2>6, <2>7, <2>8 DEF FifoInv, QueueIsFifo
<1> QED BY <1>1, <1>2

LEMMA TakeFifo ==
    ASSUME FifoInv, NEW w \in Workers, Take(w)
    PROVE  FifoInv'
<1>1. pushed' = pushed /\ left' = left /\ nthreads' = nthreads
  BY DEF Take
<1>2. CASE queue' = queue /\ taken' = taken
  BY <1>1, <1>2 DEF FifoInv, QueueIsFifo
<1>3. CASE ~IsEmpty(queue) /\ queue' = PopFront(queue) /\ taken' = Append(taken, Front(queue))
  <2>1. /\ QueueOK(queue') /\ Items(queue) # <<>> /\ Front(queue) = Head(Items(queue))
        /\ Items(queue') = Tail(Items(queue))
    BY <1>3, QueuePop DEF FifoInv
  <2>2. Items(queue) \in Seq(Values) /\ taken \in Seq(Values) /\ pushed \in Seq(Values)
    BY QueueItems DEF FifoInv
  <2>3. Append(taken, Head(Items(queue))) \o Tail(Items(queue)) = taken \o Items(queue)
    BY <2>1, <2>2, MoveFirst
  <2>4. pushed' = taken' \o Items(queue')
    BY <1>1, <1>3, <2>1, <2>3 DEF FifoInv, QueueIsFifo
  <2>5. Head(Items(queue)) \in Values
    BY <2>1, <2>2
  <2>6. taken' \in Seq(Values)
    BY <1>3, <2>1, <2>2, <2>5
  <2>7. left' \in [Threads -> Int] /\ nthreads' \in Int /\ pushed' \in Seq(Values)
    BY <1>1 DEF FifoInv
  <2> QED BY <2>1, <2>4, <2>6, <2>7 DEF FifoInv, QueueIsFifo
<1> QED BY <1>2, <1>3 DEF Take

LEMMA FifoStep == FifoInv /\ [Next]_vars => FifoInv'
<1> SUFFICES ASSUME FifoInv, [Next]_vars PROVE FifoInv'
  OBVIOUS
<1>0. NWorkers \in Nat /\ NProducers \in Nat /\ left \in [Threads -> Int] /\ nthreads \in Int
  BY PoolAssumption DEF FifoInv
<1> DEFINE Quiet == /\ queue' = queue /\ pushed' = pushed /\ taken' = taken /\ nthreads' = nthreads
                    /\ left' \in [Threads -> Int]
<1>q. Quiet => FifoInv'
  BY DEF FifoInv, QueueIsFifo
<1>1. ASSUME NEW t \in Threads, Logs(t) \/ SpuriousWakeup(t) PROVE FifoInv'
  <2>1. queue' = queue /\ pushed' = pushed /\ taken' = taken /\ nthreads' = nthreads /\ left' = left
    BY <1>1 DEF Logs, Format, Output, Flush, Abort, SpuriousWakeup, poolVars
  <2> QED BY <1>0, <1>q, <2>1
<1>2. ASSUME NEW w \in Workers, WorkerStep(w) PROVE FifoInv'
  <2>1. CASE Take(w)
    BY <2>1, TakeFifo
  <2>2. CASE CountDown(w) \/ TestRunning(w)
    <3>1. queue' = queue /\ pushed' = pushed /\ taken' = taken /\ nthreads' = nthreads /\ left' = left
      BY <2>2 DEF CountDown, TestRunning, poolVars
    <3> QED BY <1>0, <1>q, <3>1
  <2> QED BY <1>2, <2>1, <2>2 DEF WorkerStep
<1>3. ASSUME NEW p \in Producers, ProducerStep(p) PROVE FifoInv'
  <2>1. CASE ProducerDone(p)
    <3>1. queue' = queue /\ pushed' = pushed /\ taken' = taken /\ nthreads' = nthreads /\ left' = left
      BY <2>1 DEF ProducerDone, poolVars
    <3> QED BY <1>0, <1>q, <3>1
  <2>2. CASE Run(p)
    <3>1. p \in Threads /\ p \in Int /\ taken' = taken /\ nthreads' = nthreads
      BY <1>0, <2>2 DEF Threads, Producers, Run
    <3>2. CASE nthreads = 0
      <4>1. queue' = queue /\ pushed' = pushed /\ left' = [left EXCEPT ![p] = @ - 1]
        BY <2>2, <3>2 DEF Run
      <4>2. left' \in [Threads -> Int]
        BY <1>0, <3>1, <4>1
      <4> QED BY <1>q, <3>1, <4>1, <4>2
    <3>3. CASE nthreads # 0
      <4>1. PutItem(p, <<"task", p * 10 + left[p]>>)
        BY <2>2, <3>3 DEF Run
      <4>2. <<"task", p * 10 + left[p]>> \in Values
        BY <1>0, <3>1 DEF Values
      <4> QED BY <3>1, <4>1, <4>2, PutFifo
    <3> QED BY <3>2, <3>3
  <2> QED BY <1>3, <2>1, <2>2 DEF ProducerStep
<1>4. CASE StartThread \/ LatchWait \/ Started \/ Join \/ SetTimeZone \/ StopPool \/ Tick
  <2>1. queue' = queue /\ pushed' = pushed /\ taken' = taken /\ nthreads' = nthreads /\ left' = left
    BY <1>4 DEF StartThread, LatchWait, Started, Join, SetTimeZone, StopPool, Tick, poolVars
  <2> QED BY <1>0, <1>q, <2>1
<1>5. CASE PutStop
  <2>1. Main \in Threads /\ taken' = taken /\ nthreads' = nthreads
    BY <1>5 DEF Threads, PutStop
  <2>2. CASE left[Main] > 0
    <3>1. PutItem(Main, Stop)
      BY <1>5, <2>2 DEF PutStop
    <3>2. Stop \in Values
      BY DEF Stop, Values
    <3> QED BY <2>1, <3>1, <3>2, PutFifo
  <2>3. CASE ~(left[Main] > 0)
    <3>1. queue' = queue /\ pushed' = pushed /\ left' = left
      BY <1>5, <2>3 DEF PutStop
    <3> QED BY <1>0, <1>q, <2>1, <3>1
  <2> QED BY <2>2, <2>3
<1>6. CASE MainLogs \/ Start
  <2>1. /\ queue' = queue /\ pushed' = pushed /\ taken' = taken /\ nthreads' = nthreads
        /\ left' = [left EXCEPT ![Main] = @ - 1] \/ left' = [left EXCEPT ![Main] = nthreads]
    BY <1>6 DEF MainLogs, Start
  <2>2. left' \in [Threads -> Int]
    BY <1>0, <2>1
  <2> QED BY <1>q, <2>1, <2>2
<1>7. CASE UNCHANGED vars
  <2>1. queue' = queue /\ pushed' = pushed /\ taken' = taken /\ nthreads' = nthreads /\ left' = left
    BY <1>7 DEF vars
  <2> QED BY <1>0, <1>q, <2>1
<1> QED BY <1>1, <1>2, <1>3, <1>4, <1>5, <1>6, <1>7 DEF Next, MainStep

\* THEOREM: whatever the threads do, in whatever order, tasks leave the
\* container in the order in which run() or put() added them, each once,
\* for the deque of ThreadPool and BlockingQueue and for the ring of
\* BoundedBlockingQueue of every capacity.
THEOREM TasksAreFifo == Spec => []QueueIsFifo
<1>1. Init => FifoInv
  BY FifoInit
<1>2. FifoInv /\ [Next]_vars => FifoInv'
  BY FifoStep
<1>3. FifoInv => QueueIsFifo
  BY DEF FifoInv
<1> QED BY <1>1, <1>2, <1>3, PTL DEF Spec

-----------------------------------------------------------------------------
(* The log file                                                            *)

Zones == {NoZone, NewZone}
Dates == [second : Nat, zone : Zones]
WrittenLines ==
    [level : {"INFO", "FATAL"}, shown : Dates, utcMark : BOOLEAN, by : Threads,
     second : Nat, zone : Zones, at : Nat]
Files == [opened : Nat, lines : Seq(WrittenLines), disk : Nat]
LogType == [files : Seq(Files), count : Nat, lastRoll : Nat, lastFlush : Nat, startOfPeriod : Nat]

\* the lines of a file that were written on another day than it was opened
Late(f) == {j \in 1..Len(f.lines) : Period(f.lines[j].at) # Period(f.opened)}

\* A file that was replaced keeps the limits, and fclose() has flushed it.
ClosedFile(f) ==
    /\ \A j \in RollSize + 1..Len(f.lines) - 1 : f.lines[j].at = f.opened
    /\ Cardinality(Late(f)) <= CheckEveryN
    /\ f.disk = Len(f.lines)

\* The file in use: no line over the size yet but in the second in which it
\* was opened, and at most _count lines of a later day, since each check
\* that does not replace the file finds the clock on the file's day.
OpenFile(f, l, now) ==
    /\ f.opened = l.lastRoll /\ l.startOfPeriod = Period(l.lastRoll)
    /\ l.lastRoll <= now /\ l.count < CheckEveryN
    /\ \A j \in 1..Len(f.lines) : f.opened <= f.lines[j].at /\ f.lines[j].at <= now
    /\ \A j \in RollSize + 1..Len(f.lines) : f.lines[j].at = f.opened
    /\ Cardinality(Late(f)) <= l.count

LogOK(l, now) ==
    /\ l \in LogType /\ Len(l.files) > 0
    /\ \A i \in 1..Len(l.files) - 1 : ClosedFile(l.files[i])
    /\ OpenFile(l.files[Len(l.files)], l, now)

Labels == {"none", "setup", "start", "latch", "new", "test", "open", "put", "take", "format", "output",
           "flush", "abort", "join", "done"}

\* the threads that have a line in the buffer of a stream
PendingIn(f) == {f.lines[j].by : j \in f.disk + 1..Len(f.lines)}
Pending(l) == PendingIn(l.files[Len(l.files)])

LogInv ==
    /\ clock \in 1..Len(Clocks) /\ zone \in Zones
    /\ cache \in [Threads -> Dates] /\ line \in [Threads -> WrittenLines \cup {NoLine}]
    /\ pc \in [Threads -> Labels]
    /\ \A t \in Threads : pc[t] = "output" => line[t] \in WrittenLines /\ line[t].by = t
    /\ LogOK(log, Now)
    /\ \A t \in Pending(log) : pc[t] # "abort"

\* Days follow each other as seconds do.
LEMMA PeriodMoves ==
    ASSUME NEW a \in Nat, NEW b \in Nat
    PROVE  Period(a) \in Nat /\ (a <= b => Period(a) <= Period(b))
BY DEF Period, SecondsPerDay

LEMMA FileFields ==
    ASSUME NEW f \in Files
    PROVE  /\ f.opened \in Nat /\ Len(f.lines) \in Nat /\ f.lines \in Seq(WrittenLines)
           /\ \A j \in 1..Len(f.lines) : f.lines[j].at \in Nat
<1>1. f.opened \in Nat /\ f.lines \in Seq(WrittenLines)
  BY DEF Files
<1>2. \A j \in 1..Len(f.lines) : f.lines[j] \in WrittenLines
  BY <1>1
<1>3. \A ln \in WrittenLines : ln.at \in Nat
  BY DEF WrittenLines
<1> QED BY <1>1, <1>2, <1>3

LEMMA LateIsFinite ==
    ASSUME NEW f \in Files
    PROVE  IsFiniteSet(Late(f)) /\ Cardinality(Late(f)) \in Nat
<1>1. Len(f.lines) \in Nat
  BY DEF Files
<1>2. IsFiniteSet(1..Len(f.lines)) /\ Late(f) \subseteq 1..Len(f.lines)
  BY <1>1, FS_Interval, SMTT(60) DEF Late
<1>3. IsFiniteSet(Late(f))
  BY <1>2, FS_Subset
<1> QED BY <1>3, FS_CardinalityType

\* What AppendFile::append() does to the file.
LEMMA AppendedLine ==
    ASSUME NEW f \in Files, NEW ln \in WrittenLines, Now \in Nat, NEW g, g = AppendLine(f, ln)
    PROVE  /\ g \in Files /\ g.opened = f.opened /\ g.disk = f.disk /\ Len(g.lines) = Len(f.lines) + 1
           /\ \A j \in 1..Len(f.lines) : g.lines[j] = f.lines[j]
           /\ g.lines[Len(f.lines) + 1].at = Now /\ g.lines[Len(f.lines) + 1].by = ln.by
<1> DEFINE new == [ln EXCEPT !.at = Now]
<1>1. new \in WrittenLines /\ new.at = Now /\ new.by = ln.by
  BY DEF WrittenLines
<1>2. f.opened \in Nat /\ f.lines \in Seq(WrittenLines) /\ f.disk \in Nat
  BY DEF Files
<1>3. g = [opened |-> f.opened, lines |-> Append(f.lines, new), disk |-> f.disk]
  BY DEF AppendLine, Files
<1> HIDE DEF new
<1>4. /\ Append(f.lines, new) \in Seq(WrittenLines) /\ Len(Append(f.lines, new)) = Len(f.lines) + 1
      /\ \A j \in 1..Len(f.lines) : Append(f.lines, new)[j] = f.lines[j]
      /\ Append(f.lines, new)[Len(f.lines) + 1] = new
  BY <1>1, <1>2, AppendProperties
<1>5. g \in Files /\ g.opened = f.opened /\ g.disk = f.disk /\ g.lines = Append(f.lines, new)
  BY <1>2, <1>3, <1>4 DEF Files
<1> QED BY <1>1, <1>4, <1>5

\* One more line is at most one more late line, and none on the file's day.
LEMMA AppendedLate ==
    ASSUME NEW f \in Files, NEW ln \in WrittenLines, Now \in Nat, NEW g, g = AppendLine(f, ln)
    PROVE  /\ Cardinality(Late(g)) <= Cardinality(Late(f)) + 1
           /\ Period(Now) = Period(f.opened) => Late(g) = Late(f)
<1>1. /\ g \in Files /\ g.opened = f.opened /\ Len(g.lines) = Len(f.lines) + 1
      /\ \A j \in 1..Len(f.lines) : g.lines[j] = f.lines[j]
      /\ g.lines[Len(f.lines) + 1].at = Now
  BY AppendedLine
<1>2. Len(f.lines) \in Nat
  BY DEF Files
<1>3. CASE Period(Now) = Period(f.opened)
  <2>1. Late(g) = Late(f)
    BY <1>1, <1>2, <1>3 DEF Late
  <2>2. Cardinality(Late(f)) \in Nat
    BY LateIsFinite
  <2> QED BY <2>1, <2>2
<1>4. CASE Period(Now) # Period(f.opened)
  <2>1. Late(g) = Late(f) \cup {Len(f.lines) + 1} /\ Len(f.lines) + 1 \notin Late(f)
    BY <1>1, <1>2, <1>4, SMTT(60) DEF Late
  <2>2. IsFiniteSet(Late(f)) /\ Cardinality(Late(f)) \in Nat
    BY LateIsFinite
  <2>3. Cardinality(Late(g)) = Cardinality(Late(f)) + 1
    BY <2>1, <2>2, FS_AddElement, ZenonT(60)
  <2> QED BY <1>4, <2>2, <2>3
<1> QED BY <1>3, <1>4

LEMMA FlushedFile ==
    ASSUME NEW f \in Files
    PROVE  OnDisk(f) = [opened |-> f.opened, lines |-> f.lines, disk |-> Len(f.lines)]
BY DEF OnDisk, Files

\* fflush() of the last file.
LEMMA FlushedLast ==
    ASSUME NEW w \in Seq(Files), Len(w) > 0, NEW F, F = FlushLast(w)
    PROVE  /\ F \in Seq(Files) /\ Len(F) = Len(w) /\ \A i \in 1..Len(w) - 1 : F[i] = w[i]
           /\ F[Len(w)].opened = w[Len(w)].opened /\ F[Len(w)].lines = w[Len(w)].lines
           /\ F[Len(w)].disk = Len(w[Len(w)].lines)
<1> DEFINE f == w[Len(w)]
           o == OnDisk(f)
<1>1. Len(w) \in Nat /\ f \in Files
  OBVIOUS
<1> HIDE DEF f
<1>2. f.opened \in Nat /\ f.lines \in Seq(WrittenLines) /\ f.disk \in Nat /\ Len(f.lines) \in Nat
  BY <1>1 DEF Files
<1>3. o = [opened |-> f.opened, lines |-> f.lines, disk |-> Len(f.lines)]
  BY <1>1, FlushedFile
<1> HIDE DEF o
<1>4. o \in Files /\ o.opened = f.opened /\ o.lines = f.lines /\ o.disk = Len(f.lines)
  BY <1>2, <1>3 DEF Files
<1>5. F = [w EXCEPT ![Len(w)] = o]
  BY DEF FlushLast, o, f
<1>6. F \in Seq(Files) /\ Len(F) = Len(w) /\ F[Len(w)] = o /\ \A i \in 1..Len(w) - 1 : F[i] = w[i]
  <2> DEFINE n == Len(w)
  <2>1. n \in 1..Len(w) /\ o \in Files
    BY <1>1, <1>4
  <2> HIDE DEF n
  <2>2. /\ [w EXCEPT ![n] = o] \in Seq(Files) /\ Len([w EXCEPT ![n] = o]) = Len(w)
        /\ \A j \in 1..Len(w) : [w EXCEPT ![n] = o][j] = IF j = n THEN o ELSE w[j]
    BY <2>1, ExceptSeq
  <2>3. F = [w EXCEPT ![n] = o]
    BY <1>5 DEF n
  <2>4. /\ F \in Seq(Files) /\ Len(F) = Len(w)
        /\ \A j \in 1..Len(w) : F[j] = IF j = n THEN o ELSE w[j]
    BY <2>2, <2>3, Zenon
  <2> QED BY <1>1, <2>1, <2>4 DEF n
<1> QED BY <1>4, <1>6 DEF f

\* The fields of the log after rollFile().
LEMMA RolledFields ==
    ASSUME NEW l \in LogType, Now > l.lastRoll
    PROVE  RollFile(l) = [files |-> Append(FlushLast(l.files), NewFile(Now)), count |-> l.count,
                          lastRoll |-> Now, lastFlush |-> Now, startOfPeriod |-> Period(Now)]
BY DEF RollFile, LogType

\* rollFile() in a later second replaces the file.
LEMMA Rolled ==
    ASSUME NEW l \in LogType, Now \in Nat, Now > l.lastRoll, l.count < CheckEveryN, Len(l.files) > 0,
           \A i \in 1..Len(l.files) - 1 : ClosedFile(l.files[i]),
           NEW f, f = l.files[Len(l.files)],
           \A j \in RollSize + 1..Len(f.lines) - 1 : f.lines[j].at = f.opened,
           Cardinality(Late(f)) <= CheckEveryN
    PROVE  LogOK(RollFile(l), Now)
<1> DEFINE r == RollFile(l)
           n == Len(l.files)
           F == FlushLast(l.files)
           new == NewFile(Now)
           all == Append(F, new)
<1>1. l.files \in Seq(Files) /\ n \in Nat \ {0} /\ l.count \in Nat
  BY DEF LogType
<1>2. /\ F \in Seq(Files) /\ Len(F) = n /\ \A i \in 1..n - 1 : F[i] = l.files[i]
      /\ F[n].opened = f.opened /\ F[n].lines = f.lines /\ F[n].disk = Len(f.lines)
  BY <1>1, FlushedLast
<1>3. /\ new.opened = Now /\ new.lines = <<>> /\ new.disk = 0 /\ new \in Files
  <2>1. <<>> \in Seq(WrittenLines)
    OBVIOUS
  <2> QED BY <2>1 DEF NewFile, Files
<1>4. Period(Now) \in Nat
  BY PeriodMoves
<1>5. r = [files |-> all, count |-> l.count, lastRoll |-> Now, lastFlush |-> Now,
           startOfPeriod |-> Period(Now)]
  BY RolledFields
<1> HIDE DEF F, new, r, n
<1>6. /\ all \in Seq(Files) /\ Len(all) = n + 1 /\ all[n + 1] = new
      /\ \A i \in 1..n : all[i] = F[i]
  BY <1>1, <1>2, <1>3, AppendProperties
<1> HIDE DEF all
<1>7. /\ r \in LogType /\ r.files = all /\ r.count = l.count /\ r.lastRoll = Now
      /\ r.startOfPeriod = Period(Now)
  BY <1>1, <1>4, <1>5, <1>6 DEF LogType
<1>8. \A i \in 1..n : ClosedFile(all[i])
  <2> TAKE i \in 1..n
  <2>1. CASE i = n
    <3>1. F[n].opened = f.opened /\ F[n].lines = f.lines /\ F[n].disk = Len(f.lines)
      BY <1>2
    <3>2. Late(F[n]) = Late(f)
      BY <3>1 DEF Late
    <3>3. ClosedFile(F[n])
      BY <3>1, <3>2 DEF ClosedFile
    <3> QED BY <1>6, <2>1, <3>3
  <2>2. CASE i # n
    <3>1. i \in 1..n - 1
      BY <1>1, <2>2
    <3>2. all[i] = l.files[i]
      BY <1>2, <1>6, <3>1
    <3> QED BY <3>1, <3>2 DEF n
  <2> QED BY <2>1, <2>2
<1>9. OpenFile(new, r, Now)
  <2>1. Late(new) = {} /\ Len(new.lines) = 0
    BY <1>3 DEF Late
  <2>2. Cardinality(Late(new)) = 0
    BY <2>1, FS_EmptySet
  <2>3. RollSize \in Nat /\ CheckEveryN \in Nat
    BY PoolAssumption
  <2> QED BY <1>1, <1>3, <1>7, <2>1, <2>2, <2>3 DEF OpenFile
<1>10. Len(r.files) = n + 1 /\ Len(r.files) - 1 = n /\ r.files[Len(r.files)] = new
  BY <1>1, <1>6, <1>7
<1>11. LogOK(r, Now)
  BY <1>1, <1>7, <1>8, <1>9, <1>10 DEF LogOK
<1> QED BY <1>11 DEF r

\* The log after the line is in the stream.
LEMMA WroteFields ==
    ASSUME NEW l \in LogType, NEW g \in Files, NEW n \in 1..Len(l.files), NEW w,
           w = [l EXCEPT !.files = [l.files EXCEPT ![n] = g]]
    PROVE  /\ w \in LogType /\ w.count = l.count /\ w.lastRoll = l.lastRoll
           /\ w.lastFlush = l.lastFlush /\ w.startOfPeriod = l.startOfPeriod
           /\ w.files = [l.files EXCEPT ![n] = g] /\ Len(w.files) = Len(l.files) /\ w.files[n] = g
           /\ \A i \in 1..Len(l.files) : i # n => w.files[i] = l.files[i]
<1> DEFINE F == [l.files EXCEPT ![n] = g]
<1>1. l.files \in Seq(Files) /\ l.count \in Nat /\ l.lastRoll \in Nat /\ l.lastFlush \in Nat
      /\ l.startOfPeriod \in Nat
  BY DEF LogType
<1>2. F \in Seq(Files) /\ Len(F) = Len(l.files) /\ \A j \in 1..Len(l.files) : F[j] = IF j = n THEN g ELSE l.files[j]
  BY <1>1, ExceptSeq
<1> HIDE DEF F
<1>3. w = [l EXCEPT !.files = F]
  BY DEF F
<1>4. /\ w \in LogType /\ w.count = l.count /\ w.lastRoll = l.lastRoll /\ w.lastFlush = l.lastFlush
      /\ w.startOfPeriod = l.startOfPeriod /\ w.files = F
  BY <1>1, <1>2, <1>3 DEF LogType
<1> QED BY <1>2, <1>4 DEF F

\* A line that does not have the file replaced.
LEMMA Stays ==
    ASSUME NEW l, LogOK(l, Now), NEW ln \in WrittenLines, Now \in Nat,
           NEW n, n = Len(l.files), NEW g, g = AppendLine(l.files[n], ln),
           NEW r \in LogType, Len(r.files) = n, \A i \in 1..n - 1 : r.files[i] = l.files[i],
           r.files[n].opened = g.opened, r.files[n].lines = g.lines,
           r.lastRoll = l.lastRoll, r.startOfPeriod = l.startOfPeriod, r.count < CheckEveryN,
           Len(g.lines) > RollSize => Now = l.lastRoll,
           Cardinality(Late(g)) <= r.count
    PROVE  LogOK(r, Now)
<1> DEFINE f == l.files[n]
           h == r.files[n]
<1>1. l \in LogType /\ n > 0 /\ (\A i \in 1..n - 1 : ClosedFile(l.files[i])) /\ OpenFile(f, l, Now)
  BY DEF LogOK
<1>2. l.files \in Seq(Files) /\ l.lastRoll \in Nat /\ n \in Nat
  BY <1>1 DEF LogType
<1>3. f \in Files
  BY <1>1, <1>2
<1> HIDE DEF f, h
<1>4. /\ g \in Files /\ g.opened = f.opened /\ Len(g.lines) = Len(f.lines) + 1
      /\ \A j \in 1..Len(f.lines) : g.lines[j] = f.lines[j]
      /\ g.lines[Len(f.lines) + 1].at = Now
  <2>1. g = AppendLine(f, ln)
    BY DEF f
  <2> QED BY <1>3, <2>1, AppendedLine
<1>5. Len(f.lines) \in Nat /\ RollSize \in Nat /\ CheckEveryN \in Nat /\ f.opened \in Nat
  BY <1>3, PoolAssumption DEF Files
<1>6. /\ f.opened = l.lastRoll /\ l.startOfPeriod = Period(l.lastRoll) /\ l.lastRoll <= Now
      /\ \A j \in 1..Len(f.lines) : f.opened <= f.lines[j].at /\ f.lines[j].at <= Now
      /\ \A j \in RollSize + 1..Len(f.lines) : f.lines[j].at = f.opened
  BY <1>1 DEF OpenFile
<1>7. h.opened = g.opened /\ h.lines = g.lines /\ Late(h) = Late(g)
  BY DEF h, Late
<1>8. \A j \in 1..Len(g.lines) : g.opened <= g.lines[j].at /\ g.lines[j].at <= Now
  <2> TAKE j \in 1..Len(g.lines)
  <2>1. CASE j = Len(f.lines) + 1
    BY <1>2, <1>4, <1>6, <2>1
  <2>2. CASE j # Len(f.lines) + 1
    <3>1. j \in 1..Len(f.lines)
      BY <1>4, <1>5, <2>2
    <3> QED BY <1>4, <1>6, <3>1
  <2> QED BY <2>1, <2>2
<1>9. \A j \in RollSize + 1..Len(g.lines) : g.lines[j].at = g.opened
  <2> TAKE j \in RollSize + 1..Len(g.lines)
  <2>1. Len(g.lines) > RollSize
    BY <1>4, <1>5
  <2>2. CASE j = Len(f.lines) + 1
    BY <1>4, <1>6, <2>1, <2>2
  <2>3. CASE j # Len(f.lines) + 1
    <3>1. j \in RollSize + 1..Len(f.lines) /\ j \in 1..Len(f.lines)
      BY <1>4, <1>5, <2>3
    <3> QED BY <1>4, <1>6, <3>1
  <2> QED BY <2>2, <2>3
<1>10. OpenFile(h, r, Now)
  BY <1>4, <1>6, <1>7, <1>8, <1>9 DEF OpenFile
<1>11. \A i \in 1..n - 1 : ClosedFile(r.files[i])
  BY <1>1
<1> QED BY <1>1, <1>10, <1>11 DEF LogOK, h

\* The log with its counter changed.
LEMMA CountFields ==
    ASSUME NEW l \in LogType, NEW c \in Nat, NEW r, r = [l EXCEPT !.count = c]
    PROVE  /\ r \in LogType /\ r.files = l.files /\ r.count = c /\ r.lastRoll = l.lastRoll
           /\ r.lastFlush = l.lastFlush /\ r.startOfPeriod = l.startOfPeriod
BY DEF LogType

\* The log after fflush().
LEMMA FlushFields ==
    ASSUME NEW l \in LogType, Len(l.files) > 0, Now \in Nat, NEW r,
           \/ r = [l EXCEPT !.lastFlush = Now, !.files = FlushLast(@)]
           \/ r = [l EXCEPT !.files = FlushLast(@)]
    PROVE  /\ r \in LogType /\ r.count = l.count /\ r.lastRoll = l.lastRoll
           /\ r.startOfPeriod = l.startOfPeriod /\ Len(r.files) = Len(l.files)
           /\ \A i \in 1..Len(l.files) - 1 : r.files[i] = l.files[i]
           /\ r.files[Len(l.files)].opened = l.files[Len(l.files)].opened
           /\ r.files[Len(l.files)].lines = l.files[Len(l.files)].lines
           /\ r.files[Len(l.files)].disk = Len(l.files[Len(l.files)].lines)
<1> DEFINE F == FlushLast(l.files)
<1>1. l.files \in Seq(Files)
  BY DEF LogType
<1>2. /\ F \in Seq(Files) /\ Len(F) = Len(l.files) /\ \A i \in 1..Len(l.files) - 1 : F[i] = l.files[i]
      /\ F[Len(l.files)].opened = l.files[Len(l.files)].opened
      /\ F[Len(l.files)].lines = l.files[Len(l.files)].lines
      /\ F[Len(l.files)].disk = Len(l.files[Len(l.files)].lines)
  BY <1>1, FlushedLast
<1>3. r = [l EXCEPT !.lastFlush = Now, !.files = F] \/ r = [l EXCEPT !.files = F]
  OBVIOUS
<1> HIDE DEF F
<1>4. /\ r \in LogType /\ r.count = l.count /\ r.lastRoll = l.lastRoll
      /\ r.startOfPeriod = l.startOfPeriod /\ r.files = F
  <2>1. CASE r = [l EXCEPT !.files = F]
    BY <1>2, <2>1 DEF LogType
  <2>2. CASE r = [l EXCEPT !.lastFlush = Now, !.files = F]
    BY <1>2, <2>2 DEF LogType
  <2> QED BY <1>3, <2>1, <2>2
<1> QED BY <1>2, <1>4

\* LogFile::append(), in each of its cases.
LEMMA AppendKeepsLog ==
    ASSUME NEW l, LogOK(l, Now), NEW ln \in WrittenLines, Now \in Nat
    PROVE  LogOK(AppendUnlocked(l, ln), Now)
<1> DEFINE n == Len(l.files)
           f == l.files[n]
           g == AppendLine(f, ln)
           w == [l EXCEPT !.files = [l.files EXCEPT ![n] = g]]
           next == [w EXCEPT !.count = w.count + 1]
           check == [w EXCEPT !.count = 0]
           flushed == [check EXCEPT !.lastFlush = Now, !.files = FlushLast(@)]
<1>1. l \in LogType /\ n > 0 /\ (\A i \in 1..n - 1 : ClosedFile(l.files[i])) /\ OpenFile(f, l, Now)
  BY DEF LogOK
<1>2. l.files \in Seq(Files) /\ l.lastRoll \in Nat /\ l.count \in Nat /\ n \in 1..Len(l.files) /\ n \in Nat
  BY <1>1 DEF LogType
<1>3. f \in Files
  BY <1>1, <1>2
<1>4. /\ RollSize \in Nat /\ CheckEveryN \in Nat /\ Len(f.lines) \in Nat
  <2> HIDE DEF f
  <2> QED BY <1>3, FileFields, PoolAssumption
<1>5. AppendUnlocked(l, ln) =
        IF Len(w.files[n].lines) > RollSize THEN RollFile(w)
        ELSE IF next.count < CheckEveryN THEN next
        ELSE IF Period(Now) # l.startOfPeriod THEN RollFile(check)
        ELSE IF Now - l.lastFlush > FlushInterval THEN flushed
        ELSE check
  BY Zenon DEF AppendUnlocked
<1> HIDE DEF f, g
<1>6. /\ g \in Files /\ g.opened = f.opened /\ Len(g.lines) = Len(f.lines) + 1
      /\ \A j \in 1..Len(f.lines) : g.lines[j] = f.lines[j]
  BY <1>3, AppendedLine DEF g
<1>7. /\ Cardinality(Late(g)) <= Cardinality(Late(f)) + 1
      /\ Period(Now) = Period(f.opened) => Late(g) = Late(f)
  BY <1>3, AppendedLate DEF g
<1>8. Cardinality(Late(f)) \in Nat /\ Cardinality(Late(g)) \in Nat
  BY <1>3, <1>6, LateIsFinite
<1>9. /\ f.opened = l.lastRoll /\ l.startOfPeriod = Period(l.lastRoll) /\ l.lastRoll <= Now
      /\ l.count < CheckEveryN /\ Cardinality(Late(f)) <= l.count
      /\ \A j \in 1..Len(f.lines) : f.opened <= f.lines[j].at /\ f.lines[j].at <= Now
      /\ \A j \in RollSize + 1..Len(f.lines) : f.lines[j].at = f.opened
  BY <1>1 DEF OpenFile
<1>10. Cardinality(Late(g)) <= CheckEveryN /\ Cardinality(Late(g)) <= l.count + 1
  BY <1>2, <1>4, <1>7, <1>8, <1>9
<1>11. \A j \in RollSize + 1..Len(g.lines) - 1 : g.lines[j].at = g.opened
  BY <1>4, <1>6, <1>9
<1> HIDE DEF n, w
<1>12. /\ w \in LogType /\ w.count = l.count /\ w.lastRoll = l.lastRoll
       /\ w.lastFlush = l.lastFlush /\ w.startOfPeriod = l.startOfPeriod
       /\ Len(w.files) = Len(l.files) /\ w.files[n] = g
       /\ \A i \in 1..Len(l.files) : i # n => w.files[i] = l.files[i]
  <2>1. w = [l EXCEPT !.files = [l.files EXCEPT ![n] = g]]
    BY DEF w
  <2> QED BY <1>1, <1>2, <1>6, <2>1, WroteFields, SMTT(60)
<1>13. Len(w.files) = n /\ \A i \in 1..n - 1 : w.files[i] = l.files[i]
  BY <1>2, <1>12 DEF n
<1>14. \A i \in 1..n - 1 : ClosedFile(w.files[i])
  BY <1>1, <1>13 DEF n
<1>15. /\ next \in LogType /\ next.files = w.files /\ next.count = l.count + 1
       /\ next.lastRoll = l.lastRoll /\ next.startOfPeriod = l.startOfPeriod
  <2>1. w.count + 1 \in Nat
    BY <1>2, <1>12
  <2> QED BY <1>12, <2>1, CountFields
<1>16. /\ check \in LogType /\ check.files = w.files /\ check.count = 0
       /\ check.lastRoll = l.lastRoll /\ check.startOfPeriod = l.startOfPeriod
  <2> DEFINE zero == 0
  <2>1. zero \in Nat /\ check = [w EXCEPT !.count = zero]
    OBVIOUS
  <2> HIDE DEF check, zero
  <2>2. /\ check \in LogType /\ check.files = w.files /\ check.count = zero /\ check.lastRoll = w.lastRoll
        /\ check.startOfPeriod = w.startOfPeriod
    BY <1>12, <2>1, CountFields
  <2> QED BY <1>12, <2>2 DEF zero
<1> HIDE DEF next, check, flushed
<1>n. n > 0 /\ n = Len(l.files) /\ g = AppendLine(l.files[n], ln)
  BY <1>1 DEF n, f, g
<1>17. CASE Len(w.files[n].lines) > RollSize
  <2>1. AppendUnlocked(l, ln) = RollFile(w)
    BY <1>5, <1>17
  <2>2. CASE Now > l.lastRoll
    <3>1. LogOK(RollFile(w), Now)
      BY <1>9, <1>10, <1>11, <1>12, <1>13, <1>14, <1>n, <2>2, Rolled
    <3> QED BY <2>1, <3>1
  <2>3. CASE ~(Now > l.lastRoll)
    <3>1. Now = l.lastRoll /\ Period(Now) = Period(f.opened)
      BY <1>2, <1>9, <2>3
    <3>2. RollFile(w) = w
      BY <1>12, <2>3 DEF RollFile
    <3>3. Cardinality(Late(g)) <= w.count
      BY <1>7, <1>9, <1>12, <3>1
    <3>4. LogOK(w, Now)
      BY <1>9, <1>12, <1>13, <1>n, <3>1, <3>3, Stays
    <3> QED BY <2>1, <3>2, <3>4
  <2> QED BY <2>2, <2>3
<1>18. CASE ~(Len(w.files[n].lines) > RollSize) /\ next.count < CheckEveryN
  <2>1. AppendUnlocked(l, ln) = next
    BY <1>5, <1>18
  <2>2. ~(Len(g.lines) > RollSize)
    BY <1>12, <1>18
  <2>3. LogOK(next, Now)
    BY <1>10, <1>12, <1>13, <1>15, <1>18, <1>n, <2>2, Stays, ZenonT(60)
  <2> QED BY <2>1, <2>3
<1>19. CASE /\ ~(Len(w.files[n].lines) > RollSize) /\ ~(next.count < CheckEveryN)
            /\ Period(Now) # l.startOfPeriod
  <2>1. AppendUnlocked(l, ln) = RollFile(check)
    BY <1>5, <1>19
  <2>2. Now > l.lastRoll
    BY <1>2, <1>9, <1>19
  <2>3. check.count < CheckEveryN
    BY <1>16, PoolAssumption
  <2>4. LogOK(RollFile(check), Now)
    BY <1>10, <1>11, <1>12, <1>13, <1>14, <1>16, <1>n, <2>2, <2>3, Rolled
  <2> QED BY <2>1, <2>4
<1>20. CASE /\ ~(Len(w.files[n].lines) > RollSize) /\ ~(next.count < CheckEveryN)
            /\ Period(Now) = l.startOfPeriod
  <2>1. AppendUnlocked(l, ln) = flushed \/ AppendUnlocked(l, ln) = check
    BY <1>5, <1>20
  <2>2. ~(Len(g.lines) > RollSize) /\ check.count < CheckEveryN
    BY <1>12, <1>16, <1>20, PoolAssumption
  <2>3. Late(f) = {}
    <3> SUFFICES ASSUME NEW j \in 1..Len(f.lines) PROVE Period(f.lines[j].at) = Period(f.opened)
      BY DEF Late
    <3>1. f.opened \in Nat /\ f.lines[j].at \in Nat
      BY <1>3, FileFields
    <3>2. /\ f.opened <= f.lines[j].at /\ f.lines[j].at <= Now
          /\ Period(Now) = Period(f.opened)
      BY <1>9, <1>20
    <3>3. /\ Period(f.opened) <= Period(f.lines[j].at) /\ Period(f.lines[j].at) <= Period(Now)
          /\ Period(f.opened) \in Nat /\ Period(f.lines[j].at) \in Nat
      BY <3>1, <3>2, PeriodMoves
    <3> QED BY <3>2, <3>3
  <2>4. Cardinality(Late(g)) = 0
    BY <1>7, <1>9, <1>20, <2>3, FS_EmptySet
  <2>5. LogOK(check, Now)
    <3>1. Cardinality(Late(g)) <= check.count
      BY <1>16, <2>4
    <3>2. /\ Len(check.files) = n /\ \A i \in 1..n - 1 : check.files[i] = l.files[i]
          /\ check.files[n].opened = g.opened /\ check.files[n].lines = g.lines
      BY <1>12, <1>13, <1>16
    <3> QED BY <1>16, <1>n, <2>2, <3>1, <3>2, Stays
  <2>6. LogOK(flushed, Now)
    <3>1. /\ flushed \in LogType /\ flushed.count = check.count /\ flushed.lastRoll = check.lastRoll
          /\ flushed.startOfPeriod = check.startOfPeriod /\ Len(flushed.files) = Len(check.files)
          /\ \A i \in 1..Len(check.files) - 1 : flushed.files[i] = check.files[i]
          /\ flushed.files[Len(check.files)].opened = check.files[Len(check.files)].opened
          /\ flushed.files[Len(check.files)].lines = check.files[Len(check.files)].lines
      <4>1. flushed = [check EXCEPT !.lastFlush = Now, !.files = FlushLast(@)]
        BY DEF flushed
      <4>2. check \in LogType /\ Len(check.files) > 0
        BY <1>13, <1>16, <1>n
      <4> QED BY <4>1, <4>2, FlushFields, ZenonT(60)
    <3>2. /\ Len(flushed.files) = n /\ \A i \in 1..n - 1 : flushed.files[i] = l.files[i]
          /\ flushed.files[n].opened = g.opened /\ flushed.files[n].lines = g.lines
      BY <1>12, <1>13, <1>16, <3>1
    <3>3. flushed.lastRoll = l.lastRoll /\ flushed.startOfPeriod = l.startOfPeriod /\ flushed.count = 0
      BY <1>16, <3>1
    <3> QED BY <1>16, <1>n, <2>2, <2>4, <3>1, <3>2, <3>3, Stays, SMTT(60)
  <2> QED BY <2>1, <2>5, <2>6
<1> QED BY <1>17, <1>18, <1>19, <1>20

\* A file whose stream is flushed has no line in its buffer.
LEMMA FlushedHasNone ==
    ASSUME NEW f \in Files, f.disk = Len(f.lines)
    PROVE  PendingIn(f) = {}
<1>1. Len(f.lines) \in Nat
  BY DEF Files
<1> QED BY <1>1 DEF PendingIn

\* The line that was appended is the only new one in a buffer.
LEMMA AppendedPending ==
    ASSUME NEW f \in Files, NEW ln \in WrittenLines, Now \in Nat, NEW g, g = AppendLine(f, ln)
    PROVE  PendingIn(g) \subseteq PendingIn(f) \cup {ln.by}
<1>1. /\ g.disk = f.disk /\ Len(g.lines) = Len(f.lines) + 1
      /\ \A j \in 1..Len(f.lines) : g.lines[j] = f.lines[j]
      /\ g.lines[Len(f.lines) + 1].by = ln.by
  BY AppendedLine
<1>2. Len(f.lines) \in Nat /\ f.disk \in Nat
  BY DEF Files
<1> SUFFICES ASSUME NEW j \in g.disk + 1..Len(g.lines) PROVE g.lines[j].by \in PendingIn(f) \cup {ln.by}
  BY DEF PendingIn
<1>3. CASE j = Len(f.lines) + 1
  BY <1>1, <1>3
<1>4. CASE j # Len(f.lines) + 1
  <2>1. j \in 1..Len(f.lines) /\ j \in f.disk + 1..Len(f.lines)
    BY <1>1, <1>2, <1>4
  <2> QED BY <1>1, <2>1 DEF PendingIn
<1> QED BY <1>3, <1>4

\* A file that was just opened has nothing in its buffer.
LEMMA RolledPending ==
    ASSUME NEW l \in LogType, Now \in Nat, Len(l.files) > 0
    PROVE  Pending(RollFile(l)) \subseteq Pending(l)
<1>1. CASE ~(Now > l.lastRoll)
  BY <1>1 DEF RollFile
<1>2. CASE Now > l.lastRoll
  <2> DEFINE F == FlushLast(l.files)
             new == NewFile(Now)
             all == Append(F, new)
  <2>1. l.files \in Seq(Files)
    BY DEF LogType
  <2>2. F \in Seq(Files)
    BY <2>1, FlushedLast
  <2>3. new.lines = <<>> /\ new.disk = 0 /\ new \in Files
    <3>1. <<>> \in Seq(WrittenLines)
      OBVIOUS
    <3> QED BY <3>1 DEF NewFile, Files
  <2>4. RollFile(l).files = all
    BY <1>2, RolledFields
  <2> HIDE DEF F, new
  <2>5. all[Len(all)] = new
    BY <2>2, <2>3, AppendProperties
  <2>6. PendingIn(new) = {}
    BY <2>3, FlushedHasNone
  <2> HIDE DEF all
  <2> QED BY <2>4, <2>5, <2>6 DEF Pending
<1> QED BY <1>1, <1>2

\* LogFile::append() leaves no line of another thread in a buffer that was
\* not there before.
LEMMA AppendPending ==
    ASSUME NEW l, LogOK(l, Now), NEW ln \in WrittenLines, Now \in Nat
    PROVE  Pending(AppendUnlocked(l, ln)) \subseteq Pending(l) \cup {ln.by}
<1> DEFINE n == Len(l.files)
           f == l.files[n]
           g == AppendLine(f, ln)
           w == [l EXCEPT !.files = [l.files EXCEPT ![n] = g]]
           next == [w EXCEPT !.count = w.count + 1]
           check == [w EXCEPT !.count = 0]
           flushed == [check EXCEPT !.lastFlush = Now, !.files = FlushLast(@)]
<1>1. l \in LogType /\ n > 0
  BY DEF LogOK
<1>2. l.files \in Seq(Files) /\ n \in 1..Len(l.files) /\ n \in Nat /\ l.count \in Nat
  BY <1>1 DEF LogType
<1>3. f \in Files
  BY <1>2
<1>4. AppendUnlocked(l, ln) \in {RollFile(w), next, RollFile(check), flushed, check}
  BY Zenon DEF AppendUnlocked
<1> HIDE DEF f, g
<1>5. g \in Files /\ PendingIn(g) \subseteq PendingIn(f) \cup {ln.by}
  BY <1>3, AppendedLine, AppendedPending DEF g
<1> HIDE DEF n, w
<1>6. /\ w \in LogType /\ w.count = l.count /\ Len(w.files) = Len(l.files) /\ w.files[n] = g
  <2>1. w = [l EXCEPT !.files = [l.files EXCEPT ![n] = g]]
    BY DEF w
  <2> QED BY <1>1, <1>2, <1>5, <2>1, WroteFields, SMTT(60)
<1>7. Pending(w) \subseteq Pending(l) \cup {ln.by} /\ Len(w.files) > 0
  <2>1. Pending(w) = PendingIn(g) /\ Pending(l) = PendingIn(f)
    BY <1>6 DEF Pending, n, f
  <2> QED BY <1>1, <1>5, <1>6, <2>1 DEF n
<1>8. next \in LogType /\ next.files = w.files
  <2>1. w.count + 1 \in Nat
    BY <1>2, <1>6
  <2> QED BY <1>6, <2>1, CountFields
<1>9. check \in LogType /\ check.files = w.files
  <2> DEFINE zero == 0
  <2>1. zero \in Nat /\ check = [w EXCEPT !.count = zero]
    OBVIOUS
  <2> HIDE DEF check, zero
  <2> QED BY <1>6, <2>1, CountFields
<1> HIDE DEF next, check
<1>10. Pending(next) = Pending(w) /\ Pending(check) = Pending(w)
  BY <1>8, <1>9 DEF Pending
<1>11. Pending(RollFile(w)) \subseteq Pending(w) /\ Pending(RollFile(check)) \subseteq Pending(check)
  <2>1. Len(check.files) > 0
    BY <1>7, <1>9
  <2> QED BY <1>6, <1>7, <1>9, <2>1, RolledPending
<1>12. Pending(flushed) = {}
  <2>1. Len(check.files) > 0 /\ flushed = [check EXCEPT !.lastFlush = Now, !.files = FlushLast(@)]
    BY <1>7, <1>9
  <2> HIDE DEF flushed
  <2>2. /\ flushed \in LogType /\ Len(flushed.files) = Len(check.files)
        /\ flushed.files[Len(check.files)].lines = check.files[Len(check.files)].lines
        /\ flushed.files[Len(check.files)].disk = Len(check.files[Len(check.files)].lines)
    BY <1>9, <2>1, FlushFields
  <2> DEFINE h == flushed.files[Len(flushed.files)]
  <2>3. h \in Files
    <3>1. flushed.files \in Seq(Files) /\ Len(flushed.files) > 0
      BY <2>1, <2>2 DEF LogType
    <3>2. Len(flushed.files) \in 1..Len(flushed.files)
      BY <3>1
    <3> QED BY <3>1, <3>2
  <2>4. h.disk = Len(h.lines)
    BY <2>2
  <2> HIDE DEF h
  <2> QED BY <2>3, <2>4, FlushedHasNone DEF Pending, h
<1> HIDE DEF flushed
<1> QED BY <1>4, <1>7, <1>10, <1>11, <1>12

LEMMA FlushKeepsLog ==
    ASSUME NEW l, LogOK(l, Now), Now \in Nat, NEW r, r = [l EXCEPT !.files = FlushLast(@)]
    PROVE  LogOK(r, Now) /\ Pending(r) = {}
<1> DEFINE n == Len(l.files)
           f == l.files[n]
           h == r.files[n]
<1>1. l \in LogType /\ n > 0 /\ (\A i \in 1..n - 1 : ClosedFile(l.files[i])) /\ OpenFile(f, l, Now)
  BY DEF LogOK
<1>2. /\ r \in LogType /\ r.count = l.count /\ r.lastRoll = l.lastRoll
      /\ r.startOfPeriod = l.startOfPeriod /\ Len(r.files) = n
      /\ \A i \in 1..n - 1 : r.files[i] = l.files[i]
      /\ h.opened = f.opened /\ h.lines = f.lines /\ h.disk = Len(f.lines)
  BY <1>1, FlushFields
<1>h. h \in Files
  BY <1>1, <1>2 DEF LogType
<1> HIDE DEF f, h
<1>3. Late(h) = Late(f)
  BY <1>2 DEF Late
<1>4. OpenFile(h, r, Now)
  BY <1>1, <1>2, <1>3 DEF OpenFile
<1>5. PendingIn(h) = {}
  BY <1>2, <1>h, FlushedHasNone
<1> QED BY <1>1, <1>2, <1>4, <1>5 DEF LogOK, Pending, h

\* The clock moves on.
LEMMA ClockMoves ==
    ASSUME NEW l, NEW a \in Nat, NEW b \in Nat, a <= b, LogOK(l, a)
    PROVE  LogOK(l, b)
<1> DEFINE f == l.files[Len(l.files)]
<1>1. l \in LogType /\ Len(l.files) > 0 /\ OpenFile(f, l, a)
  BY DEF LogOK
<1>2. l.files \in Seq(Files) /\ l.lastRoll \in Nat
  BY <1>1 DEF LogType
<1>3. f \in Files
  BY <1>1, <1>2
<1> HIDE DEF f
<1>4. \A j \in 1..Len(f.lines) : f.lines[j].at \in Nat
  BY <1>3, FileFields
<1>5. l.lastRoll <= b /\ \A j \in 1..Len(f.lines) : f.opened <= f.lines[j].at /\ f.lines[j].at <= b
  BY <1>1, <1>2, <1>4 DEF OpenFile
<1>6. OpenFile(f, l, b)
  BY <1>1, <1>5 DEF OpenFile
<1> QED BY <1>6 DEF LogOK, f

LEMMA NowIsNat ==
    ASSUME clock \in 1..Len(Clocks)
    PROVE  Now \in Nat
BY PoolAssumption DEF Now

LEMMA LogInit == Init => LogInv
<1> SUFFICES ASSUME Init PROVE LogInv
  OBVIOUS
<1>1. clock = 1 /\ zone = NoZone /\ clock \in 1..Len(Clocks) /\ zone \in Zones
  BY PoolAssumption DEF Init, Zones
<1>2. Now \in Nat
  BY <1>1, NowIsNat
<1>3. cache \in [Threads -> Dates]
  <2>1. cache = [t \in Threads |-> [second |-> 0, zone |-> NoZone]]
    BY DEF Init
  <2>2. [second |-> 0, zone |-> NoZone] \in Dates
    BY DEF Dates, Zones
  <2> QED BY <2>1, <2>2
<1>4. line \in [Threads -> WrittenLines \cup {NoLine}]
  BY DEF Init
<1>5. pc \in [Threads -> Labels] /\ \A t \in Threads : pc[t] # "output"
  <2>1. pc = [t \in Threads |-> IF t = Main THEN "setup" ELSE "none"]
    BY DEF Init
  <2> QED BY <2>1 DEF Labels
<1>6. LogOK(log, Now)
  <2> DEFINE new == NewFile(Now)
  <2>1. new.opened = Now /\ new.lines = <<>> /\ new \in Files
    <3>1. <<>> \in Seq(WrittenLines)
      OBVIOUS
    <3> QED BY <1>2, <3>1 DEF NewFile, Files
  <2>2. log = [files |-> <<new>>, count |-> 0, lastRoll |-> Now, lastFlush |-> Now,
               startOfPeriod |-> Period(Now)]
    BY DEF Init, InitLog
  <2> HIDE DEF new
  <2>3. <<new>> \in Seq(Files) /\ Len(<<new>>) = 1 /\ <<new>>[1] = new
    BY <2>1
  <2>4. Period(Now) \in Nat
    BY <1>2, PeriodMoves
  <2>5. /\ log \in LogType /\ log.files = <<new>> /\ log.count = 0 /\ log.lastRoll = Now
        /\ log.startOfPeriod = Period(Now)
    BY <1>2, <2>2, <2>3, <2>4 DEF LogType
  <2>6. Late(new) = {} /\ Len(new.lines) = 0
    BY <2>1 DEF Late
  <2>7. Cardinality(Late(new)) = 0
    BY <2>6, FS_EmptySet
  <2>8. RollSize \in Nat /\ CheckEveryN \in Nat /\ CheckEveryN > 0
    BY PoolAssumption
  <2>9. OpenFile(new, log, Now)
    BY <1>2, <2>1, <2>5, <2>6, <2>7, <2>8 DEF OpenFile
  <2> QED BY <2>3, <2>5, <2>9 DEF LogOK
<1>7. \A t \in Pending(log) : pc[t] # "abort"
  <2> DEFINE new == NewFile(Now)
  <2>1. new.lines = <<>> /\ new.disk = 0
    BY DEF NewFile
  <2>2. log.files = <<new>>
    BY DEF Init, InitLog
  <2> HIDE DEF new
  <2>3. Pending(log) = PendingIn(new)
    BY <2>2 DEF Pending
  <2>4. PendingIn(new) = {}
    BY <2>1 DEF PendingIn
  <2> QED BY <2>3, <2>4
<1> QED BY <1>1, <1>3, <1>4, <1>5, <1>6, <1>7 DEF LogInv

\* The threads of the lines in a buffer are threads.
LEMMA PendingThreads ==
    ASSUME LogInv
    PROVE  Pending(log) \subseteq Threads
<1> DEFINE f == log.files[Len(log.files)]
<1>1. f \in Files
  BY DEF LogInv, LogOK, LogType
<1> HIDE DEF f
<1>2. f.lines \in Seq(WrittenLines) /\ f.disk \in Nat
  BY <1>1 DEF Files
<1>3. \A j \in f.disk + 1..Len(f.lines) : f.lines[j] \in WrittenLines
  BY <1>2
<1>4. \A ln \in WrittenLines : ln.by \in Threads
  BY DEF WrittenLines
<1> QED BY <1>3, <1>4 DEF Pending, PendingIn, f

\* A step that leaves the logger alone and brings no thread to its output
\* or to abort().
LEMMA LogQuiet ==
    ASSUME LogInv, UNCHANGED logVars, pc' \in [Threads -> Labels],
           \A t \in Threads : /\ pc'[t] = "output" => pc[t] = "output"
                              /\ pc'[t] = "abort" => pc[t] = "abort"
    PROVE  LogInv'
<1>1. clock' = clock /\ zone' = zone /\ cache' = cache /\ line' = line /\ log' = log
  BY DEF logVars
<1>2. Now' = Now
  BY <1>1 DEF Now
<1>3. LogOK(log', Now')
  BY <1>1, <1>2 DEF LogInv
<1>4. \A t \in Threads : pc'[t] = "output" => line'[t] \in WrittenLines /\ line'[t].by = t
  BY <1>1 DEF LogInv
<1>5. \A t \in Pending(log') : pc'[t] # "abort"
  BY <1>1, PendingThreads DEF LogInv
<1>6. /\ clock' \in 1..Len(Clocks) /\ zone' \in Zones /\ cache' \in [Threads -> Dates]
      /\ line' \in [Threads -> WrittenLines \cup {NoLine}]
  BY <1>1 DEF LogInv
<1> QED BY <1>3, <1>4, <1>5, <1>6, Zenon DEF LogInv

LEMMA FormatLog ==
    ASSUME LogInv, NEW t \in Threads, NEW level \in {"INFO", "FATAL"}, Format(t, level)
    PROVE  LogInv'
<1>1. /\ clock \in 1..Len(Clocks) /\ zone \in Zones /\ cache \in [Threads -> Dates]
      /\ line \in [Threads -> WrittenLines \cup {NoLine}] /\ pc \in [Threads -> Labels]
      /\ \A u \in Threads : pc[u] = "output" => line[u] \in WrittenLines /\ line[u].by = u
      /\ LogOK(log, Now) /\ \A u \in Pending(log) : pc[u] # "abort"
  BY DEF LogInv
<1>2. Now \in Nat
  BY <1>1, NowIsNat
<1> DEFINE date == FormatTime(t)
           new == [level |-> level, shown |-> date, utcMark |-> ~Valid(zone),
                   by |-> t, second |-> Now, zone |-> zone, at |-> 0]
<1>3. date \in Dates
  BY <1>1, <1>2 DEF FormatTime, Dates
<1>4. /\ clock' = clock /\ zone' = zone /\ log' = log
      /\ cache' = [cache EXCEPT ![t] = date] /\ line' = [line EXCEPT ![t] = new]
      /\ pc' = [pc EXCEPT ![t] = "output"]
  BY DEF Format, Goto
<1> HIDE DEF date
<1>5. (~Valid(zone)) \in BOOLEAN
  OBVIOUS
<1>6. new \in WrittenLines /\ new.by = t
  <2> DEFINE mark == ~Valid(zone)
  <2>1. mark \in BOOLEAN
    OBVIOUS
  <2> HIDE DEF mark
  <2>2. [level |-> level, shown |-> date, utcMark |-> mark, by |-> t, second |-> Now, zone |-> zone, at |-> 0]
          \in WrittenLines
    BY <1>1, <1>2, <1>3, <2>1 DEF WrittenLines
  <2> QED BY <2>2 DEF mark
<1> HIDE DEF new
<1>7. cache' \in [Threads -> Dates] /\ line' \in [Threads -> WrittenLines \cup {NoLine}]
      /\ pc' \in [Threads -> Labels] /\ clock' \in 1..Len(Clocks) /\ zone' \in Zones
  <2>1. cache' \in [Threads -> Dates]
    BY <1>1, <1>3, <1>4
  <2>2. line' \in [Threads -> WrittenLines \cup {NoLine}]
    BY <1>1, <1>4, <1>6
  <2>3. pc' \in [Threads -> Labels]
    BY <1>1, <1>4 DEF Labels
  <2> QED BY <1>1, <1>4, <2>1, <2>2, <2>3
<1>8. \A u \in Threads : pc'[u] = "output" => line'[u] \in WrittenLines /\ line'[u].by = u
  BY <1>1, <1>4, <1>6
<1>9. Now' = Now
  BY <1>4 DEF Now
<1>10. LogOK(log', Now')
  BY <1>1, <1>4, <1>9
<1>11. \A u \in Pending(log') : pc'[u] # "abort"
  BY <1>1, <1>4, PendingThreads
<1> QED BY <1>7, <1>8, <1>10, <1>11 DEF LogInv

LEMMA OutputLog ==
    ASSUME LogInv, NEW t \in Threads, Output(t)
    PROVE  LogInv'
<1>1. /\ clock \in 1..Len(Clocks) /\ zone \in Zones /\ cache \in [Threads -> Dates]
      /\ line \in [Threads -> WrittenLines \cup {NoLine}] /\ pc \in [Threads -> Labels]
      /\ \A u \in Threads : pc[u] = "output" => line[u] \in WrittenLines /\ line[u].by = u
      /\ LogOK(log, Now) /\ \A u \in Pending(log) : pc[u] # "abort"
  BY DEF LogInv
<1>2. Now \in Nat
  BY <1>1, NowIsNat
<1>3. pc[t] = "output" /\ line[t] \in WrittenLines /\ line[t].by = t
  BY <1>1 DEF Output
<1>4. LogOK(AppendUnlocked(log, line[t]), Now)
  BY <1>1, <1>2, <1>3, AppendKeepsLog
<1> DEFINE label == IF line[t].level = "FATAL" THEN "flush" ELSE AfterLine(t)
<1>5. label \in Labels \ {"output", "abort"}
  <2>1. CASE line[t].level = "FATAL"
    BY <2>1 DEF Labels
  <2>2. CASE line[t].level # "FATAL"
    <3>1. label = AfterLine(t)
      BY <2>2
    <3>2. AfterLine(t) \in {"setup", "put", "test"}
      <4>1. CASE t = Main
        BY <4>1 DEF AfterLine, Producers, Main, PoolAssumption
      <4>2. CASE t # Main /\ t \in Producers
        BY <4>2 DEF AfterLine
      <4>3. CASE t # Main /\ t \notin Producers
        BY <4>3 DEF AfterLine
      <4> QED BY <4>1, <4>2, <4>3
    <3> HIDE DEF label
    <3> QED BY <3>1, <3>2 DEF Labels
  <2> QED BY <2>1, <2>2
<1>6. /\ clock' = clock /\ zone' = zone /\ cache' = cache
      /\ log' = AppendUnlocked(log, line[t])
      /\ line' = [line EXCEPT ![t] = NoLine] /\ pc' = [pc EXCEPT ![t] = label]
  BY DEF Output, Goto
<1> HIDE DEF label
<1>7. /\ cache' \in [Threads -> Dates] /\ line' \in [Threads -> WrittenLines \cup {NoLine}]
      /\ pc' \in [Threads -> Labels] /\ clock' \in 1..Len(Clocks) /\ zone' \in Zones
  BY <1>1, <1>5, <1>6
<1>8. \A u \in Threads : pc'[u] = "output" => line'[u] \in WrittenLines /\ line'[u].by = u
  BY <1>1, <1>5, <1>6
<1>9. Now' = Now
  BY <1>6 DEF Now
<1>10. LogOK(log', Now')
  BY <1>4, <1>6, <1>9
<1>11. \A u \in Pending(log') : pc'[u] # "abort"
  <2>1. Pending(log') \subseteq Pending(log) \cup {t}
    BY <1>1, <1>2, <1>3, <1>6, AppendPending
  <2>2. \A u \in Threads : u # t => pc'[u] = pc[u]
    BY <1>1, <1>6
  <2>3. pc'[t] # "abort"
    BY <1>1, <1>5, <1>6
  <2> QED BY <1>1, <2>1, <2>2, <2>3, PendingThreads
<1> QED BY <1>7, <1>8, <1>10, <1>11 DEF LogInv

\* A thread goes on, but neither to its output nor to abort().
LEMMA LogGoto ==
    ASSUME LogInv, UNCHANGED logVars,
           NEW t, NEW a \in Labels \ {"output", "abort"}, pc' = [pc EXCEPT ![t] = a]
    PROVE  LogInv'
<1>1. pc \in [Threads -> Labels]
  BY DEF LogInv
<1>2. /\ pc' \in [Threads -> Labels]
      /\ \A u \in Threads : /\ pc'[u] = "output" => pc[u] = "output"
                            /\ pc'[u] = "abort" => pc[u] = "abort"
  BY <1>1
<1> QED BY <1>2, LogQuiet

LEMMA LogSamePc ==
    ASSUME LogInv, UNCHANGED logVars, pc' = pc
    PROVE  LogInv'
<1>1. pc' \in [Threads -> Labels]
  BY DEF LogInv
<1> QED BY <1>1, LogQuiet

LEMMA LogStep == LogInv /\ [Next]_vars => LogInv'
<1> SUFFICES ASSUME LogInv, [Next]_vars PROVE LogInv'
  OBVIOUS
<1>p. pc \in [Threads -> Labels]
  BY DEF LogInv
<1>u. CASE UNCHANGED vars
  <2>1. UNCHANGED logVars /\ pc' = pc
    BY <1>u DEF vars, logVars
  <2> QED BY <2>1, LogSamePc
<1> SUFFICES ASSUME Next PROVE LogInv'
  BY <1>u
<1>1. ASSUME NEW t \in Threads, Logs(t) \/ SpuriousWakeup(t) PROVE LogInv'
  <2>1. ASSUME NEW level \in {"INFO", "FATAL"}, Format(t, level) PROVE LogInv'
    BY <2>1, FormatLog
  <2>2. CASE Output(t)
    BY <2>2, OutputLog
  <2>3. CASE Flush(t)
    <3>1. /\ clock \in 1..Len(Clocks) /\ zone \in Zones /\ cache \in [Threads -> Dates]
          /\ line \in [Threads -> WrittenLines \cup {NoLine}]
          /\ \A u \in Threads : pc[u] = "output" => line[u] \in WrittenLines /\ line[u].by = u
          /\ LogOK(log, Now)
      BY DEF LogInv
    <3>2. Now \in Nat
      BY <3>1, NowIsNat
    <3>3. /\ clock' = clock /\ zone' = zone /\ cache' = cache /\ line' = line
          /\ pc' = [pc EXCEPT ![t] = "abort"] /\ log' = [log EXCEPT !.files = FlushLast(@)]
      BY <2>3 DEF Flush, Goto
    <3>4. LogOK(log', Now) /\ Pending(log') = {}
      BY <3>1, <3>2, <3>3, FlushKeepsLog
    <3>5. Now' = Now
      BY <3>3 DEF Now
    <3>6. LogOK(log', Now')
      BY <3>4, <3>5
    <3>7. /\ clock' \in 1..Len(Clocks) /\ zone' \in Zones /\ cache' \in [Threads -> Dates]
          /\ line' \in [Threads -> WrittenLines \cup {NoLine}]
      BY <3>1, <3>3
    <3>8. pc' \in [Threads -> Labels]
      BY <1>p, <3>3 DEF Labels
    <3>9. \A u \in Threads : pc'[u] = "output" => line'[u] \in WrittenLines /\ line'[u].by = u
      BY <1>p, <3>1, <3>3
    <3> QED BY <3>4, <3>6, <3>7, <3>8, <3>9 DEF LogInv
  <2>a. CASE Abort(t)
    <3>1. UNCHANGED logVars /\ pc' = pc
      BY <2>a DEF Abort
    <3> QED BY <3>1, LogSamePc
  <2>4. CASE SpuriousWakeup(t)
    <3>1. UNCHANGED logVars /\ pc' = pc
      BY <2>4 DEF SpuriousWakeup, logVars
    <3> QED BY <3>1, LogSamePc
  <2> QED BY <1>1, <2>1, <2>2, <2>3, <2>4, <2>a DEF Logs
<1>2. ASSUME NEW w \in Workers, WorkerStep(w) PROVE LogInv'
  <2>1. CASE CountDown(w)
    <3>1. UNCHANGED logVars /\ pc' = [pc EXCEPT ![w] = "test"]
      BY <2>1 DEF CountDown, logVars, Goto
    <3>2. "test" \in Labels \ {"output", "abort"}
      BY DEF Labels
    <3> QED BY <3>1, <3>2, LogGoto
  <2>2. CASE TestRunning(w)
    <3>1. UNCHANGED logVars
      BY <2>2 DEF TestRunning, logVars
    <3>2. PICK a \in {"take", "done"} : pc' = [pc EXCEPT ![w] = a]
      BY <2>2, Zenon DEF TestRunning, Goto
    <3>3. a \in Labels \ {"output", "abort"}
      BY DEF Labels
    <3> QED BY <3>1, <3>2, <3>3, LogGoto
  <2>3. CASE Take(w)
    <3>1. UNCHANGED logVars
      BY <2>3 DEF Take, logVars
    <3>2. CASE pc' = pc
      BY <3>1, <3>2, LogSamePc
    <3>3. CASE \E a \in {"test", "done", "format"} : pc' = [pc EXCEPT ![w] = a]
      <4>1. PICK a \in {"test", "done", "format"} : pc' = [pc EXCEPT ![w] = a]
        BY <3>3
      <4>2. a \in Labels \ {"output", "abort"}
        BY DEF Labels
      <4> QED BY <3>1, <4>1, <4>2, LogGoto
    <3> QED BY <2>3, <3>2, <3>3, Zenon DEF Take, Goto
  <2> QED BY <1>2, <2>1, <2>2, <2>3 DEF WorkerStep
<1>3. ASSUME NEW p \in Producers, ProducerStep(p) PROVE LogInv'
  <2>1. CASE Run(p)
    <3>1. UNCHANGED logVars
      BY <2>1 DEF Run, logVars
    <3>2. CASE pc' = pc
      BY <3>1, <3>2, LogSamePc
    <3>3. CASE \E a \in {"format", "put"} : pc' = [pc EXCEPT ![p] = a]
      <4>1. PICK a \in {"format", "put"} : pc' = [pc EXCEPT ![p] = a]
        BY <3>3
      <4>2. a \in Labels \ {"output", "abort"}
        BY DEF Labels
      <4> QED BY <3>1, <4>1, <4>2, LogGoto
    <3> QED BY <2>1, <3>2, <3>3, Zenon DEF Run, Goto
  <2>2. CASE ProducerDone(p)
    <3>1. UNCHANGED logVars /\ pc' = [pc EXCEPT ![p] = "done"]
      BY <2>2 DEF ProducerDone, logVars, Goto
    <3>2. "done" \in Labels \ {"output", "abort"}
      BY DEF Labels
    <3> QED BY <3>1, <3>2, LogGoto
  <2> QED BY <1>3, <2>1, <2>2 DEF ProducerStep
<1>4. CASE StartThread
  <2>1. UNCHANGED logVars /\ pc' = [pc EXCEPT ![Main] = "latch", ![joined + 1] = "new"]
    BY <1>4 DEF StartThread, logVars
  <2>2. /\ pc' \in [Threads -> Labels]
        /\ \A u \in Threads : /\ pc'[u] = "output" => pc[u] = "output"
                              /\ pc'[u] = "abort" => pc[u] = "abort"
    BY <1>p, <2>1 DEF Labels
  <2> QED BY <2>1, <2>2, LogQuiet
<1>5. CASE Started
  <2>1. /\ UNCHANGED logVars
        /\ pc' = [t \in Threads |-> IF t = Main THEN "open" ELSE IF t \in Producers THEN "put" ELSE pc[t]]
    BY <1>5 DEF Started, logVars
  <2>2. /\ pc' \in [Threads -> Labels]
        /\ \A u \in Threads : /\ pc'[u] = "output" => pc[u] = "output"
                              /\ pc'[u] = "abort" => pc[u] = "abort"
    BY <1>p, <2>1 DEF Labels
  <2> QED BY <2>1, <2>2, LogQuiet
<1>6. CASE LatchWait \/ PutStop \/ Join \/ MainLogs \/ Start \/ StopPool
  <2>1. UNCHANGED logVars
    BY <1>6 DEF LatchWait, PutStop, Join, MainLogs, Start, StopPool, logVars
  <2>2. CASE pc' = pc
    BY <2>1, <2>2, LogSamePc
  <2>3. CASE \E a \in {"start", "join", "done", "format"} : pc' = [pc EXCEPT ![Main] = a]
    <3>1. PICK a \in {"start", "join", "done", "format"} : pc' = [pc EXCEPT ![Main] = a]
      BY <2>3
    <3>2. a \in Labels \ {"output", "abort"}
      BY DEF Labels
    <3> QED BY <2>1, <3>1, <3>2, LogGoto
  <2> QED BY <1>6, <2>2, <2>3, Zenon DEF LatchWait, PutStop, Join, MainLogs, Start, StopPool, Goto
<1>7. CASE SetTimeZone
  <2>1. /\ pc' = pc /\ clock' = clock /\ cache' = cache /\ line' = line /\ log' = log
        /\ zone' = NewZone
    BY <1>7 DEF SetTimeZone
  <2>2. zone' \in Zones
    BY <2>1 DEF Zones
  <2>3. Now' = Now
    BY <2>1 DEF Now
  <2>4. LogOK(log', Now') /\ \A u \in Pending(log') : pc'[u] # "abort"
    BY <2>1, <2>3 DEF LogInv
  <2> QED BY <2>1, <2>2, <2>4 DEF LogInv
<1>8. CASE Tick
  <2>1. /\ pc' = pc /\ zone' = zone /\ cache' = cache /\ line' = line /\ log' = log
        /\ clock < Len(Clocks) /\ clock' = clock + 1
    BY <1>8 DEF Tick
  <2>2. clock \in 1..Len(Clocks) /\ LogOK(log, Now)
    BY DEF LogInv
  <2>3. clock' \in 2..Len(Clocks) /\ clock' - 1 = clock
    BY <2>1, <2>2, PoolAssumption
  <2>4. Now \in Nat /\ Now' \in Nat /\ Now < Now'
    <3>1. Clocks \in Seq(Nat) /\ \A i \in 2..Len(Clocks) : Clocks[i - 1] < Clocks[i]
      BY PoolAssumption
    <3>2. Clocks[clock' - 1] < Clocks[clock'] /\ Clocks[clock'] \in Nat /\ Clocks[clock] \in Nat
      BY <2>2, <2>3, <3>1
    <3>3. Clocks[clock] < Clocks[clock']
      BY <2>3, <3>2
    <3> QED BY <3>2, <3>3 DEF Now
  <2>5. LogOK(log, Now')
    BY <2>2, <2>4, ClockMoves
  <2>6. LogOK(log', Now') /\ clock' \in 1..Len(Clocks)
    BY <2>1, <2>3, <2>5
  <2> QED BY <2>1, <2>6 DEF LogInv
<1> QED BY <1>1, <1>2, <1>3, <1>4, <1>5, <1>6, <1>7, <1>8 DEF Next, MainStep

LEMMA LogLimits == LogInv => LogKeepsItsLimits
<1> SUFFICES ASSUME LogInv, NEW i \in 1..Len(log.files)
             PROVE  LET f == log.files[i] IN
                    /\ \A j \in RollSize + 1..Len(f.lines) - 1 : f.lines[j].at = f.opened
                    /\ Cardinality(Late(f)) <= CheckEveryN
                    /\ i < Len(log.files) => f.disk = Len(f.lines)
                    /\ \A j \in 1..Len(f.lines) : pc[f.lines[j].by] = "abort" => j <= f.disk
  BY DEF LogKeepsItsLimits, Late
<1> DEFINE f == log.files[i]
           n == Len(log.files)
<1>1. /\ log \in LogType /\ Len(log.files) > 0
      /\ (\A k \in 1..n - 1 : ClosedFile(log.files[k])) /\ OpenFile(log.files[n], log, Now)
  BY DEF LogInv, LogOK
<1>2. log.files \in Seq(Files) /\ n \in Nat /\ log.count \in Nat
  BY <1>1 DEF LogType
<1>3. CASE i # n
  <2>1. ClosedFile(f) /\ f \in Files
    BY <1>1, <1>2, <1>3
  <2> HIDE DEF f
  <2>2. \A j \in 1..Len(f.lines) : j <= f.disk
    BY <2>1 DEF ClosedFile, Files
  <2> QED BY <2>1, <2>2 DEF ClosedFile, f
<1>4. CASE i = n
  <2>1. f \in Files /\ OpenFile(f, log, Now)
    BY <1>1, <1>2, <1>4
  <2>2. \A u \in PendingIn(f) : pc[u] # "abort"
    BY <1>4, Zenon DEF LogInv, Pending
  <2> HIDE DEF f
  <2>3. Len(f.lines) \in Nat /\ Cardinality(Late(f)) \in Nat /\ RollSize \in Nat /\ CheckEveryN \in Nat
    BY <2>1, FileFields, LateIsFinite, PoolAssumption
  <2>4. \A j \in RollSize + 1..Len(f.lines) - 1 : f.lines[j].at = f.opened
    BY <2>1, <2>3 DEF OpenFile
  <2>5. Cardinality(Late(f)) <= CheckEveryN
    BY <1>2, <2>1, <2>3 DEF OpenFile
  <2>6. \A j \in 1..Len(f.lines) : pc[f.lines[j].by] = "abort" => j <= f.disk
    <3> SUFFICES ASSUME NEW j \in 1..Len(f.lines), ~(j <= f.disk) PROVE pc[f.lines[j].by] # "abort"
      OBVIOUS
    <3>1. j \in f.disk + 1..Len(f.lines)
      BY <2>1, <2>3 DEF Files
    <3>2. f.lines[j].by \in PendingIn(f)
      BY <3>1 DEF PendingIn
    <3> QED BY <2>2, <3>2
  <2> QED BY <1>2, <1>4, <2>4, <2>5, <2>6 DEF f
<1> QED BY <1>3, <1>4

\* LogFile keeps the limits of its files for every roll size,
\* every checkEveryN and every clock: a replaced file is on disk, and so is
\* a fatal line with all before it once its thread goes to abort(), whichever
\* threads write or replace the file in between.
THEOREM LogAlwaysKeepsItsLimits == Spec => []LogKeepsItsLimits
<1>1. Init => LogInv
  BY LogInit
<1>2. LogInv /\ [Next]_vars => LogInv'
  BY LogStep
<1>3. LogInv => LogKeepsItsLimits
  BY LogLimits
<1> QED BY <1>1, <1>2, <1>3, PTL DEF Spec

=============================================================================
