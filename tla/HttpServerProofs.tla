-------------------------- MODULE HttpServerProofs --------------------------
(***************************************************************************)
(* The Buffer implements a queue of bytes, for every size of its vector    *)
(* and every owner, and the HTTP server answers every request an orderly   *)
(* client gets across, however the stream is cut.                          *)
(***************************************************************************)
EXTENDS HttpServer, SequenceTheorems, FiniteSetTheorems, WellFoundedInduction, TLAPS

-----------------------------------------------------------------------------
(* The operations of Buffer                                                *)

\* The fields of a well-formed buffer.
LEMMA Fields_ ==
  ASSUME NEW b, WellFormed(b)
  PROVE  /\ b = [vec |-> b.vec, r |-> b.r, w |-> b.w]
         /\ b.vec \in Seq(Byte) /\ b.r \in Nat /\ b.w \in Nat /\ Len(b.vec) \in Nat
         /\ b.r <= b.w /\ b.w <= Len(b.vec)
         /\ CheapPrepend \in Nat /\ InitialSize \in Nat
         /\ CheapPrepend <= Len(b.vec)
         /\ \A i \in 1..Len(b.vec) : b.vec[i] \in Byte
<1>1. b \in [vec : Seq(Byte), r : Nat, w : Nat]
  BY DEF WellFormed
<1>2. CheapPrepend \in Nat /\ InitialSize \in Nat
  BY BufferAssumption
<1>3. b.vec \in Seq(Byte) /\ Len(b.vec) \in Nat
  BY <1>1
<1> QED BY <1>1, <1>2, <1>3 DEF WellFormed

\* A vector written as a function of its positions.
LEMMA VecIsSeq ==
  ASSUME NEW n \in Nat, NEW v, v \in [1..n -> Byte]
  PROVE  v \in Seq(Byte) /\ Len(v) = n
OBVIOUS

\* The bytes of the content.
LEMMA ContentBytes ==
  ASSUME NEW b, WellFormed(b)
  PROVE  /\ Content(b) \in Seq(Byte)
         /\ Len(Content(b)) = b.w - b.r
         /\ \A i \in 1..(b.w - b.r) : Content(b)[i] = b.vec[b.r + i]
<1>1. \A i \in (b.r + 1)..b.w : b.vec[i] \in Byte
  BY Fields_
<1>2. b.r + 1 \in Int /\ b.w \in Int
  BY Fields_
<1> DEFINE c == Content(b)
<1>3. /\ c \in Seq(Byte)
      /\ Len(c) = IF b.r + 1 <= b.w THEN b.w - (b.r + 1) + 1 ELSE 0
      /\ \A i \in 1..(b.w - (b.r + 1) + 1) : c[i] = b.vec[b.r + 1 + i - 1]
  BY <1>1, <1>2, SubSeqProperties DEF Content
<1> HIDE DEF c
<1>4. /\ c \in Seq(Byte) /\ Len(c) = b.w - b.r
      /\ \A i \in 1..(b.w - b.r) : c[i] = b.vec[b.r + i]
  BY <1>3, Fields_
<1> QED BY <1>4 DEF c

\* A sequence with the bytes of the content is the content.
LEMMA ContentIs ==
  ASSUME NEW b, WellFormed(b), NEW c \in Seq(Byte), Len(c) = b.w - b.r,
         \A i \in 1..(b.w - b.r) : c[i] = b.vec[b.r + i]
  PROVE  Content(b) = c
<1> DEFINE d == Content(b)
<1>1. /\ d \in Seq(Byte) /\ Len(d) = b.w - b.r
      /\ \A i \in 1..(b.w - b.r) : d[i] = b.vec[b.r + i]
  BY ContentBytes
<1> HIDE DEF d
<1>2. Len(d) = Len(c) /\ \A i \in 1..Len(d) : d[i] = c[i]
  BY <1>1
<1>3. d = c
  BY <1>1, <1>2, SeqEqual, Zenon
<1> QED BY <1>3 DEF d

\* A buffer with other indices or another vector.
LEMMA MakeWellFormed ==
  ASSUME NEW n \in Nat, NEW v \in [1..n -> Byte], NEW r \in Nat, NEW w \in Nat,
         r <= w, w <= n, CheapPrepend + InitialSize <= n
  PROVE  /\ WellFormed([vec |-> v, r |-> r, w |-> w])
         /\ Len(v) = n
<1>1. v \in Seq(Byte) /\ Len(v) = n
  BY VecIsSeq
<1> QED BY <1>1 DEF WellFormed

\* Writing Dead over what is not content leaves the content.
LEMMA BuryKeeps ==
  ASSUME NEW b, WellFormed(b)
  PROVE  /\ WellFormed(Bury(b)) /\ Content(Bury(b)) = Content(b)
         /\ Bury(b).r = b.r /\ Bury(b).w = b.w /\ Len(Bury(b).vec) = Len(b.vec)
<1> DEFINE v == [i \in 1..Len(b.vec) |-> IF b.r < i /\ i <= b.w THEN b.vec[i] ELSE Dead]
           d == [vec |-> v, r |-> b.r, w |-> b.w]
<1>1. Bury(b) = d
  BY Zenon DEF Bury
<1>2. v \in [1..Len(b.vec) -> Byte]
  BY Fields_, BufferAssumption
<1>3. \A i \in 1..(b.w - b.r) : v[b.r + i] = b.vec[b.r + i]
  BY Fields_
<1>4. d.vec = v /\ d.r = b.r /\ d.w = b.w
  OBVIOUS
<1> HIDE DEF v
<1>5. WellFormed(d) /\ Len(v) = Len(b.vec)
  <2>1. CheapPrepend + InitialSize <= Len(b.vec)
    BY DEF WellFormed
  <2> QED BY <1>2, <2>1, Fields_, MakeWellFormed
<1> HIDE DEF d
<1>6. Content(d) = Content(b)
  <2>1. /\ Content(b) \in Seq(Byte) /\ Len(Content(b)) = d.w - d.r
        /\ \A i \in 1..(d.w - d.r) : Content(b)[i] = d.vec[d.r + i]
    BY <1>3, <1>4, ContentBytes
  <2> QED BY <2>1, <1>5, ContentIs
<1> QED BY <1>1, <1>4, <1>5, <1>6

\* The same vector with indices that are in order.
LEMMA Reindexed ==
  ASSUME NEW b, WellFormed(b), NEW r \in Nat, NEW w \in Nat, r <= w, w <= Len(b.vec)
  PROVE  WellFormed([vec |-> b.vec, r |-> r, w |-> w])
<1>1. /\ b.vec \in [1..Len(b.vec) -> Byte] /\ Len(b.vec) \in Nat
      /\ CheapPrepend + InitialSize <= Len(b.vec)
  BY Fields_ DEF WellFormed
<1> QED BY <1>1, MakeWellFormed

\* retrieveAll() empties the buffer.
LEMMA RetrieveAllEmpties ==
  ASSUME NEW b, WellFormed(b)
  PROVE  WellFormed(RetrieveAll(b)) /\ Content(RetrieveAll(b)) = <<>>
<1> DEFINE d == [vec |-> b.vec, r |-> CheapPrepend, w |-> CheapPrepend]
<1>1. RetrieveAll(b) = Bury(d)
  BY Zenon DEF RetrieveAll
<1>2. WellFormed(d)
  BY Fields_, Reindexed
<1>a. d.r = d.w /\ d.r \in Nat
  BY Fields_
<1> HIDE DEF d
<1>3. Content(d) = <<>>
  <2>1. Content(d) \in Seq(Byte) /\ Len(Content(d)) = 0
    BY <1>2, <1>a, ContentBytes
  <2> QED BY <2>1
<1> QED BY <1>1, <1>2, <1>3, BuryKeeps

\* retrieve() takes the first bytes off the content, whether or not it starts
\* over.
LEMMA RetrieveTakesFront ==
  ASSUME NEW b, WellFormed(b), NEW n \in 0..Len(Content(b))
  PROVE  /\ WellFormed(Retrieve(b, n))
         /\ Content(Retrieve(b, n)) = SubSeq(Content(b), n + 1, Len(Content(b)))
<1> DEFINE c == Content(b)
           t == SubSeq(c, n + 1, Len(c))
<1>1. c \in Seq(Byte) /\ Len(c) = b.w - b.r /\ Len(c) \in Nat
      /\ \A i \in 1..Len(c) : c[i] = b.vec[b.r + i]
  BY ContentBytes, Fields_
<1> HIDE DEF c
<1>2. /\ t \in Seq(Byte) /\ Len(t) = Len(c) - n
      /\ \A i \in 1..(Len(c) - n) : t[i] = c[n + i]
  <2>1. n \in 0..Len(c)
    BY DEF c
  <2>2. /\ n + 1 \in Int /\ Len(c) \in Int
        /\ \A i \in (n + 1)..Len(c) : c[i] \in Byte
    BY <1>1, <2>1
  <2>3. /\ t \in Seq(Byte)
        /\ Len(t) = IF n + 1 <= Len(c) THEN Len(c) - (n + 1) + 1 ELSE 0
        /\ \A i \in 1..(Len(c) - (n + 1) + 1) : t[i] = c[n + 1 + i - 1]
    BY <2>2, SubSeqProperties
  <2> HIDE DEF t
  <2> QED BY <1>1, <2>1, <2>3
<1> HIDE DEF t
<1>3. n \in 0..Len(c)
  BY DEF c
<1>4. CASE n < ReadableBytes(b)
  <2> DEFINE d == [vec |-> b.vec, r |-> b.r + n, w |-> b.w]
  <2>1. Retrieve(b, n) = Bury(d)
    BY <1>4, Zenon DEF Retrieve
  <2>2. WellFormed(d)
    <3>1. b.r + n \in Nat /\ b.w \in Nat /\ b.r + n <= b.w /\ b.w <= Len(b.vec)
      BY <1>1, <1>3, Fields_
    <3> QED BY <3>1, Reindexed
  <2>3. d.vec = b.vec /\ d.r = b.r + n /\ d.w = b.w
    OBVIOUS
  <2> HIDE DEF d
  <2>4. Len(t) = d.w - d.r /\ \A i \in 1..(d.w - d.r) : t[i] = d.vec[d.r + i]
    <3>1. Len(t) = d.w - d.r /\ d.w - d.r = Len(c) - n
      BY <1>1, <1>2, <1>3, <2>3, Fields_
    <3>2. ASSUME NEW i \in 1..(Len(c) - n) PROVE t[i] = b.vec[(b.r + n) + i]
      <4>1. n + i \in 1..Len(c) /\ b.r + (n + i) = (b.r + n) + i
        BY <1>1, <1>3, Fields_
      <4> QED BY <4>1, <1>1, <1>2
    <3> QED BY <3>1, <3>2, <2>3
  <2>5. Content(d) = t
    BY <1>2, <2>2, <2>4, ContentIs
  <2> QED BY <2>1, <2>2, <2>5, BuryKeeps DEF t, c
<1>5. CASE ~(n < ReadableBytes(b))
  <2>1. Retrieve(b, n) = RetrieveAll(b)
    BY <1>5 DEF Retrieve
  <2>2. Len(t) = 0
    BY <1>1, <1>2, <1>3, <1>5, Fields_ DEF ReadableBytes
  <2>3. t = <<>>
    BY <1>2, <2>2
  <2> QED BY <2>1, <2>3, RetrieveAllEmpties DEF t, c
<1> QED BY <1>4, <1>5

\* std::copy() and hasWritten() add at the back what fits.
LEMMA WriteAppends ==
  ASSUME NEW b, WellFormed(b), NEW s \in Seq(Byte), WriteFits(b, s)
  PROVE  /\ WellFormed(Write(b, s)) /\ Content(Write(b, s)) = Content(b) \o s
         /\ Write(b, s).w = b.w + Len(s) /\ Len(Write(b, s).vec) = Len(b.vec)
<1> DEFINE v == [i \in 1..Len(b.vec) |-> IF b.w < i /\ i <= b.w + Len(s) THEN s[i - b.w] ELSE b.vec[i]]
           d == [vec |-> v, r |-> b.r, w |-> b.w + Len(s)]
           c == Content(b)
<1>1. Len(s) \in Nat /\ b.w + Len(s) <= Len(b.vec)
  BY Fields_ DEF WriteFits, WritableBytes
<1>2. Write(b, s) = d
  BY Zenon DEF Write
<1>3. v \in [1..Len(b.vec) -> Byte]
  <2>1. \A i \in 1..Len(s) : s[i] \in Byte
    OBVIOUS
  <2> QED BY <1>1, <2>1, Fields_
<1>4. /\ \A i \in 1..(b.w - b.r) : v[b.r + i] = b.vec[b.r + i]
      /\ \A i \in 1..Len(s) : v[b.w + i] = s[i]
  <2>1. ASSUME NEW i \in 1..(b.w - b.r) PROVE v[b.r + i] = b.vec[b.r + i]
    <3>1. b.r + i \in 1..Len(b.vec) /\ ~(b.w < b.r + i)
      BY Fields_
    <3> QED BY <3>1
  <2>2. ASSUME NEW i \in 1..Len(s) PROVE v[b.w + i] = s[i]
    <3>1. b.w + i \in 1..Len(b.vec) /\ b.w < b.w + i /\ b.w + i <= b.w + Len(s) /\ (b.w + i) - b.w = i
      BY <1>1, Fields_
    <3> QED BY <3>1
  <2> QED BY <2>1, <2>2
<1>5. d.vec = v /\ d.r = b.r /\ d.w = b.w + Len(s)
  OBVIOUS
<1> HIDE DEF v
<1>6. WellFormed(d) /\ Len(v) = Len(b.vec)
  <2>1. CheapPrepend + InitialSize <= Len(b.vec)
    BY DEF WellFormed
  <2>2. b.w + Len(s) \in Nat /\ b.r <= b.w + Len(s)
    BY <1>1, Fields_
  <2> QED BY <1>1, <1>3, <2>1, <2>2, Fields_, MakeWellFormed
<1> HIDE DEF d
<1>7. c \in Seq(Byte) /\ Len(c) = b.w - b.r /\ \A i \in 1..(b.w - b.r) : c[i] = b.vec[b.r + i]
  BY ContentBytes
<1> HIDE DEF c
<1> DEFINE e == c \o s
<1>8. /\ e \in Seq(Byte) /\ Len(e) = Len(c) + Len(s)
      /\ \A i \in 1..(Len(c) + Len(s)) : e[i] = IF i <= Len(c) THEN c[i] ELSE s[i - Len(c)]
  BY <1>7, ConcatProperties
<1> HIDE DEF e
<1>9. Len(e) = d.w - d.r /\ \A i \in 1..(d.w - d.r) : e[i] = d.vec[d.r + i]
  <2>1. Len(e) = d.w - d.r
    BY <1>5, <1>7, <1>8, <1>1, Fields_
  <2>2. ASSUME NEW i \in 1..(d.w - d.r) PROVE e[i] = v[b.r + i]
    <3>1. CASE i <= Len(c)
      <4>1. i \in 1..(b.w - b.r) /\ i \in 1..(Len(c) + Len(s))
        BY <3>1, <1>1, <1>5, <1>7, Fields_
      <4> QED BY <4>1, <3>1, <1>4, <1>7, <1>8
    <3>2. CASE ~(i <= Len(c))
      <4>1. i - Len(c) \in 1..Len(s) /\ b.w + (i - Len(c)) = b.r + i /\ i \in 1..(Len(c) + Len(s))
        BY <3>2, <1>1, <1>5, <1>7, Fields_
      <4>2. v[b.w + (i - Len(c))] = s[i - Len(c)]
        BY <4>1, <1>4
      <4> QED BY <4>1, <4>2, <3>2, <1>8
    <3> QED BY <3>1, <3>2
  <2> QED BY <2>1, <2>2, <1>5
<1>10. Content(d) = e
  BY <1>6, <1>8, <1>9, ContentIs
<1> QED BY <1>2, <1>5, <1>6, <1>10 DEF e, c

\* Two buffers with the same bytes between their indices.
LEMMA SameContent ==
  ASSUME NEW b, WellFormed(b), NEW d, WellFormed(d), d.w - d.r = b.w - b.r,
         \A i \in 1..(b.w - b.r) : d.vec[d.r + i] = b.vec[b.r + i]
  PROVE  Content(d) = Content(b)
<1> DEFINE c == Content(b)
<1>1. c \in Seq(Byte) /\ Len(c) = d.w - d.r /\ \A i \in 1..(d.w - d.r) : c[i] = d.vec[d.r + i]
  BY ContentBytes
<1> HIDE DEF c
<1>2. Content(d) = c
  BY <1>1, ContentIs
<1> QED BY <1>2 DEF c

\* A larger vector keeps the content.
LEMMA ResizeKeeps ==
  ASSUME NEW b, WellFormed(b), NEW size \in Nat, Len(b.vec) <= size
  PROVE  /\ WellFormed(Resize(b, size)) /\ Content(Resize(b, size)) = Content(b)
         /\ Resize(b, size).w = b.w /\ Len(Resize(b, size).vec) = size
<1> DEFINE v == [i \in 1..size |-> IF i <= Len(b.vec) THEN b.vec[i] ELSE Dead]
           d == [vec |-> v, r |-> b.r, w |-> b.w]
<1>1. Resize(b, size) = d
  BY Zenon DEF Resize
<1>2. v \in [1..size -> Byte]
  BY Fields_, BufferAssumption
<1>3. \A i \in 1..Len(b.vec) : v[i] = b.vec[i]
  BY Fields_
<1>4. d.vec = v /\ d.r = b.r /\ d.w = b.w
  OBVIOUS
<1> HIDE DEF v
<1>5. WellFormed(d) /\ Len(v) = size
  <2>1. CheapPrepend + InitialSize <= size /\ b.w <= size
    BY Fields_ DEF WellFormed
  <2> QED BY <1>2, <2>1, Fields_, MakeWellFormed
<1> HIDE DEF d
<1>6. ASSUME NEW i \in 1..(b.w - b.r) PROVE d.vec[d.r + i] = b.vec[b.r + i]
  <2>1. b.r + i \in 1..Len(b.vec)
    BY Fields_
  <2> QED BY <2>1, <1>3, <1>4
<1>7. Content(d) = Content(b)
  BY <1>4, <1>5, <1>6, SameContent
<1> QED BY <1>1, <1>4, <1>5, <1>7

\* Copying the content down keeps it when it ends inside the vector.
LEMMA MoveDownKeeps ==
  ASSUME NEW b, WellFormed(b), CheapPrepend + ReadableBytes(b) <= Len(b.vec)
  PROVE  /\ WellFormed(MoveDown(b)) /\ Content(MoveDown(b)) = Content(b)
         /\ MoveDown(b).w = CheapPrepend + ReadableBytes(b)
         /\ Len(MoveDown(b).vec) = Len(b.vec)
<1> DEFINE to == CheapPrepend
           n == ReadableBytes(b)
           v == [i \in 1..Len(b.vec) |-> IF to < i /\ i <= to + n THEN b.vec[i - to + b.r] ELSE b.vec[i]]
           d == [vec |-> v, r |-> to, w |-> to + n]
<1>1. MoveDown(b) = Bury(d)
  BY Zenon DEF MoveDown
<1>2. n \in Nat /\ n = b.w - b.r /\ to \in Nat /\ to + n <= Len(b.vec)
  BY Fields_ DEF ReadableBytes
<1>3. d.vec = v /\ d.r = to /\ d.w = to + n
  OBVIOUS
<1> HIDE DEF n, to
<1>4. v \in [1..Len(b.vec) -> Byte]
  <2>1. ASSUME NEW i \in 1..Len(b.vec)
        PROVE  (IF to < i /\ i <= to + n THEN b.vec[i - to + b.r] ELSE b.vec[i]) \in Byte
    <3>1. CASE to < i /\ i <= to + n
      <4>1. i - to + b.r \in 1..Len(b.vec)
        BY <3>1, <1>2, Fields_
      <4> QED BY <3>1, <4>1, Fields_
    <3>2. CASE ~(to < i /\ i <= to + n)
      BY <3>2, Fields_
    <3> QED BY <3>1, <3>2
  <2> QED BY <2>1
<1>5. ASSUME NEW i \in 1..(b.w - b.r) PROVE v[to + i] = b.vec[b.r + i]
  <2>1. /\ to + i \in 1..Len(b.vec) /\ to < to + i /\ to + i <= to + n
        /\ (to + i) - to + b.r = b.r + i
    BY <1>2, Fields_
  <2> QED BY <2>1
<1> HIDE DEF v
<1>6. WellFormed(d) /\ Len(v) = Len(b.vec)
  <2>1. CheapPrepend + InitialSize <= Len(b.vec)
    BY DEF WellFormed
  <2>2. to + n \in Nat /\ to <= to + n
    BY <1>2
  <2> QED BY <1>2, <1>4, <2>1, <2>2, Fields_, MakeWellFormed
<1> HIDE DEF d
<1>7. Content(d) = Content(b)
  <2>1. d.w - d.r = b.w - b.r
    BY <1>2, <1>3, Fields_
  <2>2. \A i \in 1..(b.w - b.r) : d.vec[d.r + i] = b.vec[b.r + i]
    BY <1>3, <1>5
  <2> QED BY <1>6, <2>1, <2>2, SameContent
<1>8. /\ WellFormed(Bury(d)) /\ Content(Bury(d)) = Content(d)
      /\ Bury(d).w = d.w /\ Len(Bury(d).vec) = Len(d.vec)
  BY <1>6, BuryKeeps
<1> QED BY <1>1, <1>3, <1>6, <1>7, <1>8 DEF to, n

\* The assertion of makeSpace(): when the content is moved down it lies above
\* the place it is moved to, so that the forward copy does not overwrite what
\* it has still to read.
LEMMA MoveDownGoesDown ==
  ASSUME NEW b, WellFormed(b), NEW n \in Nat, n > WritableBytes(b),
         ~(WritableBytes(b) + PrependableBytes(b) < n + CheapPrepend)
  PROVE  CheapPrepend < b.r
BY Fields_ DEF WritableBytes, PrependableBytes

\* ensureWritableBytes(): the content stays, and n bytes fit behind it.
LEMMA EnsureMakesRoom ==
  ASSUME NEW b, WellFormed(b), NEW n \in Nat
  PROVE  /\ WellFormed(EnsureWritableBytes(b, n))
         /\ Content(EnsureWritableBytes(b, n)) = Content(b)
         /\ n <= WritableBytes(EnsureWritableBytes(b, n))
<1>1. CASE ~(n > WritableBytes(b))
  <2>1. EnsureWritableBytes(b, n) = b
    BY <1>1, Zenon DEF EnsureWritableBytes
  <2>2. WritableBytes(b) \in Nat
    BY Fields_ DEF WritableBytes
  <2> QED BY <1>1, <2>1, <2>2
<1>2. CASE n > WritableBytes(b) /\ WritableBytes(b) + PrependableBytes(b) < n + CheapPrepend
  <2> DEFINE d == Resize(b, b.w + n)
  <2>1. EnsureWritableBytes(b, n) = d
    BY <1>2, Zenon DEF EnsureWritableBytes, MakeSpace
  <2>2. b.w + n \in Nat /\ Len(b.vec) <= b.w + n
    BY <1>2, Fields_ DEF WritableBytes
  <2>3. WellFormed(d) /\ Content(d) = Content(b) /\ d.w = b.w /\ Len(d.vec) = b.w + n
    BY <2>2, ResizeKeeps
  <2> HIDE DEF d
  <2>4. n <= WritableBytes(d)
    BY <2>3, Fields_ DEF WritableBytes
  <2> QED BY <2>1, <2>3, <2>4
<1>3. CASE n > WritableBytes(b) /\ ~(WritableBytes(b) + PrependableBytes(b) < n + CheapPrepend)
  <2> DEFINE d == MoveDown(b)
  <2>1. EnsureWritableBytes(b, n) = d
    BY <1>3, Zenon DEF EnsureWritableBytes, MakeSpace
  <2>2. CheapPrepend + ReadableBytes(b) + n <= Len(b.vec) /\ ReadableBytes(b) \in Nat
    BY <1>3, Fields_ DEF WritableBytes, PrependableBytes, ReadableBytes
  <2>3. CheapPrepend + ReadableBytes(b) <= Len(b.vec)
    BY <2>2, Fields_
  <2>4. /\ WellFormed(d) /\ Content(d) = Content(b)
        /\ d.w = CheapPrepend + ReadableBytes(b) /\ Len(d.vec) = Len(b.vec)
    BY <2>3, MoveDownKeeps
  <2> HIDE DEF d
  <2>5. n <= WritableBytes(d)
    BY <2>2, <2>4, Fields_ DEF WritableBytes
  <2> QED BY <2>1, <2>4, <2>5
<1> QED BY <1>1, <1>2, <1>3

\* append() adds at the back, whatever space it has to make.
LEMMA AppendAppends ==
  ASSUME NEW b, WellFormed(b), NEW s \in Seq(Byte)
  PROVE  WellFormed(Append_(b, s)) /\ Content(Append_(b, s)) = Content(b) \o s
<1> DEFINE d == EnsureWritableBytes(b, Len(s))
<1>1. WellFormed(d) /\ Content(d) = Content(b) /\ Len(s) <= WritableBytes(d)
  BY EnsureMakesRoom
<1> HIDE DEF d
<1>2. WellFormed(Write(d, s)) /\ Content(Write(d, s)) = Content(d) \o s
  BY <1>1, WriteAppends DEF WriteFits
<1> QED BY <1>1, <1>2 DEF Append_, d

\* A prefix of a sequence of bytes and what is behind it.
LEMMA Cut ==
  ASSUME NEW s \in Seq(Byte), NEW n \in 0..Len(s)
  PROVE  /\ SubSeq(s, 1, n) \in Seq(Byte) /\ Len(SubSeq(s, 1, n)) = n
         /\ SubSeq(s, n + 1, Len(s)) \in Seq(Byte) /\ Len(SubSeq(s, n + 1, Len(s))) = Len(s) - n
         /\ \A i \in 1..n : SubSeq(s, 1, n)[i] = s[i]
         /\ \A i \in 1..(Len(s) - n) : SubSeq(s, n + 1, Len(s))[i] = s[n + i]
         /\ SubSeq(s, 1, n) \o SubSeq(s, n + 1, Len(s)) = s
<1> DEFINE p == SubSeq(s, 1, n)
           t == SubSeq(s, n + 1, Len(s))
<1>1. Len(s) \in Nat /\ \A i \in 1..Len(s) : s[i] \in Byte
  OBVIOUS
<1>2. /\ p \in Seq(Byte) /\ Len(p) = (IF 1 <= n THEN n - 1 + 1 ELSE 0)
      /\ \A i \in 1..(n - 1 + 1) : p[i] = s[1 + i - 1]
  <2>1. 1 \in Int /\ n \in Int /\ \A i \in 1..n : s[i] \in Byte
    BY <1>1
  <2> QED BY <2>1, SubSeqProperties
<1>3. /\ t \in Seq(Byte) /\ Len(t) = (IF n + 1 <= Len(s) THEN Len(s) - (n + 1) + 1 ELSE 0)
      /\ \A i \in 1..(Len(s) - (n + 1) + 1) : t[i] = s[n + 1 + i - 1]
  <2>1. n + 1 \in Int /\ Len(s) \in Int /\ \A i \in (n + 1)..Len(s) : s[i] \in Byte
    BY <1>1
  <2> QED BY <2>1, SubSeqProperties
<1> HIDE DEF p, t
<1>4. /\ Len(p) = n /\ \A i \in 1..n : p[i] = s[i]
      /\ Len(t) = Len(s) - n /\ \A i \in 1..(Len(s) - n) : t[i] = s[n + i]
  BY <1>1, <1>2, <1>3
<1> DEFINE e == p \o t
<1>5. /\ e \in Seq(Byte) /\ Len(e) = Len(p) + Len(t)
      /\ \A i \in 1..(Len(p) + Len(t)) : e[i] = IF i <= Len(p) THEN p[i] ELSE t[i - Len(p)]
  BY <1>2, <1>3, ConcatProperties
<1> HIDE DEF e
<1>6. Len(e) = Len(s) /\ \A i \in 1..Len(e) : e[i] = s[i]
  <2>1. Len(e) = Len(s)
    BY <1>1, <1>4, <1>5
  <2>2. ASSUME NEW i \in 1..Len(e) PROVE e[i] = s[i]
    <3>1. CASE i <= n
      BY <3>1, <1>1, <1>4, <1>5
    <3>2. CASE ~(i <= n)
      <4>1. i - n \in 1..(Len(s) - n) /\ n + (i - n) = i
        BY <3>2, <2>1, <1>1
      <4>2. t[i - n] = s[n + (i - n)]
        BY <4>1, <1>4
      <4> QED BY <4>1, <4>2, <3>2, <1>4, <1>5
    <3> QED BY <3>1, <3>2
  <2> QED BY <2>1, <2>2
<1>7. e = s
  BY <1>5, <1>6, SeqEqual, Zenon
<1> QED BY <1>2, <1>3, <1>4, <1>7 DEF e, p, t

\* Bytes added in two parts.
LEMMA Regroup ==
  ASSUME NEW x \in Seq(Byte), NEW y \in Seq(Byte), NEW z \in Seq(Byte)
  PROVE  (x \o y) \o z = x \o (y \o z)
BY ConcatAssociative

\* readFd() adds what was read at the back, also when it overflows into the
\* extra buffer.
LEMMA ReadFdAppends ==
  ASSUME NEW b, WellFormed(b), NEW s \in Seq(Byte)
  PROVE  WellFormed(ReadFd(b, s)) /\ Content(ReadFd(b, s)) = Content(b) \o s
<1> DEFINE n == WritableBytes(b)
<1>1. n \in Nat /\ Len(s) \in Nat
  BY Fields_ DEF WritableBytes
<1>2. CASE Len(s) <= n
  <2>1. ReadFd(b, s) = Write(b, s)
    BY <1>2, Zenon DEF ReadFd
  <2> QED BY <1>2, <2>1, WriteAppends DEF WriteFits
<1>3. CASE ~(Len(s) <= n)
  <2> DEFINE p == SubSeq(s, 1, n)
             t == SubSeq(s, n + 1, Len(s))
             d == Write(b, p)
  <2>1. ReadFd(b, s) = Append_(d, t)
    BY <1>3, Zenon DEF ReadFd
  <2> HIDE DEF n
  <2>2. n \in 0..Len(s)
    BY <1>1, <1>3
  <2>3. p \in Seq(Byte) /\ Len(p) = n /\ t \in Seq(Byte) /\ p \o t = s
    BY <2>2, Cut
  <2> HIDE DEF p, t
  <2>4. WriteFits(b, p)
    BY <1>1, <2>3 DEF WriteFits, n
  <2>5. WellFormed(d) /\ Content(d) = Content(b) \o p
    BY <2>3, <2>4, WriteAppends
  <2> HIDE DEF d
  <2>6. WellFormed(Append_(d, t)) /\ Content(Append_(d, t)) = Content(d) \o t
    BY <2>3, <2>5, AppendAppends
  <2> DEFINE c == Content(b)
  <2>7. c \in Seq(Byte)
    BY ContentBytes
  <2> HIDE DEF c
  <2>8. (c \o p) \o t = c \o (p \o t)
    <3>1. c \in Seq(Byte) /\ p \in Seq(Byte) /\ t \in Seq(Byte)
      BY <2>3, <2>7
    <3> QED BY <3>1, Regroup
  <2> QED BY <2>1, <2>3, <2>5, <2>6, <2>8 DEF c
<1> QED BY <1>2, <1>3

\* prepend() adds in front.
LEMMA PrependPrepends ==
  ASSUME NEW b, WellFormed(b), NEW s \in Seq(Byte), Len(s) <= PrependableBytes(b)
  PROVE  WellFormed(Prepend(b, s)) /\ Content(Prepend(b, s)) = s \o Content(b)
<1> DEFINE at == b.r - Len(s)
           v == [i \in 1..Len(b.vec) |-> IF at < i /\ i <= b.r THEN s[i - at] ELSE b.vec[i]]
           d == [vec |-> v, r |-> at, w |-> b.w]
           c == Content(b)
           e == s \o c
<1>1. Prepend(b, s) = d
  BY Zenon DEF Prepend
<1>2. at \in Nat /\ Len(s) \in Nat /\ at + Len(s) = b.r
  BY Fields_ DEF PrependableBytes
<1>3. d.vec = v /\ d.r = at /\ d.w = b.w
  OBVIOUS
<1> HIDE DEF at
<1>4. v \in [1..Len(b.vec) -> Byte]
  <2>1. \A i \in 1..Len(s) : s[i] \in Byte
    OBVIOUS
  <2>2. ASSUME NEW i \in 1..Len(b.vec)
        PROVE  (IF at < i /\ i <= b.r THEN s[i - at] ELSE b.vec[i]) \in Byte
    <3>1. CASE at < i /\ i <= b.r
      <4>1. i - at \in 1..Len(s)
        BY <3>1, <1>2, Fields_
      <4> QED BY <3>1, <4>1, <2>1
    <3>2. CASE ~(at < i /\ i <= b.r)
      BY <3>2, Fields_
    <3> QED BY <3>1, <3>2
  <2> QED BY <2>2
<1>5. ASSUME NEW i \in 1..Len(s) PROVE v[at + i] = s[i]
  <2>1. at + i \in 1..Len(b.vec) /\ at < at + i /\ at + i <= b.r /\ (at + i) - at = i
    BY <1>2, Fields_
  <2> QED BY <2>1
<1>6. ASSUME NEW i \in 1..(b.w - b.r) PROVE v[b.r + i] = b.vec[b.r + i]
  <2>1. b.r + i \in 1..Len(b.vec) /\ ~(b.r + i <= b.r)
    BY <1>2, Fields_
  <2> QED BY <2>1
<1> HIDE DEF v
<1>7. WellFormed(d) /\ Len(v) = Len(b.vec)
  <2>1. CheapPrepend + InitialSize <= Len(b.vec) /\ at <= b.w
    BY <1>2, Fields_ DEF WellFormed
  <2> QED BY <1>2, <1>4, <2>1, Fields_, MakeWellFormed
<1> HIDE DEF d
<1>8. c \in Seq(Byte) /\ Len(c) = b.w - b.r /\ \A i \in 1..(b.w - b.r) : c[i] = b.vec[b.r + i]
  BY ContentBytes
<1> HIDE DEF c
<1>9. /\ e \in Seq(Byte) /\ Len(e) = Len(s) + Len(c)
      /\ \A i \in 1..(Len(s) + Len(c)) : e[i] = IF i <= Len(s) THEN s[i] ELSE c[i - Len(s)]
  BY <1>8, ConcatProperties
<1> HIDE DEF e
<1>10. Len(e) = d.w - d.r /\ \A i \in 1..(d.w - d.r) : e[i] = d.vec[d.r + i]
  <2>1. Len(e) = d.w - d.r
    BY <1>2, <1>3, <1>8, <1>9, Fields_
  <2>2. ASSUME NEW i \in 1..(d.w - d.r) PROVE e[i] = v[at + i]
    <3>1. CASE i <= Len(s)
      <4>1. i \in 1..Len(s) /\ i \in 1..(Len(s) + Len(c))
        BY <3>1, <1>2, <1>3, <1>8, Fields_
      <4> QED BY <4>1, <3>1, <1>5, <1>9
    <3>2. CASE ~(i <= Len(s))
      <4>1. /\ i - Len(s) \in 1..(b.w - b.r) /\ b.r + (i - Len(s)) = at + i
            /\ i \in 1..(Len(s) + Len(c))
        BY <3>2, <1>2, <1>3, <1>8, Fields_
      <4>2. v[b.r + (i - Len(s))] = b.vec[b.r + (i - Len(s))]
        BY <4>1, <1>6
      <4>3. c[i - Len(s)] = b.vec[b.r + (i - Len(s))]
        BY <4>1, <1>8
      <4> QED BY <4>1, <4>2, <4>3, <3>2, <1>9
    <3> QED BY <3>1, <3>2
  <2> QED BY <2>1, <2>2, <1>3
<1>11. Content(d) = e
  BY <1>7, <1>9, <1>10, ContentIs
<1> QED BY <1>1, <1>7, <1>11 DEF e, c

\* The constructor makes an empty buffer.
LEMMA NewBufferIsEmpty == WellFormed(NewBuffer) /\ Content(NewBuffer) = <<>>
<1> DEFINE v == [i \in 1..CheapPrepend + InitialSize |-> Dead]
<1>1. CheapPrepend \in Nat /\ InitialSize \in Nat /\ v \in [1..CheapPrepend + InitialSize -> Byte]
  BY BufferAssumption
<1> HIDE DEF v
<1>2. CheapPrepend + InitialSize \in Nat /\ CheapPrepend <= CheapPrepend + InitialSize
  BY <1>1
<1>3. WellFormed([vec |-> v, r |-> CheapPrepend, w |-> CheapPrepend])
  BY <1>1, <1>2, MakeWellFormed
<1>4. NewBuffer = [vec |-> v, r |-> CheapPrepend, w |-> CheapPrepend]
  BY Zenon DEF NewBuffer, v
<1>5. WellFormed(NewBuffer) /\ NewBuffer.r = NewBuffer.w /\ NewBuffer.w \in Nat
  BY <1>1, <1>3, <1>4
<1>6. Content(NewBuffer) \in Seq(Byte) /\ Len(Content(NewBuffer)) = 0
  BY <1>5, ContentBytes
<1> QED BY <1>5, <1>6

\* shrink() keeps the content.
LEMMA ShrinkKeeps ==
  ASSUME NEW b, WellFormed(b), NEW reserve \in Nat
  PROVE  WellFormed(Shrink(b, reserve)) /\ Content(Shrink(b, reserve)) = Content(b)
<1> DEFINE n == ReadableBytes(b) + reserve
           d == EnsureWritableBytes(NewBuffer, n)
           c == Content(b)
<1>1. Shrink(b, reserve) = Append_(d, c)
  BY Zenon DEF Shrink
<1>2. n \in Nat
  BY Fields_ DEF ReadableBytes
<1> HIDE DEF n
<1>3. WellFormed(d) /\ Content(d) = <<>>
  BY <1>2, NewBufferIsEmpty, EnsureMakesRoom
<1> HIDE DEF d
<1>4. c \in Seq(Byte)
  BY ContentBytes
<1> HIDE DEF c
<1>5. WellFormed(Append_(d, c)) /\ Content(Append_(d, c)) = <<>> \o c
  BY <1>3, <1>4, AppendAppends
<1>6. <<>> \o c = c
  BY <1>4, ConcatEmptySeq
<1> QED BY <1>1, <1>5, <1>6 DEF c

\* A set of positions has a first one.
LEMMA FirstIs ==
  ASSUME NEW at, at \subseteq Nat, at # {}
  PROVE  First(at) \in at /\ \A j \in at : First(at) <= j
<1>1. PICK x \in at : \A y \in at : ~(<<y, x>> \in OpToRel(<, Nat))
  BY NatLessThanWellFounded, WFMin
<1>2. \A y \in at : x <= y
  <2> TAKE y \in at
  <2>1. x \in Nat /\ y \in Nat
    OBVIOUS
  <2>2. ~(y < x)
    BY <1>1, <2>1 DEF OpToRel
  <2> QED BY <2>1, <2>2
<1> QED BY <1>2, Zenon DEF First

HasCRLF(c, i) == c[i] = CR /\ c[i + 1] = LF

\* findCRLF() finds the first CRLF of the content, or none when there is none.
LEMMA FindCRLF ==
  ASSUME NEW b, WellFormed(b)
  PROVE  /\ Find(b, CRLF) \in 0..Len(Content(b))
         /\ Find(b, CRLF) = 0 => \A j \in 1..(Len(Content(b)) - 1) : ~HasCRLF(Content(b), j)
         /\ Find(b, CRLF) # 0 => /\ Find(b, CRLF) + 1 <= Len(Content(b))
                                 /\ HasCRLF(Content(b), Find(b, CRLF))
                                 /\ \A j \in 1..(Find(b, CRLF) - 1) : ~HasCRLF(Content(b), j)
<1> DEFINE c == Content(b)
           hits == {i \in 1..Len(c) : i + Len(CRLF) - 1 <= Len(c) /\ SubSeq(c, i, i + Len(CRLF) - 1) = CRLF}
<1>1. Find(b, CRLF) = IF hits = {} THEN 0 ELSE First(hits)
  BY Zenon DEF Find
<1>2. c \in Seq(Byte)
  BY ContentBytes
<1> HIDE DEF c
<1>3. Len(CRLF) = 2 /\ CRLF[1] = CR /\ CRLF[2] = LF
  BY DEF CRLF
<1>4. ASSUME NEW i \in 1..Len(c) PROVE i \in hits <=> i + 1 <= Len(c) /\ HasCRLF(c, i)
  <2>1. CASE i + 1 <= Len(c)
    <3> DEFINE t == SubSeq(c, i, i + 1)
    <3>1. t \in Seq(Byte) /\ Len(t) = 2 /\ t[1] = c[i] /\ t[2] = c[i + 1]
      <4>1. i \in Int /\ i + 1 \in Int /\ \A j \in i..(i + 1) : c[j] \in Byte
        BY <1>2, <2>1
      <4>2. /\ t \in Seq(Byte) /\ Len(t) = (IF i <= i + 1 THEN (i + 1) - i + 1 ELSE 0)
            /\ \A j \in 1..((i + 1) - i + 1) : t[j] = c[i + j - 1]
        BY <4>1, SubSeqProperties
      <4> HIDE DEF t
      <4> QED BY <4>1, <4>2
    <3> HIDE DEF t
    <3>2. t = CRLF <=> t[1] = CR /\ t[2] = LF
      BY <3>1, <1>3 DEF CRLF
    <3>3. i + Len(CRLF) - 1 = i + 1
      BY <1>3
    <3> QED BY <2>1, <3>1, <3>2, <3>3 DEF t, HasCRLF
  <2>2. CASE ~(i + 1 <= Len(c))
    <3>1. i + Len(CRLF) - 1 = i + 1
      BY <1>3
    <3> QED BY <2>2, <3>1
  <2> QED BY <2>1, <2>2
<1>5. hits \subseteq 1..Len(c)
  OBVIOUS
<1> HIDE DEF hits
<1>6. CASE hits = {}
  BY <1>1, <1>2, <1>4, <1>6 DEF c
<1>7. CASE hits # {}
  <2> DEFINE f == First(hits)
  <2>1. f \in hits /\ \A j \in hits : f <= j
    <3>1. hits \subseteq Nat
      BY <1>5
    <3> QED BY <3>1, <1>7, FirstIs
  <2> HIDE DEF f
  <2>2. f \in 1..Len(c) /\ f + 1 <= Len(c) /\ HasCRLF(c, f)
    BY <1>4, <1>5, <2>1
  <2>3. ASSUME NEW j \in 1..(f - 1) PROVE ~HasCRLF(c, j)
    <3>1. j \in 1..Len(c) /\ j + 1 <= Len(c) /\ ~(f <= j)
      BY <1>2, <2>2
    <3> QED BY <3>1, <1>4, <2>1
  <2>4. Find(b, CRLF) = f
    BY <1>1, <1>7 DEF f
  <2> QED BY <1>2, <2>2, <2>3, <2>4 DEF c
<1> QED BY <1>6, <1>7

-----------------------------------------------------------------------------
(* One pass of the parser                                                  *)

\* A context that expects no line makes the loop endless.
LEMMA PassSpins ==
  ASSUME NEW b, NEW c, c.state \notin {"kExpectRequestLine", "kExpectHeaders"}
  PROVE  ParseLine(b, c) = Pass(FALSE, TRUE, b, c, "spin")
BY Zenon DEF ParseLine

\* Without a CRLF the parser waits.
LEMMA PassWaits ==
  ASSUME NEW b, NEW c, c.state \in {"kExpectRequestLine", "kExpectHeaders"}, Find(b, CRLF) = 0
  PROVE  ParseLine(b, c) = Pass(FALSE, TRUE, b, c, "none")
BY Zenon DEF ParseLine

\* The first line of a request.
LEMMA PassOnRequestLine ==
  ASSUME NEW b, NEW c, c.state = "kExpectRequestLine", Find(b, CRLF) # 0
  PROVE  LET p == ProcessRequestLine(c.req, FirstLine(b))
         IN  ParseLine(b, c) =
               IF p.abort THEN Pass(FALSE, TRUE, b, c, "method_assert")
               ELSE IF p.ok THEN Pass(TRUE, TRUE, Retrieve(b, Find(b, CRLF) + 1),
                                      [state |-> "kExpectHeaders", req |-> p.req], "none")
               ELSE Pass(FALSE, FALSE, b, [c EXCEPT !.req = p.req], "none")
<1>1. c.state \in {"kExpectRequestLine", "kExpectHeaders"}
  OBVIOUS
<1> QED BY <1>1, Zenon DEF ParseLine

\* A header, or the empty line that ends them.
LEMMA PassOnHeader ==
  ASSUME NEW b, NEW c, c.state = "kExpectHeaders", Find(b, CRLF) # 0
  PROVE  LET line == FirstLine(b)
             rest == Retrieve(b, Find(b, CRLF) + 1)
         IN  ParseLine(b, c) =
               IF Colons(line) # {}
               THEN Pass(TRUE, TRUE, rest, [c EXCEPT !.req = AddHeader(c.req, line[First(Colons(line))])], "none")
               ELSE Pass(FALSE, TRUE, rest, [c EXCEPT !.state = "kGotAll"], "none")
<1>1. c.state \in {"kExpectRequestLine", "kExpectHeaders"} /\ c.state # "kExpectRequestLine"
  OBVIOUS
<1> QED BY <1>1, Zenon DEF ParseLine

\* Whatever the context, a pass leaves the buffer or takes a line off it.
LEMMA PassTakesALine ==
  ASSUME NEW b, NEW c
  PROVE  /\ \/ ParseLine(b, c).b = b
            \/ Find(b, CRLF) # 0 /\ ParseLine(b, c).b = Retrieve(b, Find(b, CRLF) + 1)
         /\ ParseLine(b, c).fault \in {"none", "spin", "method_assert"}
<1>1. CASE c.state \notin {"kExpectRequestLine", "kExpectHeaders"}
  BY <1>1, PassSpins DEF Pass
<1>2. CASE c.state \in {"kExpectRequestLine", "kExpectHeaders"} /\ Find(b, CRLF) = 0
  BY <1>2, PassWaits DEF Pass
<1>3. CASE c.state = "kExpectRequestLine" /\ Find(b, CRLF) # 0
  <2> DEFINE p == ProcessRequestLine(c.req, FirstLine(b))
  <2>1. CASE p.abort
    BY <1>3, <2>1, PassOnRequestLine DEF Pass
  <2>2. CASE ~p.abort /\ p.ok
    BY <1>3, <2>2, PassOnRequestLine DEF Pass
  <2>3. CASE ~p.abort /\ ~p.ok
    BY <1>3, <2>3, PassOnRequestLine DEF Pass
  <2> QED BY <2>1, <2>2, <2>3
<1>4. CASE c.state = "kExpectHeaders" /\ Find(b, CRLF) # 0
  <2>1. CASE Colons(FirstLine(b)) # {}
    BY <1>4, <2>1, PassOnHeader DEF Pass
  <2>2. CASE Colons(FirstLine(b)) = {}
    BY <1>4, <2>2, PassOnHeader DEF Pass
  <2> QED BY <2>1, <2>2
<1> QED BY <1>1, <1>2, <1>3, <1>4

\* What a pass leaves is a tail of the content.
LEMMA PassTakesFront ==
  ASSUME NEW b, NEW c, WellFormed(b)
  PROVE  /\ WellFormed(ParseLine(b, c).b)
         /\ \E n \in 0..Len(Content(b)) :
              Content(ParseLine(b, c).b) = SubSeq(Content(b), n + 1, Len(Content(b)))
<1>1. CASE ParseLine(b, c).b = b
  <2>1. Content(b) \in Seq(Byte)
    BY ContentBytes
  <2>2. 0 \in 0..Len(Content(b)) /\ SubSeq(Content(b), 0 + 1, Len(Content(b))) = Content(b)
    <3>1. SubSeq(Content(b), 1, Len(Content(b))) = Content(b)
      BY <2>1, SubSeqFull
    <3>2. Len(Content(b)) \in Nat /\ 0 + 1 = 1
      BY <2>1
    <3> QED BY <3>1, <3>2
  <2> QED BY <1>1, <2>2
<1>2. CASE Find(b, CRLF) # 0 /\ ParseLine(b, c).b = Retrieve(b, Find(b, CRLF) + 1)
  <2>1. Find(b, CRLF) + 1 \in 0..Len(Content(b))
    BY <1>2, FindCRLF
  <2> QED BY <1>2, <2>1, RetrieveTakesFront
<1> QED BY <1>1, <1>2, PassTakesALine

-----------------------------------------------------------------------------
(* The type invariant and the steps of the queue                           *)

\* The bytes of a request.
LEMMA TextIsBytes ==
  ASSUME NEW item \in Requests
  PROVE  Text(item) \in Seq(Byte)
<1> DEFINE ls == <<item.line>> \o item.headers
           n == Len(ls)
<1>1. item.line \in Byte /\ item.headers \in Seq(Byte) /\ item.body \in Seq(Byte)
  BY SeqMonotonic DEF Requests
<1>2. ls \in Seq(Byte)
  <2>1. <<item.line>> \in Seq(Byte)
    BY <1>1
  <2> QED BY <1>1, <2>1, ConcatProperties
<1> HIDE DEF ls
<1>3. CR \in Byte /\ LF \in Byte
  BY HttpAssumption
<1>4. Lines(ls) \in Seq(Byte)
  <2>1. n \in Nat /\ \A i \in 1..n : ls[i] \in Byte
    BY <1>2
  <2>2. ASSUME NEW i \in 1..3 * n
        PROVE  (CASE i % 3 = 1 -> ls[(i + 2) \div 3] [] i % 3 = 2 -> CR [] OTHER -> LF) \in Byte
    <3>1. CASE i % 3 = 1
      <4>1. (i + 2) \div 3 \in 1..n
        BY <2>1, <3>1
      <4>2. (CASE i % 3 = 1 -> ls[(i + 2) \div 3] [] i % 3 = 2 -> CR [] OTHER -> LF) = ls[(i + 2) \div 3]
        BY <3>1
      <4> QED BY <2>1, <4>1, <4>2
    <3>2. CASE i % 3 = 2
      BY <3>2, <1>3
    <3>3. CASE i % 3 # 1 /\ i % 3 # 2
      BY <3>3, <1>3
    <3> QED BY <3>1, <3>2, <3>3
  <2>3. Lines(ls) \in [1..3 * n -> Byte]
    BY <2>2, Zenon DEF Lines
  <2>4. 3 * n \in Nat
    BY <2>1
  <2> QED BY <2>3, <2>4, VecIsSeq
<1>5. CRLF \in Seq(Byte)
  BY <1>3 DEF CRLF
<1> DEFINE l == Lines(ls)
<1> HIDE DEF l
<1>6. l \in Seq(Byte)
  BY <1>4 DEF l
<1>7. l \o CRLF \in Seq(Byte)
  BY <1>5, <1>6, ConcatProperties
<1>8. (l \o CRLF) \o item.body \in Seq(Byte)
  BY <1>1, <1>7, ConcatProperties
<1> QED BY <1>8 DEF Text, l, ls

\* An integer that is put back, in the bytes that reach the buffer.
LEMMA PrependedIntIsBytes ==
  ASSUME NEW n \in IntSizes
  PROVE  PrependedInt(Own(n)) \in Seq(Byte)
<1>1. n \in Nat /\ OwnByte \in Byte /\ Zero \in Byte
  BY BufferAssumption, HttpAssumption DEF IntSizes
<1>2. Own(n) \in Seq(Byte) /\ Len(Own(n)) = n
  <2>1. Own(n) \in [1..n -> Byte]
    BY <1>1 DEF Own
  <2> QED BY <1>1, <2>1, VecIsSeq
<1> DEFINE x == Own(n)
           m == IF Len(x) = 1 THEN 1 ELSE 8
<1> HIDE DEF x
<1>3. m \in Nat
  OBVIOUS
<1>4. PrependedInt(x) \in [1..m -> Byte]
  BY <1>1, <1>2 DEF PrependedInt, x
<1> QED BY <1>3, <1>4, VecIsSeq DEF x

\* Bytes that leave the wire for the buffer are pushed.
LEMMA PushStep ==
  ASSUME wire \in Seq(Byte), NEW n \in 1..Len(wire),
         wire' = SubSeq(wire, n + 1, Len(wire)),
         Content(buf') = Content(buf) \o SubSeq(wire, 1, n),
         out' = <<>>
  PROVE  Queue!Push
<1> DEFINE t == SubSeq(wire, n + 1, Len(wire))
<1>1. n \in 0..Len(wire) /\ Len(wire) \in Nat
  OBVIOUS
<1>2. t \in Seq(Byte) /\ Len(t) = Len(wire) - n
  BY <1>1, Cut
<1> HIDE DEF t
<1>3. wire' = t /\ t = SubSeq(wire, n + 1, Len(wire))
  BY DEF t
<1>4. Len(wire) - Len(t) = n
  BY <1>1, <1>2
<1>5. Queue!IsTail(wire', wire)
  <2>1. Len(t) <= Len(wire)
    BY <1>1, <1>2
  <2>2. SubSeq(wire, Len(wire) - Len(t) + 1, Len(wire)) = t
    BY <1>3, <1>4
  <2>3. Queue!IsTail(t, wire)
    BY <2>1, <2>2 DEF Queue!IsTail
  <2> QED BY <1>3, <2>3
<1>6. Content(buf)' = Content(buf) \o SubSeq(wire, 1, Len(wire) - Len(wire'))
  <2>1. Len(wire) - Len(wire') = n
    BY <1>3, <1>4
  <2> QED BY <2>1, Zenon
<1> QED BY <1>5, <1>6 DEF Queue!Push

\* Bytes that leave the front of the content are popped.
LEMMA PopStep ==
  ASSUME WellFormed(buf), NEW n \in 0..Len(Content(buf)),
         Content(buf') = SubSeq(Content(buf), n + 1, Len(Content(buf))),
         out' \in {<<>>, SubSeq(Content(buf), 1, n)},
         wire' = wire
  PROVE  Queue!Pop
<1> DEFINE c == Content(buf)
           t == SubSeq(c, n + 1, Len(c))
<1>1. c \in Seq(Byte) /\ Len(c) \in Nat
  BY ContentBytes
<1>2. t \in Seq(Byte) /\ Len(t) = Len(c) - n
  BY <1>1, Cut
<1>3. Content(buf)' = t
  OBVIOUS
<1>4. c = Content(buf) /\ t = SubSeq(c, n + 1, Len(c)) /\ n \in 0..Len(c) /\ out' \in {<<>>, SubSeq(c, 1, n)}
  OBVIOUS
<1> HIDE DEF c, t
<1>5. Len(c) - Len(t) = n
  BY <1>1, <1>2, <1>4
<1>6. Queue!IsTail(t, c)
  BY <1>1, <1>2, <1>4, <1>5 DEF Queue!IsTail
<1>7. out' \in {<<>>, SubSeq(c, 1, Len(c) - Len(t))}
  BY <1>4, <1>5
<1> QED BY <1>3, <1>4, <1>6, <1>7, Zenon DEF Queue!Pop

\* Every step keeps the types and is a step of the queue: one case per
\* operation, the operation's lemma says what it does to the content.
LEMMA QueueStep ==
  ASSUME TypeOK, [Next]_vars
  PROVE  TypeOK' /\ [Queue!Next]_<<wire, Content(buf), out>>
<1> DEFINE Good == TypeOK' /\ [Queue!Next]_<<wire, Content(buf), out>>
<1>0. WellFormed(buf) /\ wire \in Seq(Byte) /\ Content(buf) \in Seq(Byte) /\ Len(wire) \in Nat
  BY ContentBytes DEF TypeOK
<1>a. Len(Content(buf)) = ReadableBytes(buf) /\ ReadableBytes(buf) \in Nat
  BY <1>0, ContentBytes, Fields_ DEF ReadableBytes
\* What the owner's steps leave alone.
<1>b. ASSUME UNCHANGED <<app, httpVars>>, WellFormed(buf'), wire' \in Seq(Byte) PROVE TypeOK'
  BY <1>b DEF TypeOK, httpVars
<1>c. ASSUME NEW n \in 1..Len(wire), wire' = SubSeq(wire, n + 1, Len(wire)) PROVE wire' \in Seq(Byte)
  <2>1. n \in 0..Len(wire)
    BY <1>0
  <2> QED BY <1>0, <1>c, <2>1, Cut
<1>d. ASSUME NEW n \in 1..Len(wire) PROVE SubSeq(wire, 1, n) \in Seq(Byte)
  <2>1. n \in 0..Len(wire)
    BY <1>0
  <2> QED BY <1>0, <2>1, Cut
<1>1. CASE ParseRequest
  <2> DEFINE p == ParseLine(buf, ctx)
  <2>1. buf' = p.b /\ out' = <<>> /\ UNCHANGED <<app, wire, phase, state, resp, script, sent, fault>>
    BY <1>1 DEF ParseRequest
  <2>2. WellFormed(p.b) /\ \E n \in 0..Len(Content(buf)) :
                              Content(p.b) = SubSeq(Content(buf), n + 1, Len(Content(buf)))
    BY <1>0, PassTakesFront
  <2> HIDE DEF p
  <2>3. TypeOK'
    BY <2>1, <2>2 DEF TypeOK
  <2>4. PICK n \in 0..Len(Content(buf)) : Content(buf') = SubSeq(Content(buf), n + 1, Len(Content(buf)))
    BY <2>1, <2>2
  <2>5. Queue!Pop
    BY <1>0, <2>1, <2>4, PopStep
  <2> QED BY <2>3, <2>5 DEF Queue!Next
<1>2. CASE OnMessage
  <2> DEFINE p == ParseLine(buf, ctx)
  <2>1. /\ buf' = p.b /\ out' = <<>> /\ phase' = "idle" /\ fault' = p.fault
        /\ UNCHANGED <<app, wire, script, sent>>
    BY <1>2 DEF OnMessage
  <2>2. WellFormed(p.b) /\ \E n \in 0..Len(Content(buf)) :
                              Content(p.b) = SubSeq(Content(buf), n + 1, Len(Content(buf)))
    BY <1>0, PassTakesFront
  <2>3. p.fault \in {"none", "spin", "method_assert"}
    BY PassTakesALine
  <2>4. state' \in {"kConnected", "kDisconnecting", "kDisconnected"}
    <3>1. (\E r : Reply(r)) \/ state' = state
      BY <1>2 DEF OnMessage
    <3> QED BY <3>1 DEF Reply, TypeOK
  <2> HIDE DEF p
  <2>5. TypeOK'
    BY <2>1, <2>2, <2>3, <2>4 DEF TypeOK
  <2>6. PICK n \in 0..Len(Content(buf)) : Content(buf') = SubSeq(Content(buf), n + 1, Len(Content(buf)))
    BY <2>1, <2>2
  <2>7. Queue!Pop
    BY <1>0, <2>1, <2>6, PopStep
  <2> QED BY <2>5, <2>7 DEF Queue!Next
<1>3. CASE Send
  <2> DEFINE t == Text(script.reqs[sent + 1])
  <2>1. /\ wire' = wire \o t /\ sent' = sent + 1 /\ sent < Len(script.reqs)
        /\ UNCHANGED <<app, buf, out, phase, state, ctx, resp, script, fault>>
    BY <1>3 DEF Send
  <2>2. sent + 1 \in 1..Len(script.reqs) /\ script.reqs \in Seq(Requests)
    BY <2>1 DEF TypeOK
  <2>3. t \in Seq(Byte)
    <3>1. script.reqs[sent + 1] \in Requests
      BY <2>2, ElementOfSeq
    <3> QED BY <3>1, TextIsBytes
  <2> HIDE DEF t
  <2> DEFINE e == wire \o t
  <2>4. /\ e \in Seq(Byte) /\ Len(e) = Len(wire) + Len(t)
        /\ \A i \in 1..(Len(wire) + Len(t)) : e[i] = IF i <= Len(wire) THEN wire[i] ELSE t[i - Len(wire)]
    BY <1>0, <2>3, ConcatProperties
  <2>5. wire' = e
    BY <2>1
  <2> HIDE DEF e
  <2>6. TypeOK'
    BY <2>1, <2>2, <2>4, <2>5 DEF TypeOK
  <2>7. Len(wire) <= Len(e) /\ SubSeq(e, 1, Len(wire)) = wire
    <3> DEFINE s == SubSeq(e, 1, Len(wire))
    <3>1. Len(wire) \in 0..Len(e) /\ Len(t) \in Nat
      BY <1>0, <2>3, <2>4
    <3>2. s \in Seq(Byte) /\ Len(s) = Len(wire) /\ \A i \in 1..Len(wire) : s[i] = e[i]
      BY <2>4, <3>1, Cut
    <3> HIDE DEF s
    <3>3. \A i \in 1..Len(s) : s[i] = wire[i]
      BY <1>0, <2>4, <3>1, <3>2
    <3>4. s = wire
      BY <1>0, <3>2, <3>3, SeqEqual
    <3> QED BY <3>1, <3>4 DEF s
  <2>8. Content(buf)' = Content(buf)
    BY <2>1
  <2>9. Queue!Arrive
    BY <2>1, <2>5, <2>7, <2>8 DEF Queue!Arrive
  <2> QED BY <2>6, <2>9 DEF Queue!Next
<1>4. CASE HandleClose
  <2>1. state' = "kDisconnected" /\ UNCHANGED <<app, buf, wire, out, phase, ctx, resp, script, sent, fault>>
    BY <1>4 DEF HandleClose, bufVars
  <2>2. TypeOK' /\ Content(buf)' = Content(buf)
    BY <2>1 DEF TypeOK
  <2> QED BY <2>1, <2>2
<1>5. ASSUME NEW n \in 1..Len(wire), HandleRead(n) PROVE Good
  <2>1. /\ buf' = ReadFd(buf, SubSeq(wire, 1, n)) /\ wire' = SubSeq(wire, n + 1, Len(wire))
        /\ out' = <<>> /\ phase' \in {"idle", "message"}
        /\ UNCHANGED <<app, state, ctx, resp, script, sent, fault>>
    BY <1>5 DEF HandleRead
  <2>2. WellFormed(buf') /\ Content(buf') = Content(buf) \o SubSeq(wire, 1, n)
    BY <1>0, <1>d, <2>1, ReadFdAppends
  <2>3. wire' \in Seq(Byte)
    BY <1>c, <2>1
  <2>4. TypeOK'
    BY <2>1, <2>2, <2>3 DEF TypeOK
  <2>5. Queue!Push
    BY <1>0, <2>1, <2>2, PushStep
  <2> QED BY <2>4, <2>5 DEF Queue!Next
<1>6. ASSUME NEW n \in 1..Len(wire), DoAppend(n) PROVE Good
  <2>1. /\ buf' = Append_(buf, SubSeq(wire, 1, n)) /\ wire' = SubSeq(wire, n + 1, Len(wire))
        /\ out' = <<>> /\ UNCHANGED <<app, httpVars>>
    BY <1>6 DEF DoAppend, AnyOwner
  <2>2. WellFormed(buf') /\ Content(buf') = Content(buf) \o SubSeq(wire, 1, n)
    BY <1>0, <1>d, <2>1, AppendAppends
  <2>3. TypeOK'
    BY <1>b, <1>c, <2>1, <2>2
  <2>4. Queue!Push
    BY <1>0, <2>1, <2>2, PushStep
  <2> QED BY <2>3, <2>4 DEF Queue!Next
<1>7. ASSUME NEW n \in 0..ReadableBytes(buf), DoRetrieve(n) \/ DoRetrieveAsString(n) PROVE Good
  <2>1. /\ buf' = Retrieve(buf, n) /\ out' \in {<<>>, SubSeq(Content(buf), 1, n)}
        /\ wire' = wire /\ UNCHANGED <<app, httpVars>>
    BY <1>7 DEF DoRetrieve, DoRetrieveAsString, AnyOwner
  <2>2. n \in 0..Len(Content(buf))
    BY <1>a
  <2>3. WellFormed(buf') /\ Content(buf') = SubSeq(Content(buf), n + 1, Len(Content(buf)))
    BY <1>0, <2>1, <2>2, RetrieveTakesFront
  <2>4. TypeOK'
    BY <1>0, <1>b, <2>1, <2>3
  <2>5. Queue!Pop
    BY <1>0, <2>1, <2>2, <2>3, PopStep
  <2> QED BY <2>4, <2>5 DEF Queue!Next
<1>8. ASSUME NEW n \in IntSizes, DoReadInt(n) PROVE Good
  <2>1. /\ buf' = Retrieve(buf, n) /\ out' = SubSeq(Content(buf), 1, n) /\ n <= ReadableBytes(buf)
        /\ wire' = wire /\ UNCHANGED <<app, httpVars>>
    BY <1>8 DEF DoReadInt, AnyOwner, PeekInt
  <2>2. n \in 0..Len(Content(buf))
    BY <1>a, <2>1 DEF IntSizes
  <2>3. WellFormed(buf') /\ Content(buf') = SubSeq(Content(buf), n + 1, Len(Content(buf)))
    BY <1>0, <2>1, <2>2, RetrieveTakesFront
  <2>4. TypeOK'
    BY <1>0, <1>b, <2>1, <2>3
  <2>5. Queue!Pop
    BY <1>0, <2>1, <2>2, <2>3, PopStep
  <2> QED BY <2>4, <2>5 DEF Queue!Next
<1>9. ASSUME NEW n \in IntSizes, DoPrependInt(n) PROVE Good
  <2> DEFINE s == PrependedInt(Own(n))
             c == Content(buf)
             e == s \o c
  <2>1. /\ buf' = Prepend(buf, s) /\ out' = <<>> /\ Len(s) <= PrependableBytes(buf)
        /\ wire' = wire /\ UNCHANGED <<app, httpVars>>
    BY <1>9 DEF DoPrependInt, AnyOwner
  <2>2. s \in Seq(Byte)
    BY PrependedIntIsBytes
  <2> HIDE DEF s
  <2>3. WellFormed(buf') /\ Content(buf') = e
    BY <1>0, <2>1, <2>2, PrependPrepends
  <2>4. TypeOK'
    BY <1>0, <1>b, <2>1, <2>3
  <2>5. c \in Seq(Byte) /\ c = Content(buf)
    BY <1>0
  <2> HIDE DEF c
  <2>6. /\ e \in Seq(Byte) /\ Len(e) = Len(s) + Len(c)
        /\ \A i \in 1..(Len(s) + Len(c)) : e[i] = IF i <= Len(s) THEN s[i] ELSE c[i - Len(s)]
    BY <2>2, <2>5, ConcatProperties
  <2> HIDE DEF e
  <2>7. Queue!IsTail(c, e)
    <3>1. Len(s) \in 0..Len(e) /\ Len(e) - Len(c) = Len(s) /\ Len(c) <= Len(e)
      BY <2>2, <2>5, <2>6
    <3> DEFINE t == SubSeq(e, Len(s) + 1, Len(e))
    <3>2. t \in Seq(Byte) /\ Len(t) = Len(c) /\ \A i \in 1..Len(c) : t[i] = e[Len(s) + i]
      <4>1. Len(e) - Len(s) = Len(c)
        BY <2>2, <2>5, <2>6
      <4>2. t \in Seq(Byte) /\ Len(t) = Len(e) - Len(s) /\ \A i \in 1..(Len(e) - Len(s)) : t[i] = e[Len(s) + i]
        BY <2>6, <3>1, Cut
      <4> QED BY <4>1, <4>2
    <3> HIDE DEF t
    <3>3. ASSUME NEW i \in 1..Len(t) PROVE t[i] = c[i]
      <4>1. /\ Len(s) + i \in 1..(Len(s) + Len(c)) /\ ~(Len(s) + i <= Len(s))
            /\ (Len(s) + i) - Len(s) = i /\ i \in 1..Len(c)
        BY <2>2, <2>5, <3>2
      <4> QED BY <4>1, <2>6, <3>2
    <3>4. t = c
      BY <2>5, <3>2, <3>3, SeqEqual
    <3> QED BY <3>1, <3>4 DEF Queue!IsTail, t
  <2>8. Queue!PutBack
    BY <2>1, <2>3, <2>5, <2>7 DEF Queue!PutBack
  <2> QED BY <2>4, <2>8 DEF Queue!Next
<1>10. ASSUME NEW reserve \in {0, InitialSize}, DoShrink(reserve) PROVE Good
  <2>1. /\ buf' = Shrink(buf, reserve) /\ out' = <<>>
        /\ wire' = wire /\ UNCHANGED <<app, httpVars>>
    BY <1>10 DEF DoShrink, AnyOwner
  <2>2. reserve \in Nat
    BY BufferAssumption
  <2>3. WellFormed(buf') /\ Content(buf') = Content(buf)
    BY <1>0, <2>1, <2>2, ShrinkKeeps
  <2>4. TypeOK'
    BY <1>0, <1>b, <2>1, <2>3
  <2>5. 0 \in 0..Len(Content(buf)) /\ SubSeq(Content(buf), 0 + 1, Len(Content(buf))) = Content(buf)
    <3>1. SubSeq(Content(buf), 1, Len(Content(buf))) = Content(buf)
      BY <1>0, SubSeqFull
    <3> QED BY <1>0, <3>1
  <2>6. Queue!Pop
    BY <1>0, <2>1, <2>3, <2>5, PopStep
  <2> QED BY <2>4, <2>6 DEF Queue!Next
<1>11. CASE UNCHANGED vars
  <2>1. UNCHANGED <<app, buf, wire, out, phase, state, ctx, resp, script, sent, fault>>
    BY <1>11 DEF vars
  <2>2. TypeOK' /\ Content(buf)' = Content(buf)
    BY <2>1 DEF TypeOK
  <2> QED BY <2>1, <2>2
<1> QED
  BY <1>1, <1>2, <1>3, <1>4, <1>5, <1>6, <1>7, <1>8, <1>9, <1>10, <1>11 DEF Next

\* The first state.
LEMMA TypeInit == Init => TypeOK
<1> SUFFICES ASSUME Init PROVE TypeOK
  OBVIOUS
<1>1. WellFormed(buf)
  BY NewBufferIsEmpty DEF Init
<1>2. wire \in Seq(Byte)
  <2>1. Raw \in Seq(Byte)
    <3>1. RawBytes \in Nat /\ \A i \in 1..RawBytes : Raw[i] \in Byte
      BY HttpAssumption DEF Raw, Range
    <3>2. Raw \in [1..RawBytes -> Byte]
      BY <3>1 DEF Raw
    <3> QED BY <3>1, <3>2, VecIsSeq
  <2> QED BY <2>1 DEF Init
<1>3. script.reqs \in Seq(Requests) /\ script.pipelines \in BOOLEAN
  <2>1. CASE app = "http"
    BY <2>1, HttpAssumption DEF Init
  <2>2. CASE app # "http"
    <3>1. script = [reqs |-> <<>>, pipelines |-> FALSE]
      BY <2>2 DEF Init
    <3> QED BY <3>1
  <2> QED BY <2>1, <2>2
<1>4. sent \in 0..Len(script.reqs)
  BY <1>3 DEF Init
<1> QED BY <1>1, <1>2, <1>3, <1>4 DEF Init, TypeOK

\* Whatever its owner and the network do, the indices of a Buffer stay in
\* order and inside its vector (the assertions of Buffer::makeSpace,
\* hasWritten and ensureWritableBytes), for every size.
THEOREM TypesAlwaysHold == Spec => []TypeOK
<1>1. TypeOK /\ [Next]_vars => TypeOK'
  BY QueueStep
<1> QED BY <1>1, TypeInit, PTL DEF Spec

\* A Buffer implements a queue of bytes: nothing is lost, repeated, reordered
\* or handed out that was not put in, whether readFd() overflows into the
\* extra buffer, makeSpace() moves or grows, or the HTTP parser is the owner,
\* for every size of the vector, of the extra buffer and of the prepend area.
THEOREM BufferImplementsQueue == Spec => BufferIsAQueue
<1>1. Init => Queue!Init
  <2>1. Init => Content(buf) = <<>> /\ out = <<>>
    BY NewBufferIsEmpty DEF Init
  <2> QED BY <2>1 DEF Queue!Init
<1>2. TypeOK /\ [Next]_vars => [Queue!Next]_<<wire, Content(buf), out>>
  BY QueueStep
<1> QED BY <1>1, <1>2, TypesAlwaysHold, PTL DEF Spec, BufferIsAQueue, Queue!Spec

-----------------------------------------------------------------------------
(* The answers                                                             *)

\* The request that is on its way, and the stream that is still to be parsed.
Item == script.reqs[sent]
Pending == Content(buf) \o wire
From(t, i) == SubSeq(t, i, Len(t))

Answered(n) == resp = [i \in 1..n |-> Expected(script.reqs[i])]

\* The context after the request line and k - 1 headers.
RequestAt(item, k) ==
  [method |-> item.line[2], path |-> item.line[3], version |-> item.line[4],
   headers |-> [f \in Fields |-> ValueOf(item.headers, k - 1, f)]]
ContextAt(item, k) ==
  IF k = 0 THEN NewContext ELSE [state |-> "kExpectHeaders", req |-> RequestAt(item, k)]

\* k lines of the request have been parsed.
LineCount(item) == Len(item.headers) + 1
Parsed(k) ==
  /\ Pending = From(Text(Item), 3 * k + 1)
  /\ ctx = ContextAt(Item, k)
  /\ k > 0 => Item.line[2] \in Methods

\* No complete line is in the buffer.
NeedOf(item, k) == IF k < LineCount(item) THEN 3 ELSE 2
Starved(k) == Len(Content(buf)) < NeedOf(Item, k)

\* Everything sent has been answered; a request is being read; a request was
\* refused, and its text stays in the buffer.
AllAnswered == phase = "idle" /\ Pending = <<>> /\ ctx = NewContext /\ Answered(sent)
Reading ==
  /\ sent > 0 /\ state = "kConnected" /\ Answered(sent - 1)
  /\ \E k \in 0..LineCount(Item) : Parsed(k) /\ (phase = "idle" => Starved(k))
Refused ==
  /\ sent > 0 /\ state # "kConnected" /\ Answered(sent)
  /\ Item.line[2] \notin Methods /\ Parsed(0) /\ Len(Content(buf)) >= 3

Progress == AllAnswered \/ Reading \/ Refused
AnswerInv == Orderly => fault = "none" /\ Progress

LineAt(item, k) == IF k = 0 THEN item.line ELSE item.headers[k]

\* Every line of a request is three bytes, and two end it.
LEMMA TextBytes ==
  ASSUME NEW item \in Requests, item.body = <<>>
  PROVE  /\ LineCount(item) \in Nat \ {0} /\ Text(item) \in Seq(Byte)
         /\ Len(Text(item)) = 3 * LineCount(item) + 2
         /\ \A k \in 0..(LineCount(item) - 1) :
              /\ Text(item)[3 * k + 1] = LineAt(item, k)
              /\ Text(item)[3 * k + 2] = CR /\ Text(item)[3 * k + 3] = LF
         /\ Text(item)[3 * LineCount(item) + 1] = CR
         /\ Text(item)[3 * LineCount(item) + 2] = LF
<1> DEFINE ls == <<item.line>> \o item.headers
           n == LineCount(item)
           l == Lines(ls)
<1>1. item.line \in Byte /\ item.headers \in Seq(Byte) /\ CR \in Byte /\ LF \in Byte
  BY SeqMonotonic, HttpAssumption DEF Requests
<1>2. n \in Nat \ {0} /\ n = Len(item.headers) + 1 /\ Len(item.headers) \in Nat
  BY <1>1 DEF LineCount
<1>3. /\ ls \in Seq(Byte) /\ Len(ls) = n
      /\ \A k \in 0..(n - 1) : ls[k + 1] = LineAt(item, k)
  <2> DEFINE x == <<item.line>>
             h == item.headers
  <2>1. x \in Seq(Byte) /\ Len(x) = 1 /\ x[1] = item.line /\ h \in Seq(Byte) /\ h = item.headers
    BY <1>1
  <2> HIDE DEF x, h
  <2>2. /\ x \o h \in Seq(Byte) /\ Len(x \o h) = Len(x) + Len(h)
        /\ \A i \in 1..(Len(x) + Len(h)) : (x \o h)[i] = IF i <= Len(x) THEN x[i] ELSE h[i - Len(x)]
    BY <2>1, ConcatProperties
  <2> DEFINE e == x \o h
  <2>3. /\ e \in Seq(Byte) /\ Len(e) = 1 + Len(h)
        /\ \A i \in 1..(1 + Len(h)) : e[i] = IF i <= 1 THEN x[i] ELSE h[i - 1]
    BY <2>1, <2>2
  <2>4. ls = e
    BY DEF x, h
  <2> HIDE DEF e, ls, n
  <2>5. ASSUME NEW k \in 0..(n - 1) PROVE e[k + 1] = LineAt(item, k)
    <3>1. k + 1 \in 1..(1 + Len(h))
      BY <1>2, <2>1
    <3>2. CASE k = 0
      BY <3>1, <3>2, <2>1, <2>3 DEF LineAt
    <3>3. CASE k # 0
      <4>1. ~(k + 1 <= 1) /\ (k + 1) - 1 = k
        BY <3>1, <3>3
      <4> QED BY <4>1, <3>1, <3>3, <2>1, <2>3 DEF LineAt
    <3> QED BY <3>2, <3>3
  <2> QED BY <1>2, <2>1, <2>3, <2>4, <2>5
<1> HIDE DEF ls, n
<1>4. /\ l \in Seq(Byte) /\ Len(l) = 3 * n
      /\ \A k \in 0..(n - 1) : l[3 * k + 1] = LineAt(item, k) /\ l[3 * k + 2] = CR /\ l[3 * k + 3] = LF
  <2>1. l = [i \in 1..3 * n |-> CASE i % 3 = 1 -> ls[(i + 2) \div 3] [] i % 3 = 2 -> CR [] OTHER -> LF]
    BY <1>3 DEF Lines
  <2>2. ASSUME NEW i \in 1..3 * n
        PROVE  /\ i % 3 = 1 => l[i] = ls[(i + 2) \div 3]
               /\ i % 3 = 2 => l[i] = CR
               /\ i % 3 # 1 /\ i % 3 # 2 => l[i] = LF
    BY <2>1
  <2>3. l \in [1..3 * n -> Byte]
    <3>1. ASSUME NEW i \in 1..3 * n PROVE l[i] \in Byte
      <4>1. CASE i % 3 = 1
        <5>1. (i + 2) \div 3 \in 1..n
          BY <1>2, <4>1
        <5> QED BY <1>3, <2>2, <4>1, <5>1
      <4>2. CASE i % 3 # 1
        BY <1>1, <2>2, <4>2
      <4> QED BY <4>1, <4>2
    <3>2. l = [i \in 1..3 * n |-> l[i]]
      BY <2>1
    <3> QED BY <3>1, <3>2
  <2> HIDE DEF l
  <2>4. 3 * n \in Nat
    BY <1>2
  <2>5. l \in Seq(Byte) /\ Len(l) = 3 * n
    BY <2>3, <2>4, VecIsSeq
  <2>6. ASSUME NEW k \in 0..(n - 1)
        PROVE  l[3 * k + 1] = LineAt(item, k) /\ l[3 * k + 2] = CR /\ l[3 * k + 3] = LF
    <3>1. /\ 3 * k + 1 \in 1..3 * n /\ (3 * k + 1) % 3 = 1 /\ ((3 * k + 1) + 2) \div 3 = k + 1
          /\ 3 * k + 2 \in 1..3 * n /\ (3 * k + 2) % 3 = 2
          /\ 3 * k + 3 \in 1..3 * n /\ (3 * k + 3) % 3 = 0
      BY <1>2
    <3>2. l[3 * k + 1] = ls[k + 1]
      BY <2>2, <3>1
    <3> QED BY <1>3, <2>2, <3>1, <3>2
  <2> QED BY <2>5, <2>6
<1> HIDE DEF l
<1>5. CRLF \in Seq(Byte) /\ Len(CRLF) = 2 /\ CRLF[1] = CR /\ CRLF[2] = LF
  BY <1>1 DEF CRLF
<1> DEFINE e == l \o CRLF
<1>6. /\ e \in Seq(Byte) /\ Len(e) = Len(l) + Len(CRLF)
      /\ \A i \in 1..(Len(l) + Len(CRLF)) : e[i] = IF i <= Len(l) THEN l[i] ELSE CRLF[i - Len(l)]
  BY <1>4, <1>5, ConcatProperties
<1> HIDE DEF e
<1>7. Text(item) = e
  <2>1. Text(item) = (l \o CRLF) \o <<>>
    BY DEF Text, l, ls
  <2>2. e \o <<>> = e
    BY <1>6, ConcatEmptySeq
  <2> QED BY <2>1, <2>2 DEF e
<1>8. Len(e) = 3 * n + 2 /\ \A i \in 1..3 * n : e[i] = l[i]
  <2>1. Len(l) \in Nat /\ \A i \in 1..3 * n : i \in 1..(Len(l) + Len(CRLF)) /\ i <= Len(l)
    BY <1>2, <1>4, <1>5
  <2> QED BY <1>4, <1>5, <1>6, <2>1
<1>9. e[3 * n + 1] = CR /\ e[3 * n + 2] = LF
  <2>1. /\ 3 * n + 1 \in 1..(Len(l) + Len(CRLF)) /\ ~(3 * n + 1 <= Len(l)) /\ (3 * n + 1) - Len(l) = 1
        /\ 3 * n + 2 \in 1..(Len(l) + Len(CRLF)) /\ ~(3 * n + 2 <= Len(l)) /\ (3 * n + 2) - Len(l) = 2
    BY <1>2, <1>4, <1>5
  <2> QED BY <1>5, <1>6, <2>1
<1>10. ASSUME NEW k \in 0..(n - 1)
       PROVE  e[3 * k + 1] = LineAt(item, k) /\ e[3 * k + 2] = CR /\ e[3 * k + 3] = LF
  <2>1. 3 * k + 1 \in 1..3 * n /\ 3 * k + 2 \in 1..3 * n /\ 3 * k + 3 \in 1..3 * n
    BY <1>2
  <2> QED BY <1>4, <1>8, <2>1
<1> QED BY <1>2, <1>6, <1>7, <1>8, <1>9, <1>10 DEF n

\* No line is a CR.
LEMMA LineIsNoCR ==
  ASSUME NEW item \in Requests, NEW k \in 0..(LineCount(item) - 1)
  PROVE  /\ LineAt(item, k) # CR
         /\ k > 0 => LineAt(item, k)[1] = "header"
         /\ k = 0 => LineAt(item, k)[1] = "line"
<1>1. Len(item.headers) \in Nat /\ LineCount(item) = Len(item.headers) + 1
  BY DEF Requests, LineCount
<1>2. CR[1] = "cr"
  BY DEF CR
<1>3. CASE k = 0
  <2>1. item.line[1] = "line"
    BY DEF Requests
  <2> QED BY <1>2, <1>3, <2>1 DEF LineAt
<1>4. CASE k # 0
  <2>1. k \in 1..Len(item.headers) /\ item.headers \in Seq({x \in Byte : x[1] = "header"})
    BY <1>1, <1>4 DEF Requests
  <2>2. item.headers[k] \in {x \in Byte : x[1] = "header"}
    BY <2>1, ElementOfSeq
  <2> QED BY <1>2, <1>4, <2>1, <2>2 DEF LineAt
<1> QED BY <1>3, <1>4

\* The buffer holds the front of what is pending; taking n bytes off it takes
\* them off what is pending.
LEMMA PendingBytes ==
  ASSUME NEW c \in Seq(Byte), NEW x \in Seq(Byte), NEW t \in Seq(Byte), NEW m \in 0..Len(t),
         c \o x = From(t, m + 1)
  PROVE  /\ Len(c) + Len(x) = Len(t) - m
         /\ \A i \in 1..Len(c) : c[i] = t[m + i]
         /\ \A n \in 0..Len(c) : From(c, n + 1) \o x = From(t, m + n + 1)
<1> DEFINE e == c \o x
           f == From(t, m + 1)
<1>1. /\ e \in Seq(Byte) /\ Len(e) = Len(c) + Len(x)
      /\ \A i \in 1..(Len(c) + Len(x)) : e[i] = IF i <= Len(c) THEN c[i] ELSE x[i - Len(c)]
  BY ConcatProperties
<1>2. f \in Seq(Byte) /\ Len(f) = Len(t) - m /\ \A i \in 1..(Len(t) - m) : f[i] = t[m + i]
  BY Cut DEF From
<1>3. e = f
  OBVIOUS
<1> HIDE DEF e, f
<1>4. Len(c) \in Nat /\ Len(x) \in Nat /\ Len(t) \in Nat /\ Len(c) + Len(x) = Len(t) - m
  <2>1. Len(c) \in Nat /\ Len(x) \in Nat /\ Len(t) \in Nat
    BY LenProperties
  <2>2. Len(e) = Len(c) + Len(x) /\ Len(e) = Len(t) - m
    BY <1>1, <1>2, <1>3, Zenon
  <2> QED BY <2>1, <2>2
<1>5. \A i \in 1..(Len(c) + Len(x)) : t[m + i] = IF i <= Len(c) THEN c[i] ELSE x[i - Len(c)]
  BY <1>1, <1>2, <1>3, <1>4
<1>6. ASSUME NEW i \in 1..Len(c) PROVE c[i] = t[m + i]
  <2>1. i \in 1..(Len(c) + Len(x)) /\ i <= Len(c)
    BY <1>4
  <2> QED BY <1>5, <2>1
<1>7. ASSUME NEW n \in 0..Len(c) PROVE From(c, n + 1) \o x = From(t, m + n + 1)
  <2> DEFINE d == From(c, n + 1)
             u == d \o x
             v == From(t, m + n + 1)
  <2>1. d \in Seq(Byte) /\ Len(d) = Len(c) - n /\ \A i \in 1..(Len(c) - n) : d[i] = c[n + i]
    BY Cut DEF From
  <2>2. m + n \in 0..Len(t)
    BY <1>4
  <2>3. v \in Seq(Byte) /\ Len(v) = Len(t) - (m + n) /\ \A i \in 1..(Len(t) - (m + n)) : v[i] = t[(m + n) + i]
    BY <2>2, Cut DEF From
  <2> HIDE DEF d, v
  <2>4. /\ u \in Seq(Byte) /\ Len(u) = Len(d) + Len(x)
        /\ \A i \in 1..(Len(d) + Len(x)) : u[i] = IF i <= Len(d) THEN d[i] ELSE x[i - Len(d)]
    BY <2>1, ConcatProperties
  <2> HIDE DEF u
  <2>5. Len(u) = Len(v)
    BY <1>4, <2>1, <2>3, <2>4
  <2>6. ASSUME NEW i \in 1..Len(u) PROVE u[i] = v[i]
    <3>1. /\ n + i \in 1..(Len(c) + Len(x)) /\ i \in 1..(Len(d) + Len(x))
          /\ i \in 1..(Len(t) - (m + n)) /\ m + (n + i) = (m + n) + i
      BY <1>4, <2>1, <2>4
    <3>2. v[i] = t[m + (n + i)]
      BY <2>3, <3>1
    <3>3. CASE i <= Len(d)
      <4>1. n + i <= Len(c) /\ i \in 1..(Len(c) - n)
        BY <1>4, <2>1, <3>3
      <4>2. u[i] = c[n + i]
        BY <2>1, <2>4, <3>1, <3>3, <4>1
      <4>3. t[m + (n + i)] = c[n + i]
        BY <1>5, <3>1, <4>1
      <4> QED BY <3>2, <4>2, <4>3
    <3>4. CASE ~(i <= Len(d))
      <4>1. ~(n + i <= Len(c)) /\ (n + i) - Len(c) = i - Len(d)
        BY <1>4, <2>1, <3>4
      <4>2. u[i] = x[i - Len(d)]
        BY <2>4, <3>1, <3>4
      <4>3. t[m + (n + i)] = x[(n + i) - Len(c)]
        BY <1>5, <3>1, <4>1
      <4> QED BY <3>2, <4>1, <4>2, <4>3
    <3> QED BY <3>3, <3>4
  <2>7. u = v
    BY <2>3, <2>4, <2>5, <2>6, SeqEqual
  <2> QED BY <2>7 DEF u, v, d
<1> QED BY <1>4, <1>6, <1>7

\* What findCRLF() and the line in front of it are when k lines of a request
\* have been parsed.
LEMMA LineInFront ==
  ASSUME NEW item \in Requests, item.body = <<>>, NEW b, WellFormed(b), NEW k \in 0..LineCount(item),
         Len(Content(b)) <= 3 * (LineCount(item) - k) + 2,
         \A i \in 1..Len(Content(b)) : Content(b)[i] = Text(item)[3 * k + i]
  PROVE  /\ k < LineCount(item) /\ Len(Content(b)) < 3 => Find(b, CRLF) = 0
         /\ k < LineCount(item) /\ Len(Content(b)) >= 3 =>
              Find(b, CRLF) = 2 /\ FirstLine(b) = <<LineAt(item, k)>>
         /\ k = LineCount(item) /\ Len(Content(b)) < 2 => Find(b, CRLF) = 0
         /\ k = LineCount(item) /\ Len(Content(b)) >= 2 =>
              Find(b, CRLF) = 1 /\ FirstLine(b) = <<>>
<1> DEFINE c == Content(b)
           t == Text(item)
           l == LineCount(item)
           at == Find(b, CRLF)
<1>1. c \in Seq(Byte) /\ Len(c) \in Nat
  BY ContentBytes
<1>2. /\ l \in Nat \ {0}
      /\ \A j \in 0..(l - 1) : t[3 * j + 1] = LineAt(item, j) /\ t[3 * j + 2] = CR /\ t[3 * j + 3] = LF
      /\ t[3 * l + 1] = CR /\ t[3 * l + 2] = LF
  BY TextBytes
<1>3. Len(c) <= 3 * (l - k) + 2 /\ k \in 0..l /\ l \in Nat
  BY <1>2
<1>4. /\ at \in 0..Len(c)
      /\ at = 0 => \A j \in 1..(Len(c) - 1) : ~HasCRLF(c, j)
      /\ at # 0 => /\ at + 1 <= Len(c)
                   /\ HasCRLF(c, at)
                   /\ \A j \in 1..(at - 1) : ~HasCRLF(c, j)
  BY FindCRLF
<1>5. \A i \in 1..Len(c) : c[i] = t[3 * k + i]
  OBVIOUS
<1>6. FirstLine(b) = SubSeq(c, 1, at - 1)
  BY DEF FirstLine
<1>7. k < l => k \in 0..(l - 1) /\ LineAt(item, k) # CR
  <2>1. k < l => k \in 0..(l - 1)
    BY <1>3
  <2> QED BY <2>1, LineIsNoCR
<1> HIDE DEF c, t, l, at
<1>11. ASSUME k < l, Len(c) < 3 PROVE at = 0
  <2> SUFFICES ASSUME at # 0 PROVE FALSE
    OBVIOUS
  <2>1. at = 1 /\ 1 \in 1..Len(c)
    BY <1>1, <1>4, <1>11
  <2>2. c[1] = t[3 * k + 1]
    BY <1>5, <2>1
  <2>3. t[3 * k + 1] = LineAt(item, k)
    BY <1>2, <1>7, <1>11
  <2>4. HasCRLF(c, 1)
    BY <1>4, <2>1
  <2> QED BY <1>7, <1>11, <2>2, <2>3, <2>4 DEF HasCRLF
<1>12. ASSUME k < l, Len(c) >= 3 PROVE at = 2 /\ FirstLine(b) = <<LineAt(item, k)>>
  <2>1. c[1] = t[3 * k + 1] /\ c[2] = t[3 * k + 2] /\ c[3] = t[3 * k + 3]
    <3>1. 1 \in 1..Len(c) /\ 2 \in 1..Len(c) /\ 3 \in 1..Len(c)
      BY <1>1, <1>12
    <3> QED BY <1>5, <3>1
  <2>2. c[1] = LineAt(item, k) /\ c[2] = CR /\ c[3] = LF
    BY <1>2, <1>7, <1>12, <2>1
  <2>3. HasCRLF(c, 2) /\ ~HasCRLF(c, 1)
    BY <1>7, <1>12, <2>2 DEF HasCRLF
  <2>4. at # 0
    <3>1. 2 \in 1..(Len(c) - 1)
      BY <1>1, <1>12
    <3> QED BY <1>4, <2>3, <3>1
  <2>5. at # 1
    BY <1>4, <2>3
  <2>6. ~(at > 2)
    <3>1. at > 2 => 2 \in 1..(at - 1)
      BY <1>1, <1>4
    <3> QED BY <1>4, <2>3, <2>4, <3>1
  <2>7. at = 2
    BY <1>1, <1>4, <2>4, <2>5, <2>6
  <2>8. FirstLine(b) = <<c[1]>>
    <3> DEFINE f == SubSeq(c, 1, 1)
    <3>1. 1 \in 0..Len(c)
      BY <1>1, <1>12
    <3>2. f \in Seq(Byte) /\ Len(f) = 1 /\ \A i \in 1..1 : f[i] = c[i]
      BY <1>1, <3>1, Cut
    <3> HIDE DEF f
    <3>3. f = <<c[1]>>
      BY <3>2
    <3>4. at - 1 = 1
      BY <2>7
    <3> QED BY <1>6, <3>3, <3>4 DEF f
  <2> QED BY <2>2, <2>7, <2>8
<1>13. ASSUME k = l, Len(c) < 2 PROVE at = 0
  BY <1>1, <1>4, <1>13
<1>14. ASSUME k = l, Len(c) >= 2 PROVE at = 1 /\ FirstLine(b) = <<>>
  <2>1. Len(c) = 2
    <3>1. 3 * (l - k) + 2 = 2
      BY <1>3, <1>14
    <3>2. Len(c) <= 2
      BY <1>3, <3>1, Zenon
    <3>3. \A n \in Nat : n <= 2 /\ n >= 2 => n = 2
      OBVIOUS
    <3> QED BY <1>1, <1>14, <3>2, <3>3, Zenon
  <2>2. c[1] = t[3 * k + 1] /\ c[2] = t[3 * k + 2]
    <3>1. 1 \in 1..Len(c) /\ 2 \in 1..Len(c)
      BY <2>1
    <3> QED BY <1>5, <3>1
  <2>3. HasCRLF(c, 1)
    BY <1>2, <1>14, <2>2 DEF HasCRLF
  <2>4. at = 1
    <3>1. 1 \in 1..(Len(c) - 1)
      BY <2>1
    <3> QED BY <1>4, <2>1, <2>3, <3>1
  <2>5. FirstLine(b) = <<>>
    <3>1. SubSeq(c, 1, 0) = <<>>
      BY SubSeqEmpty
    <3>2. at - 1 = 0
      BY <2>4
    <3> QED BY <1>6, <3>1, <3>2
  <2> QED BY <2>4, <2>5
<1> QED BY <1>11, <1>12, <1>13, <1>14 DEF c, t, l, at

\* The stream that is pending when k lines of a request have been parsed.
LEMMA PendingLines ==
  ASSUME NEW item \in Requests, item.body = <<>>, NEW c \in Seq(Byte), NEW x \in Seq(Byte),
         NEW k \in 0..LineCount(item), c \o x = From(Text(item), 3 * k + 1)
  PROVE  /\ Len(c) + Len(x) = 3 * (LineCount(item) - k) + 2
         /\ \A i \in 1..Len(c) : c[i] = Text(item)[3 * k + i]
         /\ \A n \in 0..Len(c) : From(c, n + 1) \o x = From(Text(item), 3 * k + n + 1)
<1> DEFINE t == Text(item)
           l == LineCount(item)
<1>1. l \in Nat \ {0} /\ t \in Seq(Byte) /\ Len(t) = 3 * l + 2
  BY TextBytes
<1>2. k \in 0..l /\ c \o x = From(t, 3 * k + 1)
  OBVIOUS
<1> HIDE DEF t, l
<1>3. 3 * k \in 0..Len(t) /\ Len(t) - 3 * k = 3 * (l - k) + 2
  BY <1>1, <1>2
<1>4. /\ Len(c) + Len(x) = Len(t) - 3 * k
      /\ \A i \in 1..Len(c) : c[i] = t[3 * k + i]
      /\ \A n \in 0..Len(c) : From(c, n + 1) \o x = From(t, 3 * k + n + 1)
  BY <1>1, <1>2, <1>3, PendingBytes, Zenon
<1> QED BY <1>3, <1>4, Zenon DEF t, l

\* Retrieving the first n bytes of the buffer.
LEMMA PendingAfterRetrieve ==
  ASSUME NEW item \in Requests, item.body = <<>>, NEW b, WellFormed(b), NEW x \in Seq(Byte),
         NEW k \in 0..LineCount(item), Content(b) \o x = From(Text(item), 3 * k + 1),
         NEW n \in 0..Len(Content(b))
  PROVE  /\ WellFormed(Retrieve(b, n))
         /\ Content(Retrieve(b, n)) \o x = From(Text(item), 3 * k + n + 1)
<1>1. WellFormed(Retrieve(b, n)) /\ Content(Retrieve(b, n)) = From(Content(b), n + 1)
  BY RetrieveTakesFront, Zenon DEF From
<1>2. Content(b) \in Seq(Byte)
  BY ContentBytes, Zenon
<1>3. From(Content(b), n + 1) \o x = From(Text(item), 3 * k + n + 1)
  BY <1>2, PendingLines, Zenon
<1> QED BY <1>1, <1>3, Zenon

\* The first line of a request gives the context its method, path and version.
LEMMA RequestLineParsed ==
  ASSUME NEW l, l[1] = "line", l[2] \in Methods, l[4] \in Versions
  PROVE  LET p == ProcessRequestLine(NewRequest, <<l>>)
         IN  /\ p.ok /\ ~p.abort
             /\ p.req = [method |-> l[2], path |-> l[3], version |-> l[4], headers |-> [f \in Fields |-> ""]]
<1> DEFINE line == <<l>>
           p == ProcessRequestLine(NewRequest, line)
           r == [method |-> SetMethod(NewRequest, l[2]), path |-> l[3], version |-> l[4],
                 headers |-> NewRequest.headers]
<1>1. line # <<>> /\ line[1] = l /\ Len(line) = 1
  OBVIOUS
<1>2. NewRequest.method = "kInvalid" /\ NewRequest.headers = [f \in Fields |-> ""]
  BY DEF NewRequest
<1> HIDE DEF line
<1>3. p = [ok |-> TRUE, req |-> r, abort |-> FALSE]
  BY <1>1, <1>2, Zenon DEF ProcessRequestLine, MayHaveMethod
<1>4. SetMethod(NewRequest, l[2]) = l[2]
  BY DEF SetMethod
<1>5. r = [method |-> l[2], path |-> l[3], version |-> l[4], headers |-> [f \in Fields |-> ""]]
  BY <1>2, <1>4, Zenon
<1> HIDE DEF p, r
<1>6. p.ok /\ ~p.abort /\ p.req = r
  BY <1>3
<1> QED BY <1>5, <1>6, Zenon DEF p, line

\* A method the server does not know changes nothing.
LEMMA RequestLineRefused ==
  ASSUME NEW l, l[2] \notin Methods
  PROVE  LET p == ProcessRequestLine(NewRequest, <<l>>)
         IN  ~p.ok /\ ~p.abort /\ p.req = NewRequest
<1> DEFINE line == <<l>>
           p == ProcessRequestLine(NewRequest, line)
<1>1. line # <<>> /\ line[1] = l
  OBVIOUS
<1>2. NewRequest.method = "kInvalid"
  BY DEF NewRequest
<1> HIDE DEF line
<1>3. p = [ok |-> FALSE, req |-> NewRequest, abort |-> FALSE]
  BY <1>1, <1>2, Zenon DEF ProcessRequestLine, MayHaveMethod
<1> QED BY <1>3 DEF line

\* One more header: it counts if it has the name.
LEMMA NextHeader ==
  ASSUME NEW h, NEW j \in Nat, NEW f
  PROVE  /\ ValueOf(h, 0, f) = ""
         /\ h[j + 1][2] = f => ValueOf(h, j + 1, f) = h[j + 1][3]
         /\ h[j + 1][2] # f => ValueOf(h, j + 1, f) = ValueOf(h, j, f)
<1> DEFINE s(n) == {i \in 1..n : h[i][2] = f}
           last(n) == CHOOSE i \in s(n) : \A m \in s(n) : m <= i
<1>1. \A n : ValueOf(h, n, f) = IF s(n) = {} THEN "" ELSE h[last(n)][3]
  BY Zenon DEF ValueOf
<1>2. ValueOf(h, 0, f) = ""
  <2>1. s(0) = {}
    OBVIOUS
  <2> HIDE DEF s, last
  <2> QED BY <1>1, <2>1, Zenon
<1>3. ASSUME h[j + 1][2] = f PROVE ValueOf(h, j + 1, f) = h[j + 1][3]
  <2>1. j + 1 \in s(j + 1) /\ \A m \in s(j + 1) : m \in Nat /\ m <= j + 1
    BY <1>3
  <2>2. last(j + 1) \in s(j + 1) /\ \A m \in s(j + 1) : m <= last(j + 1)
    <3>1. \E i \in s(j + 1) : \A m \in s(j + 1) : m <= i
      BY <2>1
    <3> HIDE DEF s
    <3> QED BY <3>1, Zenon DEF last
  <2> HIDE DEF s, last
  <2>3. last(j + 1) <= j + 1 /\ j + 1 <= last(j + 1) /\ last(j + 1) \in Nat
    BY <2>1, <2>2
  <2>4. last(j + 1) = j + 1
    BY <2>3
  <2>5. s(j + 1) # {}
    BY <2>1
  <2> QED BY <1>1, <2>4, <2>5, Zenon
<1>4. ASSUME h[j + 1][2] # f PROVE ValueOf(h, j + 1, f) = ValueOf(h, j, f)
  <2>1. ASSUME NEW i PROVE i \in s(j + 1) <=> i \in s(j)
    BY <1>4
  <2>2. s(j + 1) = s(j)
    <3> HIDE DEF s
    <3> QED BY <2>1
  <2> HIDE DEF s
  <2>3. last(j + 1) = last(j)
    BY <2>2, Zenon
  <2> HIDE DEF last
  <2> QED BY <1>1, <2>2, <2>3, Zenon
<1> QED BY <1>2, <1>3, <1>4, Zenon

\* addHeader() on the request that has k - 1 headers.
LEMMA HeaderAdded ==
  ASSUME NEW item, NEW k \in Nat \ {0}
  PROVE  AddHeader(RequestAt(item, k), item.headers[k]) = RequestAt(item, k + 1)
<1> DEFINE h == item.headers
           r == RequestAt(item, k)
           g == [f \in Fields |-> ValueOf(h, k - 1, f)]
           e == [g EXCEPT ![h[k][2]] = h[k][3]]
<1>1. r = [method |-> item.line[2], path |-> item.line[3], version |-> item.line[4], headers |-> g]
  BY DEF RequestAt
<1>2. AddHeader(r, h[k]) = [r EXCEPT !.headers = [r.headers EXCEPT ![h[k][2]] = h[k][3]]]
  BY DEF AddHeader
<1>3. ASSUME NEW f \in Fields PROVE e[f] = ValueOf(h, k, f)
  <2>1. k - 1 \in Nat /\ (k - 1) + 1 = k
    OBVIOUS
  <2>2. /\ h[(k - 1) + 1][2] = f => ValueOf(h, (k - 1) + 1, f) = h[(k - 1) + 1][3]
        /\ h[(k - 1) + 1][2] # f => ValueOf(h, (k - 1) + 1, f) = ValueOf(h, k - 1, f)
    BY <2>1, NextHeader, Zenon
  <2>3. /\ h[k][2] = f => ValueOf(h, k, f) = h[k][3]
        /\ h[k][2] # f => ValueOf(h, k, f) = ValueOf(h, k - 1, f)
    BY <2>1, <2>2, Zenon
  <2>4. e[f] = IF f = h[k][2] THEN h[k][3] ELSE ValueOf(h, k - 1, f)
    <3>1. DOMAIN g = Fields /\ g[f] = ValueOf(h, k - 1, f)
      OBVIOUS
    <3> HIDE DEF g
    <3> QED BY <3>1
  <2> QED BY <2>3, <2>4
<1>4. e = [f \in Fields |-> ValueOf(h, k, f)]
  <2>1. e = [f \in Fields |-> e[f]]
    OBVIOUS
  <2> QED BY <1>3, <2>1
<1> HIDE DEF e, g, r
<1>5. r.headers = g
  BY <1>1
<1>6. AddHeader(r, h[k]) = [r EXCEPT !.headers = e]
  BY <1>2, <1>5, Zenon DEF e
<1>7. [r EXCEPT !.headers = e] =
        [method |-> item.line[2], path |-> item.line[3], version |-> item.line[4], headers |-> e]
  BY <1>1
<1>8. (k + 1) - 1 = k
  OBVIOUS
<1>9. RequestAt(item, k + 1) = 
        [method |-> item.line[2], path |-> item.line[3], version |-> item.line[4], headers |-> e]
  BY <1>4, <1>8, Zenon DEF RequestAt
<1> QED BY <1>6, <1>7, <1>9, Zenon DEF r

\* The header in a line that is one.
LEMMA HeaderInLine ==
  ASSUME NEW h, h[1] = "header"
  PROVE  Colons(<<h>>) # {} /\ <<h>>[First(Colons(<<h>>))] = h
<1> DEFINE line == <<h>>
<1>1. Len(line) = 1 /\ line[1] = h
  OBVIOUS
<1>2. Colons(line) = {1}
  BY <1>1 DEF Colons
<1> HIDE DEF line
<1>3. First({1}) = 1
  <2>1. 1 \in {1} /\ \A i \in {1} : 1 <= i
    OBVIOUS
  <2>2. \A i \in {1} : i = 1
    OBVIOUS
  <2> QED BY <2>1, <2>2, Zenon DEF First
<1>4. Colons(line) # {} /\ line[First(Colons(line))] = h
  BY <1>1, <1>2, <1>3
<1> QED BY <1>4, Zenon DEF line

\* The context of a request that is being read expects a line.
LEMMA ContextFacts ==
  ASSUME NEW item, NEW k \in Nat
  PROVE  /\ ContextAt(item, k).state \in {"kExpectRequestLine", "kExpectHeaders"}
         /\ k = 0 => ContextAt(item, k).state = "kExpectRequestLine" /\ ContextAt(item, k).req = NewRequest
                     /\ ContextAt(item, k) = NewContext
         /\ k > 0 => ContextAt(item, k).state = "kExpectHeaders" /\ ContextAt(item, k).req = RequestAt(item, k)
                     /\ ContextAt(item, k) = [state |-> "kExpectHeaders", req |-> RequestAt(item, k)]
<1>1. CASE k = 0
  BY <1>1 DEF ContextAt, NewContext
<1>2. CASE k > 0
  BY <1>2 DEF ContextAt
<1> QED BY <1>1, <1>2

\* The passes, when k lines of a request have been parsed: the request line,
LEMMA PassAtRequestLine ==
  ASSUME NEW item \in Requests, NEW b, Find(b, CRLF) = 2, FirstLine(b) = <<item.line>>,
         item.line[2] \in Methods, item.line[4] \in Versions
  PROVE  ParseLine(b, NewContext) = Pass(TRUE, TRUE, Retrieve(b, 3), ContextAt(item, 1), "none")
<1> DEFINE p == ProcessRequestLine(NewRequest, <<item.line>>)
<1>1. item.line[1] = "line"
  BY DEF Requests
<1>2. p.ok /\ ~p.abort
  BY <1>1, RequestLineParsed, Zenon
<1>3. p.req = [method |-> item.line[2], path |-> item.line[3], version |-> item.line[4],
               headers |-> [f \in Fields |-> ""]]
  BY <1>1, RequestLineParsed, Zenon
<1>4. \A f \in Fields : ValueOf(item.headers, 1 - 1, f) = ""
  <2>1. 0 \in Nat /\ 1 - 1 = 0
    OBVIOUS
  <2> QED BY <2>1, NextHeader, Zenon
<1>5. [f \in Fields |-> ValueOf(item.headers, 1 - 1, f)] = [f \in Fields |-> ""]
  BY <1>4, Zenon
<1>6. p.req = RequestAt(item, 1)
  BY <1>3, <1>5, Zenon DEF RequestAt
<1>7. NewContext.state = "kExpectRequestLine" /\ NewContext.req = NewRequest
  BY DEF NewContext
<1>8. Find(b, CRLF) # 0 /\ Find(b, CRLF) + 1 = 3
  OBVIOUS
<1> HIDE DEF p
<1>9. ContextAt(item, 1) = [state |-> "kExpectHeaders", req |-> p.req]
  BY <1>6, ContextFacts
<1>10. ParseLine(b, NewContext) =
         IF p.abort THEN Pass(FALSE, TRUE, b, NewContext, "method_assert")
         ELSE IF p.ok THEN Pass(TRUE, TRUE, Retrieve(b, Find(b, CRLF) + 1),
                                [state |-> "kExpectHeaders", req |-> p.req], "none")
         ELSE Pass(FALSE, FALSE, b, [NewContext EXCEPT !.req = p.req], "none")
  BY <1>7, <1>8, PassOnRequestLine, Zenon DEF p
<1> QED BY <1>2, <1>8, <1>9, <1>10, Zenon

\* no line at all,
LEMMA PassWithoutCRLF ==
  ASSUME NEW item, NEW k \in Nat, NEW b, Find(b, CRLF) = 0
  PROVE  ParseLine(b, ContextAt(item, k)) = Pass(FALSE, TRUE, b, ContextAt(item, k), "none")
<1> DEFINE c == ContextAt(item, k)
<1>1. c.state \in {"kExpectRequestLine", "kExpectHeaders"}
  BY ContextFacts
<1> HIDE DEF c
<1>2. ParseLine(b, c) = Pass(FALSE, TRUE, b, c, "none")
  BY <1>1, Zenon DEF ParseLine
<1> QED BY <1>2, Zenon DEF c

\* a request line that is refused,
LEMMA PassAtBadMethod ==
  ASSUME NEW item \in Requests, NEW b, Find(b, CRLF) = 2, FirstLine(b) = <<item.line>>,
         item.line[2] \notin Methods
  PROVE  ParseLine(b, NewContext) = Pass(FALSE, FALSE, b, NewContext, "none")
<1> DEFINE p == ProcessRequestLine(NewRequest, <<item.line>>)
<1>2. ~p.ok /\ ~p.abort /\ p.req = NewRequest
  BY RequestLineRefused, Zenon
<1>7. NewContext.state = "kExpectRequestLine" /\ NewContext.req = NewRequest
  BY DEF NewContext
<1>8. Find(b, CRLF) # 0
  OBVIOUS
<1> HIDE DEF p
<1>9. [NewContext EXCEPT !.req = NewRequest] = NewContext
  BY DEF NewContext
<1>10. ParseLine(b, NewContext) =
         IF p.abort THEN Pass(FALSE, TRUE, b, NewContext, "method_assert")
         ELSE IF p.ok THEN Pass(TRUE, TRUE, Retrieve(b, Find(b, CRLF) + 1),
                                [state |-> "kExpectHeaders", req |-> p.req], "none")
         ELSE Pass(FALSE, FALSE, b, [NewContext EXCEPT !.req = p.req], "none")
  BY <1>7, <1>8, PassOnRequestLine, Zenon DEF p
<1> QED BY <1>2, <1>9, <1>10, Zenon

\* a header,
LEMMA PassAtHeader ==
  ASSUME NEW item, NEW k \in Nat \ {0}, NEW b, Find(b, CRLF) = 2,
         FirstLine(b) = <<item.headers[k]>>, item.headers[k][1] = "header"
  PROVE  ParseLine(b, ContextAt(item, k)) =
           Pass(TRUE, TRUE, Retrieve(b, 3), ContextAt(item, k + 1), "none")
<1> DEFINE c == ContextAt(item, k)
           line == FirstLine(b)
           r == RequestAt(item, k + 1)
<1>1. c.state = "kExpectHeaders" /\ c.req = RequestAt(item, k)
      /\ c = [state |-> "kExpectHeaders", req |-> RequestAt(item, k)]
  BY ContextFacts
<1>2. Colons(line) # {} /\ line[First(Colons(line))] = item.headers[k]
  BY HeaderInLine, Zenon
<1>3. Find(b, CRLF) # 0 /\ Find(b, CRLF) + 1 = 3
  OBVIOUS
<1>4. AddHeader(c.req, line[First(Colons(line))]) = r
  BY <1>1, <1>2, HeaderAdded, Zenon
<1>5. ContextAt(item, k + 1) = [state |-> "kExpectHeaders", req |-> r]
  <2>1. k + 1 \in Nat /\ k + 1 > 0
    OBVIOUS
  <2> QED BY <2>1, ContextFacts
<1> HIDE DEF c, line, r
<1>6. [c EXCEPT !.req = r] = ContextAt(item, k + 1)
  BY <1>1, <1>5
<1>7. ParseLine(b, c) =
        IF Colons(line) # {}
        THEN Pass(TRUE, TRUE, Retrieve(b, Find(b, CRLF) + 1),
                  [c EXCEPT !.req = AddHeader(c.req, line[First(Colons(line))])], "none")
        ELSE Pass(FALSE, TRUE, Retrieve(b, Find(b, CRLF) + 1), [c EXCEPT !.state = "kGotAll"], "none")
  BY <1>1, <1>3, PassOnHeader, Zenon DEF line
<1> QED BY <1>2, <1>3, <1>4, <1>6, <1>7, Zenon DEF c

\* and the empty line behind the headers.
LEMMA PassAtEmptyLine ==
  ASSUME NEW item, NEW k \in Nat \ {0}, NEW b, Find(b, CRLF) = 1, FirstLine(b) = <<>>
  PROVE  ParseLine(b, ContextAt(item, k)) =
           Pass(FALSE, TRUE, Retrieve(b, 2), [state |-> "kGotAll", req |-> RequestAt(item, k)], "none")
<1> DEFINE c == ContextAt(item, k)
           line == FirstLine(b)
<1>1. c.state = "kExpectHeaders" /\ c = [state |-> "kExpectHeaders", req |-> RequestAt(item, k)]
  BY ContextFacts
<1>2. Colons(line) = {}
  BY DEF Colons
<1>3. Find(b, CRLF) # 0 /\ Find(b, CRLF) + 1 = 2
  OBVIOUS
<1> HIDE DEF c, line
<1>6. [c EXCEPT !.state = "kGotAll"] = [state |-> "kGotAll", req |-> RequestAt(item, k)]
  BY <1>1
<1>7. ParseLine(b, c) =
        IF Colons(line) # {}
        THEN Pass(TRUE, TRUE, Retrieve(b, Find(b, CRLF) + 1),
                  [c EXCEPT !.req = AddHeader(c.req, line[First(Colons(line))])], "none")
        ELSE Pass(FALSE, TRUE, Retrieve(b, Find(b, CRLF) + 1), [c EXCEPT !.state = "kGotAll"], "none")
  BY <1>1, <1>3, PassOnHeader, Zenon DEF line
<1> QED BY <1>2, <1>3, <1>6, <1>7, Zenon DEF c

\* The next pass, when k lines of a request have been parsed.
Waits(item, k, b) ==
  /\ Len(Content(b)) < NeedOf(item, k)
  /\ ParseLine(b, ContextAt(item, k)) = Pass(FALSE, TRUE, b, ContextAt(item, k), "none")
Refuses(item, k, b) ==
  /\ k = 0 /\ Len(Content(b)) >= 3 /\ item.line[2] \notin Methods
  /\ ParseLine(b, ContextAt(item, k)) = Pass(FALSE, FALSE, b, NewContext, "none")
Takes(item, k, b, x) ==
  LET r == Retrieve(b, 3) IN
  /\ k < LineCount(item) /\ item.line[2] \in Methods
  /\ ParseLine(b, ContextAt(item, k)) = Pass(TRUE, TRUE, r, ContextAt(item, k + 1), "none")
  /\ Content(r) \o x = From(Text(item), 3 * (k + 1) + 1)
Completes(item, k, b, x) ==
  LET r == Retrieve(b, 2) IN
  /\ k = LineCount(item) /\ item.line[2] \in Methods
  /\ ParseLine(b, ContextAt(item, k)) =
       Pass(FALSE, TRUE, r, [state |-> "kGotAll", req |-> RequestAt(item, k)], "none")
  /\ Content(r) \o x = <<>>

LEMMA NextPass ==
  ASSUME NEW item \in Requests, item.body = <<>>, item.line[2] \in Methods => item.line[4] \in Versions,
         NEW b, WellFormed(b), NEW x \in Seq(Byte), NEW k \in 0..LineCount(item),
         k > 0 => item.line[2] \in Methods,
         Content(b) \o x = From(Text(item), 3 * k + 1)
  PROVE  Waits(item, k, b) \/ Refuses(item, k, b) \/ Takes(item, k, b, x) \/ Completes(item, k, b, x)
<1> DEFINE n == Len(Content(b))
           l == LineCount(item)
<1>1. Content(b) \in Seq(Byte)
  BY ContentBytes, Zenon
<1>2. /\ n + Len(x) = 3 * (l - k) + 2
      /\ \A i \in 1..n : Content(b)[i] = Text(item)[3 * k + i]
  BY <1>1, PendingLines, Zenon
<1>3. l \in Nat \ {0} /\ k \in 0..l /\ n \in Nat /\ Len(x) \in Nat
  <2>1. l \in Nat \ {0} /\ k \in 0..l
    BY TextBytes
  <2> QED BY <2>1, <1>1, LenProperties
<1>4. n <= 3 * (l - k) + 2
  <2> HIDE DEF n, l
  <2>1. \A i, j, m \in Nat : i + j = m => i <= m
    OBVIOUS
  <2>2. 3 * (l - k) + 2 \in Nat
    <3>1. \A i \in Nat : \A j \in 0..i : 3 * (i - j) + 2 \in Nat
      OBVIOUS
    <3> QED BY <1>3, <3>1, Zenon
  <2> QED BY <1>2, <1>3, <2>1, <2>2, Zenon
<1>5. /\ k < l /\ n < 3 => Find(b, CRLF) = 0
      /\ k < l /\ n >= 3 => Find(b, CRLF) = 2 /\ FirstLine(b) = <<LineAt(item, k)>>
      /\ k = l /\ n < 2 => Find(b, CRLF) = 0
      /\ k = l /\ n >= 2 => Find(b, CRLF) = 1 /\ FirstLine(b) = <<>>
  BY <1>2, <1>4, LineInFront, Zenon
<1>6. ContextAt(item, k).state \in {"kExpectRequestLine", "kExpectHeaders"} /\ k \in Nat
  <2>1. \A i \in Nat : \A j \in 0..i : j \in Nat
    OBVIOUS
  <2> QED BY <1>3, <2>1, ContextFacts, Zenon
<1>7. (k < l /\ n < 3) \/ (k = l /\ n < 2) \/ (k < l /\ n >= 3) \/ (k = l /\ n >= 2)
  <2>1. \A i \in Nat : \A j \in 0..i : j < i \/ j = i
    OBVIOUS
  <2>3. k < l \/ k = l
    BY <1>3, <2>1, Zenon
  <2>2. \A i \in Nat : (i < 3 \/ i >= 3) /\ (i < 2 \/ i >= 2)
    OBVIOUS
  <2>4. (n < 3 \/ n >= 3) /\ (n < 2 \/ n >= 2)
    BY <1>3, <2>2, Zenon
  <2> QED BY <2>3, <2>4, Zenon
<1>8. CASE (k < l /\ n < 3) \/ (k = l /\ n < 2)
  <2>1. Find(b, CRLF) = 0
    BY <1>5, <1>8, Zenon
  <2>2. ParseLine(b, ContextAt(item, k)) = Pass(FALSE, TRUE, b, ContextAt(item, k), "none")
    BY <1>6, <2>1, PassWithoutCRLF, Zenon
  <2>3. n < NeedOf(item, k)
    <3>1. k = l => ~(k < l)
      <4>1. \A i \in Nat : ~(i < i)
        OBVIOUS
      <4> QED BY <1>6, <4>1, Zenon
    <3> QED BY <1>8, <3>1, Zenon DEF NeedOf
  <2> QED BY <2>2, <2>3, Zenon DEF Waits
<1>9. CASE k < l /\ n >= 3
  <2>1. Find(b, CRLF) = 2 /\ FirstLine(b) = <<LineAt(item, k)>>
    BY <1>5, <1>9, Zenon
  <2>2. 3 \in 0..n
    <3> HIDE DEF n
    <3> QED BY <1>3, <1>9
  <2>3. Content(Retrieve(b, 3)) \o x = From(Text(item), 3 * k + 3 + 1)
    BY <2>2, PendingAfterRetrieve, Zenon
  <2>4. 3 * k + 3 + 1 = 3 * (k + 1) + 1
    <3>1. \A i \in Nat : 3 * i + 3 + 1 = 3 * (i + 1) + 1
      OBVIOUS
    <3> QED BY <1>6, <3>1, Zenon
  <2>5. Content(Retrieve(b, 3)) \o x = From(Text(item), 3 * (k + 1) + 1)
    BY <2>3, <2>4, Zenon
  <2>6. CASE k = 0
    <3>1. LineAt(item, k) = item.line
      BY <2>6, Zenon DEF LineAt
    <3>2. ContextAt(item, k) = NewContext
      BY <1>6, <2>6, ContextFacts, Zenon
    <3>3. CASE item.line[2] \in Methods
      <4>1. ParseLine(b, NewContext) = Pass(TRUE, TRUE, Retrieve(b, 3), ContextAt(item, 1), "none")
        BY <2>1, <3>1, <3>3, PassAtRequestLine, Zenon
      <4>2. k + 1 = 1
        BY <2>6
      <4> QED BY <1>9, <2>5, <3>2, <3>3, <4>1, <4>2, Zenon DEF Takes
    <3>4. CASE item.line[2] \notin Methods
      <4>1. ParseLine(b, NewContext) = Pass(FALSE, FALSE, b, NewContext, "none")
        BY <2>1, <3>1, <3>4, PassAtBadMethod, Zenon
      <4> QED BY <1>9, <2>6, <3>2, <3>4, <4>1, Zenon DEF Refuses
    <3> QED BY <3>3, <3>4
  <2>7. CASE k # 0
    <3>1. k > 0 /\ k \in Nat \ {0} /\ k \in 0..(l - 1)
      <4> HIDE DEF n, l
      <4>1. \A i \in Nat : \A j \in 0..i : j # 0 /\ j < i => j > 0 /\ j \in Nat \ {0} /\ j \in 0..(i - 1)
        OBVIOUS
      <4> QED BY <1>3, <1>9, <2>7, <4>1, Zenon
    <3>2. LineAt(item, k) = item.headers[k]
      BY <2>7, Zenon DEF LineAt
    <3>3. item.headers[k][1] = "header"
      BY <3>1, <3>2, LineIsNoCR, Zenon
    <3>4. ParseLine(b, ContextAt(item, k)) = Pass(TRUE, TRUE, Retrieve(b, 3), ContextAt(item, k + 1), "none")
      BY <2>1, <3>1, <3>2, <3>3, PassAtHeader, Zenon
    <3> QED BY <1>9, <2>5, <3>1, <3>4, Zenon DEF Takes
  <2> QED BY <2>6, <2>7
<1>10. CASE k = l /\ n >= 2
  <2>1. Find(b, CRLF) = 1 /\ FirstLine(b) = <<>>
    BY <1>5, <1>10, Zenon
  <2>2. 2 \in 0..n
    <3> HIDE DEF n
    <3> QED BY <1>3, <1>10
  <2>3. Content(Retrieve(b, 2)) \o x = From(Text(item), 3 * k + 2 + 1)
    BY <2>2, PendingAfterRetrieve, Zenon
  <2>4. From(Text(item), 3 * k + 2 + 1) = <<>>
    <3> DEFINE t == Text(item)
    <3>1. t \in Seq(Byte) /\ Len(t) = 3 * l + 2
      BY TextBytes, Zenon
    <3>2. Len(t) = 3 * k + 2
      BY <1>10, <3>1, Zenon
    <3> HIDE DEF t
    <3>3. SubSeq(t, Len(t) + 1, Len(t)) = <<>>
      <4>1. Len(t) \in Nat
        BY <3>1, LenProperties, Zenon
      <4>2. \A i \in Nat : i + 1 \in Int /\ i \in Int /\ i + 1 > i
        OBVIOUS
      <4>3. Len(t) + 1 \in Int /\ Len(t) \in Int /\ Len(t) + 1 > Len(t)
        BY <4>1, <4>2, Zenon
      <4> QED BY <4>3, SubSeqEmpty, Zenon
    <3> QED BY <3>2, <3>3, Zenon DEF From, t
  <2>5. k > 0 /\ k \in Nat \ {0}
    <3>1. \A i \in Nat \ {0} : i > 0
      OBVIOUS
    <3> QED BY <1>3, <1>10, <3>1, Zenon
  <2>6. ParseLine(b, ContextAt(item, k)) =
          Pass(FALSE, TRUE, Retrieve(b, 2), [state |-> "kGotAll", req |-> RequestAt(item, k)], "none")
    BY <2>1, <2>5, PassAtEmptyLine, Zenon
  <2> QED BY <1>10, <2>3, <2>4, <2>5, <2>6, Zenon DEF Completes
<1> QED BY <1>7, <1>8, <1>9, <1>10, Zenon

\* What the answer to a parsed request is.
LEMMA RightAnswer ==
  ASSUME NEW item \in Requests
  PROVE  /\ item.line[2] \in Methods => Response(RequestAt(item, LineCount(item))) = Expected(item)
         /\ item.line[2] \notin Methods => Expected(item) = BadRequest
<1> DEFINE r == RequestAt(item, LineCount(item))
<1>1. LineCount(item) - 1 = Len(item.headers)
  <2>1. Len(item.headers) \in Nat
    BY DEF Requests
  <2> QED BY <2>1 DEF LineCount
<1>2. /\ r.headers = [f \in Fields |-> ValueOf(item.headers, LineCount(item) - 1, f)]
      /\ r.path = item.line[3] /\ r.version = item.line[4]
  BY DEF RequestAt
<1>3. "Connection" \in Fields
  BY DEF Fields
<1> HIDE DEF r
<1>4. r.headers["Connection"] = ConnectionOf(item)
  <2> DEFINE g == [f \in Fields |-> ValueOf(item.headers, LineCount(item) - 1, f)]
  <2>1. g["Connection"] = ValueOf(item.headers, LineCount(item) - 1, "Connection")
    BY <1>3, Zenon
  <2> HIDE DEF g
  <2>2. r.headers = g
    BY <1>2, Zenon DEF g
  <2> QED BY <1>1, <2>1, <2>2, Zenon DEF ConnectionOf
<1>5. ASSUME item.line[2] \in Methods PROVE Response(r) = Expected(item)
  <2>1. CASE item.line[3] \notin Pages
    BY <1>2, <1>5, <2>1, Zenon DEF Response, Expected
  <2>2. CASE item.line[3] \in Pages
    <3> DEFINE close == \/ ConnectionOf(item) = "close"
                        \/ item.line[4] = "HTTP/1.0" /\ ConnectionOf(item) # "Keep-Alive"
    <3>1. CloseAsked(r) = close
      <4> DEFINE v == ConnectionOf(item)
                 w == item.line[4]
      <4>1. r.headers["Connection"] = v /\ r.version = w
        BY <1>2, <1>4, Zenon
      <4>2. CloseAsked(r) = (v = "close" \/ (w = "HTTP/1.0" /\ v # "Keep-Alive"))
        <5> HIDE DEF v, w
        <5> QED BY <4>1, Zenon DEF CloseAsked
      <4> QED BY <4>2, Zenon
    <3>2. Response(r) = [status |-> 200, close |-> CloseAsked(r), length |-> ~CloseAsked(r)]
      BY <1>2, <2>2, Zenon DEF Response
    <3>3. Expected(item) = [status |-> 200, close |-> close, length |-> ~close]
      BY <1>5, <2>2, Zenon DEF Expected
    <3> HIDE DEF close
    <3> QED BY <3>1, <3>2, <3>3, Zenon
  <2> QED BY <2>1, <2>2
<1>6. ASSUME item.line[2] \notin Methods PROVE Expected(item) = BadRequest
  BY <1>6, Zenon DEF Expected, BadRequest
<1> QED BY <1>5, <1>6, Zenon DEF r

\* One more answer.
LEMMA AnswersGrow ==
  ASSUME NEW reqs, NEW n \in Nat \ {0}
  PROVE  Append([i \in 1..(n - 1) |-> Expected(reqs[i])], Expected(reqs[n]))
           = [i \in 1..n |-> Expected(reqs[i])]
<1> DEFINE S == {Expected(reqs[i]) : i \in 1..n}
           s == [i \in 1..(n - 1) |-> Expected(reqs[i])]
           e == Expected(reqs[n])
           u == [i \in 1..n |-> Expected(reqs[i])]
           a == Append(s, e)
<1>1. n - 1 \in Nat /\ (n - 1) + 1 = n /\ n \in 1..n /\ \A i \in 1..n : i \in 1..(n - 1) \/ i = n
  OBVIOUS
<1>2. s \in [1..(n - 1) -> S] /\ u \in [1..n -> S] /\ e \in S
  OBVIOUS
<1>3. (\A i \in 1..(n - 1) : s[i] = Expected(reqs[i])) /\ (\A i \in 1..n : u[i] = Expected(reqs[i]))
  OBVIOUS
<1> HIDE DEF s, u, S
<1>4. s \in Seq(S) /\ Len(s) = n - 1 /\ u \in Seq(S) /\ Len(u) = n
  BY <1>1, <1>2, LenProperties
<1>5. a \in Seq(S) /\ Len(a) = n /\ (\A i \in 1..(n - 1) : a[i] = s[i]) /\ a[n] = e
  BY <1>1, <1>2, <1>4, AppendProperties
<1> HIDE DEF a
<1>6. ASSUME NEW i \in 1..n PROVE a[i] = u[i]
  <2>1. CASE i \in 1..(n - 1)
    BY <1>3, <1>5, <2>1
  <2>2. CASE i = n
    BY <1>3, <1>5, <2>2
  <2> QED BY <1>1, <2>1, <2>2
<1>7. a = u
  BY <1>4, <1>5, <1>6, SeqEqual
<1> QED BY <1>7 DEF a, s, u

\* An orderly client has sent requests without bodies and with a version
\* the server knows.
LEMMA ItemIsOrderly ==
  ASSUME TypeOK, Orderly, sent > 0
  PROVE  /\ Item \in Requests /\ Item.body = <<>>
         /\ Item.line[2] \in Methods => Item.line[4] \in Versions
         /\ sent \in Nat \ {0} /\ LineCount(Item) \in Nat \ {0}
<1>1. sent \in 1..Len(script.reqs) /\ script.reqs \in Seq(Requests)
  BY DEF TypeOK
<1>2. Item \in Requests /\ Item \in Range(script.reqs)
  <2>1. DOMAIN script.reqs = 1..Len(script.reqs)
    BY <1>1, LenProperties
  <2> QED BY <1>1, <2>1, ElementOfSeq DEF Item, Range
<1>3. Item.body = <<>> /\ (Item.line[2] \in Methods => Item.line[4] \in Versions)
  BY <1>2, Zenon DEF Orderly
<1>4. sent \in Nat \ {0}
  BY <1>1
<1> QED BY <1>2, <1>3, <1>4, TextBytes, Zenon

\* The next pass over the request that is being read.
LEMMA PassOfItem ==
  ASSUME TypeOK, Orderly, sent > 0, NEW k \in 0..LineCount(Item), Parsed(k)
  PROVE  /\ k \in Nat /\ k + 1 > 0
         /\ Waits(Item, k, buf) \/ Refuses(Item, k, buf)
            \/ Takes(Item, k, buf, wire) \/ Completes(Item, k, buf, wire)
<1>1. /\ Item \in Requests /\ Item.body = <<>>
      /\ Item.line[2] \in Methods => Item.line[4] \in Versions
  BY ItemIsOrderly, Zenon
<1>2. /\ Content(buf) \o wire = From(Text(Item), 3 * k + 1)
      /\ k > 0 => Item.line[2] \in Methods
  BY Zenon DEF Parsed, Pending
<1>3. WellFormed(buf) /\ wire \in Seq(Byte)
  BY DEF TypeOK
<1>4. Waits(Item, k, buf) \/ Refuses(Item, k, buf)
      \/ Takes(Item, k, buf, wire) \/ Completes(Item, k, buf, wire)
  BY <1>1, <1>2, <1>3, NextPass, Zenon
<1>5. k \in Nat /\ k + 1 > 0
  <2>1. LineCount(Item) \in Nat
    BY ItemIsOrderly, Zenon
  <2>2. \A n \in Nat : \A i \in 0..n : i \in Nat /\ i + 1 > 0
    OBVIOUS
  <2> QED BY <2>1, <2>2, Zenon
<1> QED BY <1>4, <1>5, Zenon

\* What a pass does to the loop.
LEMMA WaitsMeans ==
  ASSUME NEW item, NEW k, NEW b, NEW p, p = ParseLine(b, ContextAt(item, k)), Waits(item, k, b)
  PROVE  ~p.more /\ p.ok /\ p.b = b /\ p.c = ContextAt(item, k) /\ p.fault = "none"
<1>2. p = Pass(FALSE, TRUE, b, ContextAt(item, k), "none")
  BY Zenon DEF Waits
<1> QED BY <1>2 DEF Pass

LEMMA RefusesMeans ==
  ASSUME NEW item, NEW k, NEW b, NEW p, p = ParseLine(b, ContextAt(item, k)), Refuses(item, k, b)
  PROVE  ~p.more /\ ~p.ok /\ p.b = b /\ p.c = NewContext /\ p.fault = "none"
<1>2. p = Pass(FALSE, FALSE, b, NewContext, "none")
  BY Zenon DEF Refuses
<1> QED BY <1>2 DEF Pass

LEMMA TakesMeans ==
  ASSUME NEW item, NEW k, NEW b, NEW x, NEW p, p = ParseLine(b, ContextAt(item, k)),
         Takes(item, k, b, x)
  PROVE  p.more /\ p.ok /\ p.b = Retrieve(b, 3) /\ p.c = ContextAt(item, k + 1) /\ p.fault = "none"
<1>2. p = Pass(TRUE, TRUE, Retrieve(b, 3), ContextAt(item, k + 1), "none")
  BY Zenon DEF Takes
<1> QED BY <1>2 DEF Pass

LEMMA CompletesMeans ==
  ASSUME NEW item, NEW k, NEW b, NEW x, NEW p, p = ParseLine(b, ContextAt(item, k)),
         Completes(item, k, b, x)
  PROVE  /\ ~p.more /\ p.ok /\ p.b = Retrieve(b, 2) /\ p.fault = "none"
         /\ p.c.state = "kGotAll" /\ p.c.req = RequestAt(item, k)
<1> DEFINE c == [state |-> "kGotAll", req |-> RequestAt(item, k)]
<1>2. p = Pass(FALSE, TRUE, Retrieve(b, 2), c, "none")
  BY Zenon DEF Completes
<1>3. c.state = "kGotAll" /\ c.req = RequestAt(item, k)
  OBVIOUS
<1> HIDE DEF c
<1>4. ~p.more /\ p.ok /\ p.b = Retrieve(b, 2) /\ p.c = c /\ p.fault = "none"
  BY <1>2 DEF Pass
<1> QED BY <1>3, <1>4, Zenon

\* While a message is handled, a request is being read or was refused.
LEMMA InTheMiddle ==
  ASSUME TypeOK, Orderly, Progress, phase = "message"
  PROVE  /\ sent > 0
         /\ \E k \in 0..LineCount(Item) : Parsed(k) /\ (Reading \/ (Refused /\ k = 0))
<1>1. ~AllAnswered
  BY Zenon DEF AllAnswered
<1>2. CASE Reading
  BY <1>2, Zenon DEF Reading
<1>3. CASE Refused
  <2>1. sent > 0 /\ Parsed(0)
    BY <1>3, Zenon DEF Refused
  <2>2. 0 \in 0..LineCount(Item)
    BY <2>1, ItemIsOrderly
  <2> QED BY <1>3, <2>1, <2>2, Zenon
<1> QED BY <1>1, <1>2, <1>3, Zenon DEF Progress

\* parseRequest() takes a line of the request that is being read.
LEMMA ProgressByParseRequest ==
  ASSUME TypeOK, Orderly, fault = "none", Progress, ParseRequest
  PROVE  fault' = "none" /\ Progress'
<1> DEFINE p == ParseLine(buf, ctx)
<1>1. /\ phase = "message" /\ p.more /\ buf' = p.b /\ ctx' = p.c
      /\ UNCHANGED <<wire, phase, state, resp, script, sent, fault>>
  BY Zenon DEF ParseRequest
<1>3. sent > 0 /\ \E k \in 0..LineCount(Item) : Parsed(k) /\ (Reading \/ (Refused /\ k = 0))
  BY <1>1, InTheMiddle, Zenon
<1>4. PICK k \in 0..LineCount(Item) : Parsed(k) /\ (Reading \/ (Refused /\ k = 0))
  BY <1>3, Zenon
<1>5. ctx = ContextAt(Item, k)
  BY <1>4, Zenon DEF Parsed
<1>6. Takes(Item, k, buf, wire)
  <2>1. Waits(Item, k, buf) \/ Refuses(Item, k, buf) \/ Takes(Item, k, buf, wire) \/ Completes(Item, k, buf, wire)
    BY <1>3, <1>4, PassOfItem, Zenon
  <2>2. ~Waits(Item, k, buf)
    BY <1>1, <1>5, WaitsMeans, Zenon
  <2>3. ~Refuses(Item, k, buf)
    BY <1>1, <1>5, RefusesMeans, Zenon
  <2>4. ~Completes(Item, k, buf, wire)
    BY <1>1, <1>5, CompletesMeans, Zenon
  <2> QED BY <2>1, <2>2, <2>3, <2>4, Zenon
<1>7. /\ buf' = Retrieve(buf, 3) /\ ctx' = ContextAt(Item, k + 1)
      /\ k < LineCount(Item) /\ Item.line[2] \in Methods
      /\ Content(Retrieve(buf, 3)) \o wire = From(Text(Item), 3 * (k + 1) + 1)
  <2>1. /\ k < LineCount(Item) /\ Item.line[2] \in Methods
        /\ Content(Retrieve(buf, 3)) \o wire = From(Text(Item), 3 * (k + 1) + 1)
    BY <1>6, Zenon DEF Takes
  <2>2. p.b = Retrieve(buf, 3) /\ p.c = ContextAt(Item, k + 1)
    BY <1>5, <1>6, TakesMeans, Zenon
  <2> QED BY <1>1, <2>1, <2>2, Zenon
<1>8. Item' = Item
  BY <1>1, Zenon DEF Item
<1>9. Parsed(k + 1)'
  <2>1. Pending' = From(Text(Item'), 3 * (k + 1) + 1)
    BY <1>1, <1>7, <1>8, Zenon DEF Pending
  <2> QED BY <1>7, <1>8, <2>1, Zenon DEF Parsed
<1>10. k + 1 \in 0..LineCount(Item)
  <2>1. LineCount(Item) \in Nat
    BY <1>3, ItemIsOrderly, Zenon
  <2>2. \A n \in Nat : \A i \in 0..n : i < n => i + 1 \in 0..n
    OBVIOUS
  <2> QED BY <1>7, <2>1, <2>2, Zenon
<1>11. Reading
  <2> SUFFICES ASSUME Refused PROVE FALSE
    BY <1>4, Zenon
  <2>1. Item.line[2] \notin Methods
    BY Zenon DEF Refused
  <2> QED BY <1>7, <2>1
<1>12. Reading'
  BY <1>1, <1>8, <1>9, <1>10, <1>11, Zenon DEF Reading, Answered
<1> QED BY <1>1, <1>12, Zenon DEF Progress

\* The last answer.
LEMMA AnswerToItem ==
  ASSUME TypeOK, sent \in Nat \ {0}, Answered(sent - 1),
         UNCHANGED <<script, sent>>, resp' = Append(resp, Expected(Item))
  PROVE  Answered(sent)'
<1>1. resp = [i \in 1..(sent - 1) |-> Expected(script.reqs[i])]
  BY Zenon DEF Answered
<1>2. Append([i \in 1..(sent - 1) |-> Expected(script.reqs[i])], Expected(script.reqs[sent]))
        = [i \in 1..sent |-> Expected(script.reqs[i])]
  BY AnswersGrow, Zenon
<1>3. resp' = [i \in 1..sent |-> Expected(script.reqs[i])]
  BY <1>1, <1>2, Zenon DEF Item
<1> QED BY <1>3, Zenon DEF Answered

\* onMessage() answers the request when its last line is there, refuses it
\* when its method is unknown, and otherwise waits.
LEMMA ProgressByOnMessage ==
  ASSUME TypeOK, Orderly, fault = "none", Progress, OnMessage
  PROVE  fault' = "none" /\ Progress'
<1> DEFINE p == ParseLine(buf, ctx)
<1>1. /\ phase = "message" /\ phase' = "idle" /\ ~p.more /\ fault' = p.fault /\ buf' = p.b
      /\ \/ ~p.ok /\ Reply(BadRequest) /\ ctx' = p.c
         \/ p.ok /\ p.c.state = "kGotAll" /\ Reply(Response(p.c.req)) /\ ctx' = Reset(p.c)
         \/ p.ok /\ p.c.state # "kGotAll" /\ ctx' = p.c /\ UNCHANGED <<resp, state>>
      /\ UNCHANGED <<wire, script, sent>>
  BY Zenon DEF OnMessage
<1>2. sent > 0 /\ \E k \in 0..LineCount(Item) : Parsed(k) /\ (Reading \/ (Refused /\ k = 0))
  BY <1>1, InTheMiddle, Zenon
<1>3. PICK k \in 0..LineCount(Item) : Parsed(k) /\ (Reading \/ (Refused /\ k = 0))
  BY <1>2, Zenon
<1>4. ctx = ContextAt(Item, k)
  BY <1>3, Zenon DEF Parsed
<1>11. p = ParseLine(buf, ContextAt(Item, k))
  BY <1>4, Zenon
<1>5. Item' = Item /\ sent' = sent /\ sent \in Nat \ {0} /\ Item \in Requests
  BY <1>1, <1>2, ItemIsOrderly, Zenon DEF Item
<1>6. Waits(Item, k, buf) \/ Refuses(Item, k, buf) \/ Takes(Item, k, buf, wire) \/ Completes(Item, k, buf, wire)
  BY <1>2, <1>3, PassOfItem, Zenon
<1> HIDE DEF p
<1>7. ~Takes(Item, k, buf, wire)
  BY <1>1, <1>11, TakesMeans, Zenon
<1>8. CASE Waits(Item, k, buf)
  <2>1. p.ok /\ p.b = buf /\ p.c = ctx /\ p.fault = "none"
    <3>1. p.ok /\ p.b = buf /\ p.c = ContextAt(Item, k) /\ p.fault = "none"
      BY <1>11, <1>8, WaitsMeans
    <3> QED BY <1>4, <3>1, Zenon
  <2>2. ctx.state # "kGotAll"
    <3>1. k \in Nat
      BY <1>2, <1>3, PassOfItem, Zenon
    <3>2. ContextAt(Item, k).state \in {"kExpectRequestLine", "kExpectHeaders"}
      BY <3>1, ContextFacts, Zenon
    <3> QED BY <1>4, <3>2
  <2>3. UNCHANGED <<buf, ctx, resp, state>> /\ fault' = "none"
    BY <1>1, <2>1, <2>2, Zenon
  <2>4. Pending' = Pending /\ Starved(k)
    BY <1>1, <1>8, <2>3, Zenon DEF Pending, Waits, Starved
  <2>5. Parsed(k)' /\ Starved(k)'
    BY <1>3, <1>5, <2>3, <2>4, Zenon DEF Parsed, Starved
  <2>6. CASE Reading
    <3>1. Reading'
      BY <1>1, <1>5, <2>3, <2>5, <2>6, Zenon DEF Reading, Answered
    <3> QED BY <2>3, <3>1, Zenon DEF Progress
  <2>7. CASE Refused
    <3>1. Parsed(0)'
      BY <1>5, <2>3, <2>4, <2>7, Zenon DEF Parsed, Refused
    <3>2. Refused'
      BY <1>1, <1>5, <2>3, <2>7, <3>1, Zenon DEF Refused, Answered
    <3> QED BY <2>3, <3>2, Zenon DEF Progress
  <2> QED BY <1>3, <2>6, <2>7, Zenon
<1>9. CASE Refuses(Item, k, buf)
  <2>1. ~p.ok /\ p.b = buf /\ p.c = NewContext /\ p.fault = "none"
    BY <1>11, <1>9, RefusesMeans
  <2>2. k = 0 /\ Len(Content(buf)) >= 3 /\ Item.line[2] \notin Methods
    BY <1>9, Zenon DEF Refuses
  <2>3. ctx = NewContext
    <3>1. 0 \in Nat
      OBVIOUS
    <3> QED BY <1>4, <2>2, <3>1, ContextFacts, Zenon
  <2>4. UNCHANGED <<buf, ctx>> /\ fault' = "none" /\ Reply(BadRequest)
    BY <1>1, <2>1, <2>3, Zenon
  <2>5. Pending' = Pending
    BY <1>1, <2>4, Zenon DEF Pending
  <2>6. Parsed(0)'
    BY <1>3, <1>5, <2>2, <2>4, <2>5, Zenon DEF Parsed
  <2>7. CASE Reading
    <3>1. state = "kConnected" /\ Answered(sent - 1)
      BY <2>7, Zenon DEF Reading
    <3>2. resp' = Append(resp, Expected(Item))
      BY <1>5, <2>2, <2>4, <3>1, RightAnswer, Zenon DEF Reply
    <3>3. Answered(sent)'
      BY <1>1, <1>5, <3>1, <3>2, AnswerToItem, Zenon
    <3>4. state' = "kDisconnecting"
      <4>1. BadRequest.close
        BY Zenon DEF BadRequest
      <4> QED BY <2>4, <3>1, <4>1, Zenon DEF Reply
    <3>5. state' # "kConnected"
      BY <3>4
    <3>6. Refused'
      BY <1>2, <1>5, <2>2, <2>4, <2>6, <3>3, <3>5, Zenon DEF Refused
    <3> QED BY <2>4, <3>6, Zenon DEF Progress
  <2>8. CASE Refused
    <3>1. state # "kConnected" /\ Answered(sent)
      BY <2>8, Zenon DEF Refused
    <3>2. resp' = resp /\ state' = state
      BY <2>4, <3>1, Zenon DEF Reply
    <3>3. Refused'
      BY <1>1, <1>2, <1>5, <2>2, <2>4, <2>6, <3>1, <3>2, Zenon DEF Refused, Answered
    <3> QED BY <2>4, <3>3, Zenon DEF Progress
  <2> QED BY <1>3, <2>7, <2>8, Zenon
<1>10. CASE Completes(Item, k, buf, wire)
  <2>1. /\ p.ok /\ p.b = Retrieve(buf, 2) /\ p.fault = "none"
        /\ p.c.state = "kGotAll" /\ p.c.req = RequestAt(Item, k)
    BY <1>11, <1>10, CompletesMeans, Zenon
  <2>2. k = LineCount(Item) /\ Item.line[2] \in Methods /\ Content(Retrieve(buf, 2)) \o wire = <<>>
    BY <1>10, Zenon DEF Completes
  <2>4. Reply(Response(p.c.req)) /\ ctx' = NewContext /\ fault' = "none"
    BY <1>1, <2>1, Zenon DEF Reset
  <2>5. Response(p.c.req) = Expected(Item)
    BY <1>5, <2>1, <2>2, RightAnswer, Zenon
  <2>6. Reading
    BY <1>3, <2>2, Zenon DEF Refused
  <2>7. state = "kConnected" /\ Answered(sent - 1)
    BY <2>6, Zenon DEF Reading
  <2>8. resp' = Append(resp, Expected(Item))
    BY <2>4, <2>5, <2>7, Zenon DEF Reply
  <2>9. Answered(sent)'
    BY <1>1, <1>5, <2>7, <2>8, AnswerToItem, Zenon
  <2>10. Pending' = <<>>
    BY <1>1, <2>1, <2>2, Zenon DEF Pending
  <2>11. AllAnswered'
    BY <1>1, <1>5, <2>4, <2>9, <2>10, Zenon DEF AllAnswered
  <2> QED BY <2>4, <2>11, Zenon DEF Progress
<1> QED BY <1>6, <1>7, <1>8, <1>9, <1>10, Zenon

\* Two sequences that make an empty one are empty.
LEMMA NothingInParts ==
  ASSUME NEW c \in Seq(Byte), NEW x \in Seq(Byte), c \o x = <<>>
  PROVE  c = <<>> /\ x = <<>>
<1> DEFINE e == c \o x
<1>1. e = <<>>
  OBVIOUS
<1>2. Len(e) = Len(c) + Len(x)
  BY ConcatProperties
<1> HIDE DEF e
<1>3. Len(e) = 0
  BY <1>1
<1>4. Len(c) \in Nat /\ Len(x) \in Nat
  BY LenProperties
<1>5. \A i, j \in Nat : i + j = 0 => i = 0 /\ j = 0
  OBVIOUS
<1>6. Len(c) = 0 /\ Len(x) = 0
  BY <1>2, <1>3, <1>4, <1>5, Zenon
<1> QED BY <1>6, EmptySeq, Zenon

\* An orderly client sends the next request: nothing is pending before it.
LEMMA ProgressBySend ==
  ASSUME TypeOK, Orderly, fault = "none", Progress, Send
  PROVE  fault' = "none" /\ Progress'
<1> DEFINE item == script.reqs[sent + 1]
           t == Text(item)
<1>1. /\ phase = "idle" /\ sent < Len(script.reqs)
      /\ script.pipelines \/ (Len(resp) = sent /\ state = "kConnected")
      /\ wire' = wire \o t /\ sent' = sent + 1
      /\ UNCHANGED <<app, buf, phase, state, ctx, resp, script, fault>>
  BY Zenon DEF Send
<1>2. Len(resp) = sent /\ state = "kConnected"
  BY <1>1, Zenon DEF Orderly
<1>3. sent \in Nat /\ sent + 1 \in 1..Len(script.reqs) /\ script.reqs \in Seq(Requests)
  BY <1>1 DEF TypeOK
<1>4. item \in Requests /\ item.body = <<>>
  <2>1. DOMAIN script.reqs = 1..Len(script.reqs)
    BY <1>3, LenProperties
  <2>2. item \in Requests /\ item \in Range(script.reqs)
    BY <1>3, <2>1, ElementOfSeq DEF Range
  <2> QED BY <2>2, Zenon DEF Orderly
<1>5. t \in Seq(Byte) /\ LineCount(item) \in Nat \ {0}
  BY <1>4, TextBytes, Zenon
<1>6. ASSUME NEW n \in Nat, Answered(n) PROVE n = sent
  <2>1. resp = [i \in 1..n |-> Expected(script.reqs[i])]
    BY <1>6, Zenon DEF Answered
  <2>2. Len(resp) = n
    BY <1>6, <2>1
  <2> QED BY <1>2, <2>2
<1>7. AllAnswered
  <2>1. ~Refused
    BY <1>2, Zenon DEF Refused
  <2>2. ~Reading
    <3> SUFFICES ASSUME Reading PROVE FALSE
      OBVIOUS
    <3>1. sent > 0 /\ Answered(sent - 1)
      BY Zenon DEF Reading
    <3>2. sent - 1 \in Nat /\ sent - 1 # sent
      BY <1>3, <3>1
    <3> QED BY <1>6, <3>1, <3>2, Zenon
  <2> QED BY <2>1, <2>2, Zenon DEF Progress
<1>8. Content(buf) = <<>> /\ wire = <<>>
  <2>1. Content(buf) \in Seq(Byte) /\ wire \in Seq(Byte)
    BY ContentBytes DEF TypeOK
  <2>2. Content(buf) \o wire = <<>>
    BY <1>7, Zenon DEF AllAnswered, Pending
  <2> QED BY <2>1, <2>2, NothingInParts, Zenon
<1> HIDE DEF t, item
<1>9. Item' = item
  BY <1>1, Zenon DEF Item, item
<1>10. Pending' = t
  <2>1. Pending' = Content(buf) \o (wire \o t)
    BY <1>1, Zenon DEF Pending
  <2>2. Pending' = <<>> \o (<<>> \o t)
    BY <1>8, <2>1, Zenon
  <2>3. <<>> \o t = t
    BY <1>5, ConcatEmptySeq
  <2> QED BY <2>2, <2>3, Zenon
<1>11. From(t, 3 * 0 + 1) = t
  <2>1. SubSeq(t, 1, Len(t)) = t
    BY <1>5, SubSeqFull
  <2>2. 3 * 0 + 1 = 1
    OBVIOUS
  <2> QED BY <2>1, <2>2, Zenon DEF From
<1>12. Parsed(0)'
  <2>1. 0 \in Nat /\ ~(0 > 0)
    OBVIOUS
  <2>2. ContextAt(item, 0) = NewContext
    BY <2>1, ContextFacts, Zenon
  <2>3. ctx' = NewContext
    BY <1>1, <1>7, Zenon DEF AllAnswered
  <2> QED BY <1>9, <1>10, <1>11, <2>1, <2>2, <2>3, Zenon DEF Parsed, t
<1>13. Starved(0)'
  <2>1. Content(buf)' = <<>>
    BY <1>1, <1>8, Zenon
  <2>2. Len(<<>>) < NeedOf(item, 0)
    BY DEF NeedOf
  <2> QED BY <1>9, <2>1, <2>2, Zenon DEF Starved
<1>14. Answered(sent - 1)'
  <2>1. Answered(sent)
    BY <1>7, Zenon DEF AllAnswered
  <2>2. sent' - 1 = sent
    BY <1>1, <1>3
  <2> QED BY <1>1, <2>1, <2>2, Zenon DEF Answered
<1>15. sent' > 0 /\ 0 \in 0..LineCount(Item')
  BY <1>1, <1>3, <1>5, <1>9
<1>16. Reading'
  BY <1>1, <1>2, <1>12, <1>13, <1>14, <1>15, Zenon DEF Reading
<1> QED BY <1>1, <1>16, Zenon DEF Progress

\* readFd() moves bytes from the kernel to the buffer: what is pending stays.
LEMMA ProgressByHandleRead ==
  ASSUME TypeOK, Orderly, fault = "none", Progress, NEW n \in 1..Len(wire), HandleRead(n)
  PROVE  fault' = "none" /\ Progress'
<1> DEFINE d == SubSeq(wire, 1, n)
           rest == SubSeq(wire, n + 1, Len(wire))
           c == Content(buf)
<1>1. /\ phase = "idle" /\ phase' = "message" /\ n <= ReadCapacity(buf)
      /\ buf' = ReadFd(buf, d) /\ wire' = rest
      /\ UNCHANGED <<app, state, ctx, resp, script, sent, fault>>
  BY Zenon DEF HandleRead, Orderly
<1>2. WellFormed(buf) /\ wire \in Seq(Byte) /\ c \in Seq(Byte)
  BY ContentBytes DEF TypeOK
<1>3. d \in Seq(Byte) /\ Len(d) = n /\ rest \in Seq(Byte) /\ wire = d \o rest
  BY <1>2, Cut
<1> HIDE DEF d, rest
<1>4. Content(buf') = c \o d
  BY <1>1, <1>2, <1>3, ReadFdAppends
<1>5. Pending' = Pending
  <2>1. Pending' = (c \o d) \o rest
    BY <1>1, <1>4, Zenon DEF Pending
  <2>2. Pending = c \o (d \o rest)
    BY <1>3, Zenon DEF Pending
  <2> HIDE DEF c
  <2>3. (c \o d) \o rest = c \o (d \o rest)
    BY <1>2, <1>3, Regroup
  <2> QED BY <2>1, <2>2, <2>3, Zenon
<1>6. Len(Content(buf')) >= Len(c)
  <2> HIDE DEF c
  <2>1. Len(c \o d) = Len(c) + Len(d) /\ Len(c) \in Nat /\ Len(d) \in Nat
    BY <1>2, <1>3, ConcatProperties, LenProperties
  <2>2. \A i, j \in Nat : i + j >= i
    OBVIOUS
  <2>3. Len(c) + Len(d) >= Len(c)
    BY <2>1, <2>2, Zenon
  <2> QED BY <1>4, <2>1, <2>3, Zenon
<1>7. Item' = Item
  BY <1>1, Zenon DEF Item
<1>8. ~AllAnswered
  <2> SUFFICES ASSUME AllAnswered PROVE FALSE
    OBVIOUS
  <2>1. c \o wire = <<>>
    BY Zenon DEF AllAnswered, Pending
  <2>2. wire = <<>>
    BY <1>2, <2>1, NothingInParts, Zenon
  <2> QED BY <2>2
<1>9. CASE Reading
  <2>1. PICK k \in 0..LineCount(Item) : Parsed(k)
    BY <1>9, Zenon DEF Reading
  <2>2. Parsed(k)'
    BY <1>1, <1>5, <1>7, <2>1, Zenon DEF Parsed
  <2>3. phase' # "idle"
    BY <1>1
  <2>4. Reading'
    BY <1>1, <1>7, <1>9, <2>2, <2>3, Zenon DEF Reading, Answered
  <2> QED BY <1>1, <2>4, Zenon DEF Progress
<1>10. CASE Refused
  <2>1. Parsed(0)'
    BY <1>1, <1>5, <1>7, <1>10, Zenon DEF Parsed, Refused
  <2>2. Len(Content(buf)) >= 3
    BY <1>10, Zenon DEF Refused
  <2>3. Len(Content(buf')) >= 3
    <3>1. \A i, j \in Nat : i >= j /\ j >= 3 => i >= 3
      OBVIOUS
    <3>2. Len(c) \in Nat /\ Len(c \o d) \in Nat
      BY <1>2, <1>3
    <3> QED BY <1>4, <1>6, <2>2, <3>1, <3>2, Zenon
  <2>4. Refused'
    BY <1>1, <1>7, <1>10, <2>1, <2>3, Zenon DEF Refused, Answered
  <2> QED BY <1>1, <2>4, Zenon DEF Progress
<1> QED BY <1>8, <1>9, <1>10, Zenon DEF Progress

\* The client closes when nothing is on its way: no request is half read.
LEMMA ProgressByHandleClose ==
  ASSUME TypeOK, Orderly, fault = "none", Progress, HandleClose
  PROVE  fault' = "none" /\ Progress'
<1>1. /\ phase = "idle" /\ wire = <<>> /\ state' = "kDisconnected"
      /\ UNCHANGED <<app, bufVars, phase, ctx, resp, script, sent, fault>>
  BY Zenon DEF HandleClose
<1>2. UNCHANGED <<buf, wire>> /\ Item' = Item
  BY <1>1, Zenon DEF Item, bufVars
<1>3. Pending' = Pending
  BY <1>2, Zenon DEF Pending
<1>4. ~Reading
  <2> SUFFICES ASSUME Reading PROVE FALSE
    OBVIOUS
  <2>1. PICK k \in 0..LineCount(Item) : Parsed(k) /\ Starved(k)
    BY <1>1, Zenon DEF Reading
  <2>2. sent > 0
    BY Zenon DEF Reading
  <2> DEFINE c == Content(buf)
  <2>3. c \in Seq(Byte) /\ wire \in Seq(Byte)
    BY ContentBytes DEF TypeOK
  <2>4. c \o wire = From(Text(Item), 3 * k + 1) /\ Len(c) < NeedOf(Item, k)
    BY <2>1, Zenon DEF Parsed, Pending, Starved
  <2>5. Item \in Requests /\ Item.body = <<>> /\ LineCount(Item) \in Nat \ {0}
    BY <2>2, ItemIsOrderly, Zenon
  <2> HIDE DEF c
  <2>6. Len(c) + Len(wire) = 3 * (LineCount(Item) - k) + 2
    BY <2>3, <2>4, <2>5, PendingLines, Zenon
  <2>7. Len(wire) = 0 /\ Len(c) \in Nat
    BY <1>1, <2>3
  <2> DEFINE l == LineCount(Item)
             m == Len(c)
  <2>8. /\ m \in Nat /\ m + 0 = 3 * (l - k) + 2 /\ l \in Nat /\ k \in 0..l
        /\ m < IF k < l THEN 3 ELSE 2
    BY <2>4, <2>5, <2>6, <2>7, Zenon DEF NeedOf
  <2>9. \A i, j, h \in Nat : h <= j /\ i + 0 = 3 * (j - h) + 2 => ~(i < IF h < j THEN 3 ELSE 2)
    OBVIOUS
  <2>10. k \in Nat /\ k <= l
    <3> HIDE DEF l, m
    <3>1. \A j \in Nat : \A h \in 0..j : h \in Nat /\ h <= j
      OBVIOUS
    <3> QED BY <2>8, <3>1, Zenon
  <2> QED BY <2>8, <2>9, <2>10, Zenon
<1>5. CASE AllAnswered
  <2>1. AllAnswered'
    BY <1>1, <1>3, <1>5, Zenon DEF AllAnswered, Answered
  <2> QED BY <1>1, <2>1, Zenon DEF Progress
<1>6. CASE Refused
  <2>1. Parsed(0)'
    BY <1>1, <1>2, <1>3, <1>6, Zenon DEF Parsed, Refused
  <2>2. state' # "kConnected"
    BY <1>1
  <2>3. Refused'
    BY <1>1, <1>2, <1>6, <2>1, <2>2, Zenon DEF Refused, Answered
  <2> QED BY <1>1, <2>3, Zenon DEF Progress
<1> QED BY <1>4, <1>5, <1>6, Zenon DEF Progress

\* The client and the application stay what they are.
LEMMA OrderlyStays ==
  ASSUME UNCHANGED <<app, script>>
  PROVE  Orderly' <=> Orderly
BY Zenon DEF Orderly

\* Every step of an orderly client's connection keeps the answers in order.
LEMMA AnswerStep ==
  ASSUME TypeOK, AnswerInv, [Next]_vars
  PROVE  AnswerInv'
<1>1. CASE UNCHANGED vars
  <2>1. /\ UNCHANGED <<app, buf, wire, phase, state, ctx, resp, script, sent, fault>>
    BY <1>1, Zenon DEF vars
  <2> QED BY <2>1, Zenon DEF AnswerInv, Orderly, Progress, AllAnswered, Reading, Refused,
                              Pending, Answered, Parsed, Starved, Item
<1>2. CASE Next
  <2>1. UNCHANGED <<app, script>>
    BY <1>2, Zenon DEF Next, ParseRequest, OnMessage, Send, HandleClose, HandleRead, DoAppend, DoRetrieve,
                       DoRetrieveAsString, DoReadInt, DoPrependInt, DoShrink, AnyOwner, httpVars
  <2> SUFFICES ASSUME Orderly PROVE fault' = "none" /\ Progress'
    BY <2>1, OrderlyStays, Zenon DEF AnswerInv
  <2>2. fault = "none" /\ Progress
    BY Zenon DEF AnswerInv
  <2>3. ~AnyOwner
    <3>1. app = "http"
      BY Zenon DEF Orderly
    <3> QED BY <3>1 DEF AnyOwner
  <2>4. CASE ParseRequest
    BY <2>2, <2>4, ProgressByParseRequest, Zenon
  <2>5. CASE OnMessage
    BY <2>2, <2>5, ProgressByOnMessage, Zenon
  <2>6. CASE Send
    BY <2>2, <2>6, ProgressBySend, Zenon
  <2>7. CASE HandleClose
    BY <2>2, <2>7, ProgressByHandleClose, Zenon
  <2>8. ASSUME NEW n \in 1..Len(wire), HandleRead(n) PROVE fault' = "none" /\ Progress'
    BY <2>2, <2>8, ProgressByHandleRead, Zenon
  <2>9. ASSUME NEW n \in 1..Len(wire), DoAppend(n) PROVE FALSE
    BY <2>3, <2>9, Zenon DEF DoAppend
  <2>10. ASSUME NEW n \in 0..ReadableBytes(buf), DoRetrieve(n) \/ DoRetrieveAsString(n) PROVE FALSE
    BY <2>3, <2>10, Zenon DEF DoRetrieve, DoRetrieveAsString
  <2>11. ASSUME NEW n \in IntSizes, DoReadInt(n) \/ DoPrependInt(n) PROVE FALSE
    BY <2>3, <2>11, Zenon DEF DoReadInt, DoPrependInt
  <2>12. ASSUME NEW reserve \in {0, InitialSize}, DoShrink(reserve) PROVE FALSE
    BY <2>3, <2>12, Zenon DEF DoShrink
  <2> QED BY <1>2, <2>4, <2>5, <2>6, <2>7, <2>8, <2>9, <2>10, <2>11, <2>12, Zenon DEF Next
<1> QED BY <1>1, <1>2, Zenon

LEMMA AnswerInit == Init => AnswerInv
<1> SUFFICES ASSUME Init, Orderly PROVE fault = "none" /\ AllAnswered
  BY Zenon DEF AnswerInv, Progress
<1>1. app = "http"
  BY Zenon DEF Orderly
<1>2. /\ buf = NewBuffer /\ wire = <<>> /\ phase = "idle" /\ ctx = NewContext
      /\ resp = <<>> /\ sent = 0 /\ fault = "none"
  <2>1. app # "any"
    BY <1>1
  <2> QED BY <2>1, Zenon DEF Init
<1>3. Pending = <<>>
  <2>1. <<>> \o <<>> = <<>>
    <3>1. <<>> \in Seq(Byte)
      OBVIOUS
    <3> QED BY <3>1, ConcatEmptySeq
  <2> QED BY <1>2, <2>1, NewBufferIsEmpty, Zenon DEF Pending
<1>4. Answered(0)
  <2>1. [i \in 1..0 |-> Expected(script.reqs[i])] = <<>>
    OBVIOUS
  <2> QED BY <1>2, <2>1, Zenon DEF Answered
<1> QED BY <1>2, <1>3, <1>4, Zenon DEF AllAnswered

\* As many answers as requests received.
LEMMA AnswersCounted ==
  ASSUME NEW n \in Nat, Answered(n), {j \in 1..sent : Received(j)} = 1..n
  PROVE  resp = [i \in 1..Cardinality({j \in 1..sent : Received(j)}) |-> Expected(script.reqs[i])]
<1>1. Cardinality(1..n) = n
  BY FS_Interval
<1> DEFINE got == {j \in 1..sent : Received(j)}
<1>2. got = 1..n
  OBVIOUS
<1> HIDE DEF got
<1>3. Cardinality(got) = n
  BY <1>1, <1>2, Zenon
<1>4. resp = [i \in 1..n |-> Expected(script.reqs[i])]
  BY Zenon DEF Answered
<1>5. resp = [i \in 1..Cardinality(got) |-> Expected(script.reqs[i])]
  BY <1>3, <1>4, Zenon
<1> QED BY <1>5, Zenon DEF got

\* What is left of the request that is on its way.
LEMMA ItemLength ==
  ASSUME TypeOK, Orderly, sent > 0, NEW k \in 0..LineCount(Item), Parsed(k)
  PROVE  /\ Len(Content(buf)) \in Nat /\ Len(wire) \in Nat /\ LineCount(Item) \in Nat \ {0}
         /\ Len(Content(buf)) + Len(wire) = 3 * (LineCount(Item) - k) + 2
         /\ Len(Text(Item)) = 3 * LineCount(Item) + 2
<1>1. Item \in Requests /\ Item.body = <<>> /\ LineCount(Item) \in Nat \ {0}
  BY ItemIsOrderly, Zenon
<1>2. Content(buf) \in Seq(Byte) /\ wire \in Seq(Byte)
  BY ContentBytes DEF TypeOK
<1>3. Content(buf) \o wire = From(Text(Item), 3 * k + 1)
  BY Zenon DEF Parsed, Pending
<1>4. Len(Content(buf)) + Len(wire) = 3 * (LineCount(Item) - k) + 2
  BY <1>1, <1>2, <1>3, PendingLines, Zenon
<1>5. Len(Content(buf)) \in Nat /\ Len(wire) \in Nat
  BY <1>2, LenProperties, Zenon
<1> QED BY <1>1, <1>4, <1>5, TextBytes, Zenon

\* Between two messages, the answers given are those that are due.
LEMMA AnswersAreDue ==
  ASSUME TypeOK, AnswerInv
  PROVE  AnswersMatchRequests
<1> SUFFICES ASSUME Orderly, phase = "idle"
             PROVE  /\ fault = "none"
                    /\ resp = [i \in 1..Cardinality({j \in 1..sent : Received(j)}) |-> Expected(script.reqs[i])]
  BY Zenon DEF AnswersMatchRequests
<1> DEFINE got == {j \in 1..sent : Received(j)}
           d == Len(Text(Item)) - Len(wire)
<1>1. fault = "none" /\ Progress /\ sent \in Nat
  BY DEF AnswerInv, TypeOK
<1>2. \A j \in 1..sent : j < sent => Received(j)
  BY Zenon DEF Received
<1>3. Received(sent) <=> d >= IF Item.line[2] \in Methods THEN Len(Text(Item)) ELSE 3
  <2>1. ~(sent < sent)
    BY <1>1
  <2> QED BY <2>1, Zenon DEF Received, Item
<1>4. sent = 0 \/ Received(sent) => got = 1..sent
  BY <1>1, <1>2
<1>5. sent > 0 /\ ~Received(sent) => got = 1..(sent - 1)
  BY <1>1, <1>2
<1> HIDE DEF got, d
<1>6. CASE AllAnswered
  <2>1. Received(sent) \/ sent = 0
    <3> SUFFICES ASSUME sent > 0 PROVE Received(sent)
      BY <1>1
    <3>1. Item \in Requests /\ Item.body = <<>> /\ LineCount(Item) \in Nat \ {0}
      BY ItemIsOrderly, Zenon
    <3>2. Len(Text(Item)) = 3 * LineCount(Item) + 2
      BY <3>1, TextBytes, Zenon
    <3>3. wire = <<>>
      <4>1. Content(buf) \in Seq(Byte) /\ wire \in Seq(Byte)
        BY ContentBytes DEF TypeOK
      <4>2. Content(buf) \o wire = <<>>
        BY <1>6, Zenon DEF AllAnswered, Pending
      <4> QED BY <4>1, <4>2, NothingInParts, Zenon
    <3>4. d = Len(Text(Item)) /\ d >= 3
      BY <3>1, <3>2, <3>3 DEF d
    <3>5. d >= Len(Text(Item))
      BY <3>1, <3>2, <3>4
    <3> QED BY <1>3, <3>4, <3>5, Zenon
  <2>2. Answered(sent)
    BY <1>6, Zenon DEF AllAnswered
  <2> QED BY <1>1, <1>4, <2>1, <2>2, AnswersCounted, Zenon DEF got
<1>7. CASE Refused
  <2>1. /\ sent > 0 /\ Answered(sent) /\ Parsed(0) /\ Len(Content(buf)) >= 3
        /\ Item.line[2] \notin Methods
    BY <1>7, Zenon DEF Refused
  <2>2. 0 \in 0..LineCount(Item)
    BY <2>1, ItemIsOrderly
  <2>3. /\ Len(Content(buf)) \in Nat /\ Len(wire) \in Nat /\ LineCount(Item) \in Nat \ {0}
        /\ Len(Content(buf)) + Len(wire) = 3 * (LineCount(Item) - 0) + 2
        /\ Len(Text(Item)) = 3 * LineCount(Item) + 2
    BY <2>1, <2>2, ItemLength, Zenon
  <2>4. d >= 3
    BY <2>1, <2>3 DEF d
  <2>5. Received(sent)
    BY <1>3, <2>1, <2>4, Zenon
  <2> QED BY <1>1, <1>4, <2>1, <2>5, AnswersCounted, Zenon DEF got
<1>8. CASE Reading
  <2>1. PICK k \in 0..LineCount(Item) : Parsed(k) /\ Starved(k)
    BY <1>8, Zenon DEF Reading
  <2>2. sent > 0 /\ Answered(sent - 1)
    BY <1>8, Zenon DEF Reading
  <2> DEFINE m == Len(Content(buf))
             w == Len(wire)
             l == LineCount(Item)
             t == Len(Text(Item))
  <2>3. m \in Nat /\ w \in Nat /\ l \in Nat \ {0} /\ m + w = 3 * (l - k) + 2 /\ t = 3 * l + 2
    BY <2>1, <2>2, ItemLength, Zenon
  <2>4. m < NeedOf(Item, k)
    BY <2>1, Zenon DEF Starved
  <2>5. d = t - w /\ k \in 0..l
    BY DEF d
  <2>6. k > 0 => Item.line[2] \in Methods
    BY <2>1, Zenon DEF Parsed
  <2>7. m < IF k < l THEN 3 ELSE 2
    BY <2>4, Zenon DEF NeedOf
  <2> HIDE DEF m, w, l, t
  <2>8. w # 0
    BY <2>3, <2>5, <2>7
  <2>9. ~(d >= t)
    BY <2>3, <2>5, <2>8
  <2>10. k = 0 => ~(d >= 3)
    BY <2>3, <2>5, <2>7
  <2>11. ~Received(sent)
    <3>1. CASE Item.line[2] \in Methods
      BY <1>3, <2>9, <3>1, Zenon DEF t
    <3>2. CASE Item.line[2] \notin Methods
      <4>1. k = 0
        BY <2>5, <2>6, <2>3, <3>2
      <4> QED BY <1>3, <2>10, <3>2, <4>1, Zenon
    <3> QED BY <3>1, <3>2, Zenon
  <2>12. sent - 1 \in Nat
    BY <1>1, <2>2
  <2> QED BY <1>1, <1>5, <2>2, <2>11, <2>12, AnswersCounted, Zenon DEF got
<1> QED BY <1>1, <1>6, <1>7, <1>8, Zenon DEF Progress

\* However the stream of an orderly client is cut into segments, each request
\* is answered once, in order and at once, by its own answer; no assertion of
\* the parser fails and its loop ends (HttpServer::onMessage() and
\* HttpContext::parseRequest()).  For any number of requests and headers.
THEOREM AnswersAlwaysMatch == Spec => []AnswersMatchRequests
<1>1. Init => AnswerInv
  BY AnswerInit
<1>2. TypeOK /\ AnswerInv /\ [Next]_vars => AnswerInv'
  BY AnswerStep
<1>3. TypeOK /\ AnswerInv => AnswersMatchRequests
  BY AnswersAreDue
<1> QED BY <1>1, <1>2, <1>3, TypesAlwaysHold, PTL DEF Spec
=============================================================================
