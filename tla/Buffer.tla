------------------------------- MODULE Buffer -------------------------------
(***************************************************************************)
(* ideal::net::Buffer: a vector of bytes with a reader and a writer index. *)
(*                                                                         *)
(* A buffer is a record: vec, the bytes of _buffer (the byte at index i of *)
(* the code is vec[i + 1]), r and w, the two indices.  The bytes outside   *)
(* r..w - 1 keep their place but are all written Dead: no operation may    *)
(* hand one to the caller.  An operation asserts its precondition; here it *)
(* is the caller that tests it, and a void operation maps a buffer to a    *)
(* buffer.                                                                 *)
(***************************************************************************)
EXTENDS Naturals, Sequences

CONSTANTS
  CheapPrepend,  \* kCheapPrepend (8)
  InitialSize,   \* kInitialSize (1024)
  ExtraSize,     \* size of readFd()'s second buffer (65536)
  Byte,          \* the bytes
  Dead,          \* a byte that is not content
  Zero           \* a zero byte

ASSUME BufferAssumption ==
  /\ {CheapPrepend, InitialSize, ExtraSize} \subseteq Nat
  /\ ExtraSize > 0
  /\ {Dead, Zero} \subseteq Byte

Bury(b) ==
  [vec |-> [i \in 1..Len(b.vec) |-> IF b.r < i /\ i <= b.w THEN b.vec[i] ELSE Dead],
   r |-> b.r, w |-> b.w]

\* The constructor does not look at its argument.
NewBuffer ==
  [vec |-> [i \in 1..CheapPrepend + InitialSize |-> Dead], r |-> CheapPrepend, w |-> CheapPrepend]

ReadableBytes(b) == b.w - b.r
WritableBytes(b) == Len(b.vec) - b.w
PrependableBytes(b) == b.r

\* toStringPiece(): what lies between peek() and beginWrite().
Content(b) == SubSeq(b.vec, b.r + 1, b.w)

\* The first of a set of positions.
First(at) == CHOOSE i \in at : \A j \in at : i <= j

\* findCRLF(), findEOL(): the position in the content, 0 for nullptr.
Find(b, pattern) ==
  LET c == Content(b)
      n == Len(pattern)
      hits == {i \in 1..Len(c) : i + n - 1 <= Len(c) /\ SubSeq(c, i, i + n - 1) = pattern}
  IN IF hits = {} THEN 0 ELSE First(hits)

(***************************************************************************)
(* Taking from the front                                                   *)
(***************************************************************************)

RetrieveAll(b) == Bury([vec |-> b.vec, r |-> CheapPrepend, w |-> CheapPrepend])

\* retrieve(), retrieveUntil(), retrieveInt*(): an empty buffer starts over.
Retrieve(b, n) ==
  IF n < ReadableBytes(b) THEN Bury([vec |-> b.vec, r |-> b.r + n, w |-> b.w]) ELSE RetrieveAll(b)

\* peekInt*(): the first bytes, most significant first.  peekInt32() and
\* peekInt16() copy eight bytes into a 64-bit integer and keep the first
\* four or two, whatever the others are.
PeekInt(b, n) == SubSeq(Content(b), 1, n)

(***************************************************************************)
(* Adding at the back                                                      *)
(***************************************************************************)

Resize(b, size) ==
  [vec |-> [i \in 1..size |-> IF i <= Len(b.vec) THEN b.vec[i] ELSE Dead], r |-> b.r, w |-> b.w]

\* Mutant: the reader index is set before it is used as the source.
MoveDownIndexFirst(b) ==
  Bury([vec |-> b.vec, r |-> CheapPrepend, w |-> CheapPrepend + ReadableBytes(b)])

\* Copies the content down to CheapPrepend.
MoveDown(b) ==
  LET to == CheapPrepend
      n  == ReadableBytes(b)
  IN Bury([vec |-> [i \in 1..Len(b.vec) |-> IF to < i /\ i <= to + n THEN b.vec[i - to + b.r] ELSE b.vec[i]],
           r |-> to, w |-> to + n])

MakeSpace(b, n) ==
  IF WritableBytes(b) + PrependableBytes(b) < n + CheapPrepend
  THEN Resize(b, b.w + n)
  ELSE MoveDown(b)

EnsureWritableBytes(b, n) == IF n > WritableBytes(b) THEN MakeSpace(b, n) ELSE b

\* std::copy(), then hasWritten(): its assertion is WriteFits.
WriteFits(b, s) == Len(s) <= WritableBytes(b)
Write(b, s) ==
  [vec |-> [i \in 1..Len(b.vec) |-> IF b.w < i /\ i <= b.w + Len(s) THEN s[i - b.w] ELSE b.vec[i]],
   r |-> b.r, w |-> b.w + Len(s)]

\* append(), appendInt*()
Append_(b, s) == Write(EnsureWritableBytes(b, Len(s)), s)

\* readFd(): readv() fills the writable part and, when that is shorter than
\* the extra buffer, the extra buffer, which is appended.
ReadCapacity(b) == WritableBytes(b) + IF WritableBytes(b) < ExtraSize THEN ExtraSize ELSE 0
ReadFd(b, s) ==
  LET n == WritableBytes(b) IN
  IF Len(s) <= n THEN Write(b, s)
  ELSE Append_(Write(b, SubSeq(s, 1, n)), SubSeq(s, n + 1, Len(s)))

(***************************************************************************)
(* Adding at the front, and shrink()                                       *)
(***************************************************************************)

Prepend(b, s) ==
  LET at == b.r - Len(s) IN
  [vec |-> [i \in 1..Len(b.vec) |-> IF at < i /\ i <= b.r THEN s[i - at] ELSE b.vec[i]],
   r |-> at, w |-> b.w]

\* prependInt*(): the 32- and 16-bit versions hold the converted value in a
\* 64-bit integer and prepend all eight bytes of it.
PrependedInt(x) == [i \in 1..(IF Len(x) = 1 THEN 1 ELSE 8) |-> IF i <= Len(x) THEN x[i] ELSE Zero]

Shrink(b, reserve) ==
  Append_(EnsureWritableBytes(NewBuffer, ReadableBytes(b) + reserve), Content(b))

\* The indices are in order and inside the vector, which never gets smaller
\* than the constructor made it: what the assertions of makeSpace() and of
\* ensureWritableBytes() rest on.
WellFormed(b) ==
  /\ b \in [vec : Seq(Byte), r : Nat, w : Nat]
  /\ b.r <= b.w /\ b.w <= Len(b.vec)
  /\ CheapPrepend + InitialSize <= Len(b.vec)

=============================================================================
