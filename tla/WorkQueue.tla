----------------------------- MODULE WorkQueue ------------------------------
(***************************************************************************)
(* The containers behind ThreadPool, BlockingQueue and                     *)
(* BoundedBlockingQueue.  A queue is a record: a deque with the sequence   *)
(* of its items and max, the largest size (0: none), or the RingBuffer     *)
(* with its vector, counter and two positions.                             *)
(***************************************************************************)
EXTENDS Naturals, Sequences

NewDeque(max) == [is |-> "deque", items |-> <<>>, max |-> max]
NewRing(capacity) ==
  [is |-> "ring", buffer |-> [i \in 0..capacity - 1 |-> <<>>], capacity |-> capacity,
   numDatas |-> 0, putPos |-> 0, getPos |-> 0]

\* Mutant: the position wraps one place early.
AdvanceEarly(q, pos) == IF pos + 2 = q.capacity THEN 0 ELSE pos + 1

\* RingBuffer::add()
Advance(q, pos) == IF pos + 1 = q.capacity THEN 0 ELSE pos + 1

IsEmpty(q) == IF q.is = "ring" THEN q.numDatas = 0 ELSE q.items = <<>>
IsFull(q) ==
  IF q.is = "ring" THEN q.numDatas = q.capacity
  ELSE q.max > 0 /\ Len(q.items) >= q.max

PushBack(q, x) ==
  IF q.is = "ring"
  THEN [q EXCEPT !.buffer[q.putPos] = x, !.putPos = Advance(q, @), !.numDatas = @ + 1]
  ELSE [q EXCEPT !.items = Append(@, x)]

Front(q) == IF q.is = "ring" THEN q.buffer[q.getPos] ELSE Head(q.items)

\* The slot of the ring keeps what was moved out of it.
PopFront(q) ==
  IF q.is = "ring"
  THEN [q EXCEPT !.getPos = Advance(q, @), !.numDatas = @ - 1]
  ELSE [q EXCEPT !.items = Tail(@)]

\* What the queue holds, oldest first.
Items(q) ==
  IF q.is = "ring"
  THEN [i \in 1..q.numDatas |-> q.buffer[(q.getPos + i - 1) % q.capacity]]
  ELSE q.items

=============================================================================
