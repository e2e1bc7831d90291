----------------------------- MODULE ByteQueue ------------------------------
(***************************************************************************)
(* What a Buffer promises its users: a queue of bytes.  Bytes arrive on    *)
(* the wire, enter the queue at the back in their order, and leave it at   *)
(* the front; the owner may also put bytes back at the front.              *)
(***************************************************************************)
EXTENDS Naturals, Sequences

VARIABLES
  wire,  \* bytes that have not entered the queue
  q,     \* the queue
  out    \* what the last operation returned

Init == q = <<>> /\ out = <<>>

IsTail(s, t) == Len(s) <= Len(t) /\ SubSeq(t, Len(t) - Len(s) + 1, Len(t)) = s

\* More bytes come onto the wire.
Arrive ==
  /\ Len(wire) <= Len(wire') /\ SubSeq(wire', 1, Len(wire)) = wire
  /\ UNCHANGED <<q, out>>

\* The first bytes of the wire enter the queue.
Push ==
  /\ IsTail(wire', wire)
  /\ q' = q \o SubSeq(wire, 1, Len(wire) - Len(wire'))
  /\ out' = <<>>

\* The first bytes of the queue leave it, returned or dropped.
Pop ==
  /\ IsTail(q', q)
  /\ out' \in {<<>>, SubSeq(q, 1, Len(q) - Len(q'))}
  /\ UNCHANGED wire

PutBack ==
  /\ IsTail(q, q')
  /\ out' = <<>>
  /\ UNCHANGED wire

Next == Arrive \/ Push \/ Pop \/ PutBack

Spec == Init /\ [][Next]_<<wire, q, out>>

=============================================================================
