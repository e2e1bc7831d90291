-------------------------- MODULE TimerQueueProofs --------------------------
(***************************************************************************)
(* What TimerQueue.tla promises for every set of addresses and intervals,  *)
(* every number of calling threads and every bound on the number of        *)
(* timers, the queued functors and the time.                               *)
(***************************************************************************)
EXTENDS TimerQueue, SequenceTheorems, WellFoundedInduction, TLAPS

-----------------------------------------------------------------------------
(* The earliest timer                                                      *)

\* A set of natural numbers that is not empty has a least element.
LEMMA LeastNat ==
    ASSUME NEW S \in SUBSET Nat, S # {}
    PROVE  \E m \in S : \A n \in S : m <= n
<1> DEFINE R == OpToRel(<, Nat)
<1>1. IsWellFoundedOn(R, Nat)
  BY NatLessThanWellFounded
<1>2. \A m, n \in Nat : m < n => <<m, n>> \in R
  BY DEF OpToRel
<1> HIDE DEF R
<1>3. PICK m \in S : \A n \in S : ~(<<n, m>> \in R)
  BY <1>1, WFMin
<1>4. \A n \in S : ~(n < m)
  BY <1>2, <1>3, Zenon
<1>5. \A n \in S : m <= n
  BY <1>4
<1> QED BY <1>5

\* Earliest() is the expiration of an entry, and no entry is earlier.
LEMMA EarliestIsLeast ==
    ASSUME NEW T \in SUBSET (Nat \X Addrs), T # {}
    PROVE  /\ \E e \in T : Earliest(T) = e[1]
           /\ \A e \in T : Earliest(T) <= e[1]
           /\ Earliest(T) \in Nat
<1> DEFINE W == {e[1] : e \in T}
<1>1. W \in SUBSET Nat /\ W # {}
  OBVIOUS
<1>2. PICK w \in W : \A n \in W : w <= n
  <2> HIDE DEF W
  <2> QED BY <1>1, LeastNat
<1>3. Earliest(T) \in W /\ \A e \in T : Earliest(T) <= e[1]
  BY <1>2 DEF Earliest
<1> QED BY <1>1, <1>3

-----------------------------------------------------------------------------
(* The queued functors                                                     *)

\* A functor that adds carries a timer, a functor that cancels carries an id.
LEMMA FunctorFields ==
    ASSUME NEW f \in TimerFunctors
    PROVE  /\ f.call \in {"add", "cancel"}
           /\ f.call = "add" => f.timer \in Addrs
           /\ f.call = "cancel" => f.id \in TimerIds
BY DEF TimerFunctors

\* The functors that addTimer() and cancel() queue.
LEMMA NewFunctors ==
    /\ \A a \in Addrs : [call |-> "add", timer |-> a] \in TimerFunctors
    /\ \A id \in TimerIds : [call |-> "cancel", id |-> id] \in TimerFunctors
BY DEF TimerFunctors

-----------------------------------------------------------------------------
(* Types                                                                   *)

\* no expiration lies before the epoch, so that there is an earliest one
Expirations == expiration \in [Addrs -> Nat] /\ timers \subseteq Nat \X Addrs

\* no timer and no TimerId is ahead of s_numCreated
Numbered ==
    /\ \A a \in Addrs : sequence[a] <= numCreated
    /\ \A id \in activeTimers \cup dead : id[2] <= numCreated

Typed == TypeOK /\ Expirations /\ Numbered

\* A new Timer object is typed and numbered.
LEMMA NewTimerTyped ==
    ASSUME Typed, NEW a \in Addrs, NEW when \in 0..MaxTime, NEW i \in Intervals, NewTimer(a, when, i)
    PROVE  /\ numCreated' \in 0..MaxSeq /\ numCreated + 1 \in 0..MaxSeq
           /\ alive' \subseteq Addrs
           /\ sequence' \in [Addrs -> 0..MaxSeq]
           /\ expiration' \in [Addrs -> Int] /\ expiration' \in [Addrs -> Nat]
           /\ interval' \in [Addrs -> Intervals \cup {0}]
           /\ \A b \in Addrs : sequence'[b] <= numCreated'
           /\ \A id \in activeTimers \cup dead : id[2] <= numCreated'
<1> USE TimerQueueAssumption DEF Typed, TypeOK, Expirations, Numbered, NewTimer
<1>1. numCreated' \in 0..MaxSeq /\ numCreated + 1 \in 0..MaxSeq /\ alive' \subseteq Addrs
  OBVIOUS
<1>2. sequence' \in [Addrs -> 0..MaxSeq] /\ interval' \in [Addrs -> Intervals \cup {0}]
  BY <1>1
<1>3. expiration' \in [Addrs -> Int] /\ expiration' \in [Addrs -> Nat]
  OBVIOUS
<1>4. \A b \in Addrs : sequence'[b] <= numCreated'
  BY <1>1
<1>5. \A id \in activeTimers \cup dead : id[2] <= numCreated'
  BY <1>1 DEF TimerIds
<1> QED BY <1>1, <1>2, <1>3, <1>4, <1>5

\* resetTimerfd() arms the timerfd.
LEMMA ResetTimerfdTyped ==
    ASSUME NEW when \in Nat, now \in Nat, resetTimerfd(when)
    PROVE  /\ fuse' \in Nat /\ fuse' > 0 /\ expiredFd' = FALSE
           /\ fuse' = Later(when - now, 1)
BY DEF resetTimerfd, howmuchTimeFromNow, Later

\* The two sets stay typed when a typed timer is inserted.
LEMMA InsertTyped ==
    ASSUME Typed, NEW a \in Addrs, NEW when \in Nat, NEW seq \in 0..MaxSeq,
           addTimerInLoop(a, when, seq)
    PROVE  /\ timers' \subseteq Nat \X Addrs /\ timers' \subseteq Entries
           /\ activeTimers' \subseteq TimerIds
           /\ fuse' \in Nat /\ expiredFd' \in BOOLEAN
<1> USE TimerQueueAssumption DEF Typed, TypeOK, Expirations, Entries, TimerIds, addTimerInLoop, insert
<1>1. timers' \subseteq Nat \X Addrs /\ timers' \subseteq Entries
  OBVIOUS
<1>2. activeTimers' \subseteq TimerIds
  OBVIOUS
<1>3. CASE earliestChanged(when)
  <2>1. resetTimerfd(when) /\ now \in Nat
    BY <1>3
  <2>2. fuse' \in Nat /\ expiredFd' = FALSE
    BY <2>1, ResetTimerfdTyped, Zenon
  <2> QED BY <1>1, <1>2, <2>2
<1>4. CASE ~earliestChanged(when)
  BY <1>1, <1>2, <1>4 DEF fdVars
<1> QED BY <1>3, <1>4

\* cancelInLoop() leaves everything typed.
LEMMA CancelTyped ==
    ASSUME Typed, NEW id \in TimerIds, cancelInLoop(id)
    PROVE  /\ timers' \subseteq Nat \X Addrs /\ timers' \subseteq Entries
           /\ activeTimers' \subseteq TimerIds /\ cancelingTimers' \subseteq TimerIds
           /\ dead' \subseteq TimerIds /\ alive' \subseteq Addrs
           /\ \A d \in activeTimers' \cup dead' : d[2] <= numCreated
<1> USE DEF Typed, TypeOK, Expirations, cancelInLoop
<1>1. CASE id \in activeTimers
  BY <1>1 DEF Numbered
<1>2. CASE id \notin activeTimers
  <2>1. \A e \in batch : IdOf(e[2])[2] <= numCreated
    BY DEF Numbered, IdOf, Entries
  <2>2. /\ timers' = timers /\ activeTimers' = activeTimers /\ alive' = alive
        /\ cancelingTimers' \subseteq cancelingTimers \cup {id}
    BY <1>2
  <2>3. CASE id \in {IdOf(e[2]) : e \in batch}
    <3>1. id[2] <= numCreated
      BY <2>1, <2>3
    <3>2. dead' = dead \cup {id}
      BY <2>3
    <3> QED BY <2>2, <3>1, <3>2 DEF Numbered
  <2>4. CASE id \notin {IdOf(e[2]) : e \in batch}
    <3>1. dead' = dead
      BY <1>2, <2>4
    <3> QED BY <2>2, <3>1 DEF Numbered
  <2> QED BY <2>3, <2>4
<1> QED BY <1>1, <1>2

\* Every variable keeps its type, expirations are natural numbers and no
\* sequence number is ahead of Timer::s_numCreated.
LEMMA TypedStep ==
    ASSUME Typed, [Next]_vars
    PROVE  Typed'
<1> USE TimerQueueAssumption DEF clockVars, fdVars, heapVars, setVars, batchVars, userVars
<1> USE DEF Typed, TypeOK, Expirations, Numbered
<1>1. CASE Tick
  BY <1>1, SMTT(60) DEF Tick
<1>2. CASE ClockBack
  BY <1>2 DEF ClockBack
<1>3. CASE RunPending
  <2> DEFINE f == Head(pending)
  <2>1. f \in TimerFunctors /\ pending' \in Seq(TimerFunctors)
    BY <1>3, HeadTailProperties DEF RunPending
  <2>2. CASE /\ f.call = "add"
             /\ addTimerInLoop(f.timer, expiration[f.timer], sequence[f.timer])
             /\ UNCHANGED <<alive, cancelingTimers, dead>>
    <3>1. f.timer \in Addrs
      BY <2>1, <2>2, FunctorFields
    <3>2. expiration[f.timer] \in Nat /\ sequence[f.timer] \in 0..MaxSeq
      BY <3>1
    <3>3. /\ timers' \subseteq Nat \X Addrs /\ timers' \subseteq Entries
          /\ activeTimers' \subseteq TimerIds
          /\ fuse' \in Nat /\ expiredFd' \in BOOLEAN
      BY <2>2, <3>1, <3>2, InsertTyped
    <3>4. activeTimers' = activeTimers \cup {<<f.timer, sequence[f.timer]>>}
      BY <2>2 DEF addTimerInLoop, insert
    <3> HIDE DEF f
    <3>5. \A id \in activeTimers' : id[2] <= numCreated
      BY <3>1, <3>4
    <3> QED BY <1>3, <2>1, <2>2, <3>3, <3>5 DEF RunPending
  <2>3. CASE f.call = "cancel" /\ cancelInLoop(f.id) /\ UNCHANGED fdVars
    <3>1. f.id \in TimerIds
      BY <2>1, <2>3, FunctorFields
    <3> HIDE DEF f
    <3> QED BY <1>3, <2>1, <2>3, <3>1, CancelTyped DEF RunPending
  <2> QED BY <1>3, <2>2, <2>3 DEF RunPending
<1>4. CASE HandleRead
  BY <1>4 DEF HandleRead
<1>5. ASSUME NEW e \in toRun, RunTimer(e) PROVE Typed'
  BY <1>5 DEF RunTimer
<1>6. CASE Reset
  <2>1. Restarted \subseteq Addrs /\ \A a \in Restarted : readNow + interval[a] \in Nat
    <3>1. \A e \in batch : e[2] \in Addrs
      BY DEF Entries
    <3>2. Restarted \subseteq Addrs
      BY <3>1 DEF Restarted
    <3>3. ASSUME NEW a \in Addrs PROVE interval[a] \in Nat
      <4>1. interval[a] \in Intervals \cup {0}
        OBVIOUS
      <4>2. Intervals \cup {0} \subseteq Nat
        OBVIOUS
      <4> QED BY <4>1, <4>2, Zenon
    <3> QED BY <3>2, <3>3
  <2>2. expiration' \in [Addrs -> Nat] /\ expiration' \in [Addrs -> Int]
    BY <1>6, <2>1 DEF Reset
  <2>3. timers' \subseteq Nat \X Addrs /\ timers' \subseteq Entries
    BY <1>6, <2>1 DEF Reset, Entries
  <2>4. activeTimers' \subseteq TimerIds /\ \A id \in activeTimers' : id[2] <= numCreated
    BY <1>6, <2>1 DEF Reset, TimerIds, IdOf
  <2>5. fuse' \in Nat /\ expiredFd' \in BOOLEAN
    <3>1. CASE timers' # {}
      <4>1. resetTimerfd(Earliest(timers'))
        BY <1>6, <3>1, Zenon DEF Reset, Rearm
      <4>2. Earliest(timers') \in Nat /\ now \in Nat
        BY <2>3, <3>1, EarliestIsLeast
      <4> QED BY <4>1, <4>2, ResetTimerfdTyped
    <3>2. CASE timers' = {}
      BY <1>6, <3>2 DEF Reset, Rearm
    <3> QED BY <3>1, <3>2
  <2> QED BY <1>6, <2>1, <2>2, <2>3, <2>4, <2>5 DEF Reset
<1>7. ASSUME NEW a \in Addrs, NEW when \in 0..MaxTime, NEW i \in Intervals, AddTimer(a, when, i)
      PROVE  Typed'
  <2>1. /\ NewTimer(a, when, i) /\ addTimerInLoop(a, when, numCreated + 1)
        /\ ids' = ids \cup {<<a, numCreated + 1>>}
        /\ UNCHANGED <<clockVars, cancelingTimers, dead, batchVars, pending, adding>>
    BY <1>7 DEF AddTimer
  <2>2. numCreated' = numCreated + 1 /\ activeTimers' = activeTimers \cup {<<a, numCreated + 1>>}
    BY <2>1 DEF NewTimer, addTimerInLoop, insert
  <2>3. /\ numCreated' \in 0..MaxSeq /\ numCreated + 1 \in 0..MaxSeq
        /\ alive' \subseteq Addrs
        /\ sequence' \in [Addrs -> 0..MaxSeq]
        /\ expiration' \in [Addrs -> Int] /\ expiration' \in [Addrs -> Nat]
        /\ interval' \in [Addrs -> Intervals \cup {0}]
        /\ \A b \in Addrs : sequence'[b] <= numCreated'
        /\ \A id \in activeTimers \cup dead : id[2] <= numCreated'
    BY <2>1, NewTimerTyped, Zenon
  <2>4. /\ timers' \subseteq Nat \X Addrs /\ timers' \subseteq Entries
        /\ activeTimers' \subseteq TimerIds
        /\ fuse' \in Nat /\ expiredFd' \in BOOLEAN
    <3>1. when \in Nat
      OBVIOUS
    <3> QED BY <2>1, <2>3, <3>1, InsertTyped, Zenon
  <2>5. \A id \in activeTimers' \cup dead' : id[2] <= numCreated'
    BY <2>1, <2>2, <2>3, SMTT(60)
  <2>6. ids' \subseteq TimerIds
    BY <2>1, <2>3 DEF TimerIds
  <2> QED BY <2>1, <2>3, <2>4, <2>5, <2>6
<1>8. ASSUME NEW a \in Addrs, NEW when \in 0..MaxTime, NEW i \in Intervals,
             NEW t \in Callers, QueueAdd(t, a, when, i)
      PROVE  Typed'
  <2>1. NewTimer(a, when, i)
    BY <1>8 DEF QueueAdd
  <2>2. /\ numCreated' \in 0..MaxSeq
        /\ alive' \subseteq Addrs
        /\ sequence' \in [Addrs -> 0..MaxSeq]
        /\ expiration' \in [Addrs -> Int] /\ expiration' \in [Addrs -> Nat]
        /\ interval' \in [Addrs -> Intervals \cup {0}]
        /\ \A b \in Addrs : sequence'[b] <= numCreated'
        /\ \A id \in activeTimers \cup dead : id[2] <= numCreated'
    BY <2>1, NewTimerTyped, Zenon
  <2>3. pending' \in Seq(TimerFunctors) /\ adding' \in [Callers -> Addrs \cup {None}]
    BY <1>8, NewFunctors DEF QueueAdd
  <2> QED BY <1>8, <2>2, <2>3 DEF QueueAdd
<1>9. ASSUME NEW id \in ids, Cancel(id) PROVE Typed'
  <2>1. id \in TimerIds /\ cancelInLoop(id)
    BY <1>9 DEF Cancel
  <2>2. /\ timers' \subseteq Nat \X Addrs /\ timers' \subseteq Entries
        /\ activeTimers' \subseteq TimerIds /\ cancelingTimers' \subseteq TimerIds
        /\ dead' \subseteq TimerIds /\ alive' \subseteq Addrs
        /\ \A d \in activeTimers' \cup dead' : d[2] <= numCreated
    BY <2>1, CancelTyped, Zenon
  <2> QED BY <1>9, <2>2 DEF Cancel
<1>10. ASSUME NEW id \in ids, QueueCancel(id) PROVE Typed'
  BY <1>10, NewFunctors, SMTT(60) DEF QueueCancel
<1>11. ASSUME NEW t \in Callers, ReturnId(t) PROVE Typed'
  <2>1. adding[t] \in Addrs
    BY <1>11 DEF ReturnId
  <2>2. ids' \subseteq TimerIds
    BY <1>11, <2>1 DEF ReturnId, TimerIds
  <2> QED BY <1>11, <2>2 DEF ReturnId
<1>12. CASE UNCHANGED vars
  BY <1>12 DEF vars
<1> QED
  BY <1>1, <1>2, <1>3, <1>4, <1>5, <1>6, <1>7, <1>8, <1>9, <1>10, <1>11, <1>12 DEF Next, LoopStep

-----------------------------------------------------------------------------
(* The sequence of functors                                                *)

\* the timers that the functors of q will add
TimersOf(q) == {q[i].timer : i \in {j \in DOMAIN q : q[j].call = "add"}}

\* no two functors of q add the same timer
AddsOnce(q) ==
    \A i, j \in DOMAIN q :
        q[i].call = "add" /\ q[j].call = "add" /\ q[i].timer = q[j].timer => i = j

\* The properties of TimerQueue.tla in these terms.
LEMMA PendingOperators ==
    /\ ToBeAdded = TimersOf(pending)
    /\ (\A i, j \in Adds : pending[i].timer = pending[j].timer => i = j) <=> AddsOnce(pending)
BY DEF ToBeAdded, TimersOf, Adds, AddsOnce

\* addTimer() from another thread: one more timer to be added.
LEMMA AppendAdd ==
    ASSUME NEW q \in Seq(TimerFunctors), NEW a \in Addrs, AddsOnce(q), a \notin TimersOf(q),
           NEW r, r = Append(q, [call |-> "add", timer |-> a])
    PROVE  TimersOf(r) = TimersOf(q) \cup {a} /\ AddsOnce(r)
<1> DEFINE f == [call |-> "add", timer |-> a]
<1>1. /\ r \in Seq(TimerFunctors) /\ Len(r) = Len(q) + 1 /\ r[Len(q) + 1] = f
      /\ \A i \in 1..Len(q) : r[i] = q[i]
  BY NewFunctors, AppendProperties
<1>2. DOMAIN q = 1..Len(q) /\ DOMAIN r = 1..(Len(q) + 1) /\ Len(q) \in Nat
  BY <1>1
<1>3. TimersOf(r) \subseteq TimersOf(q) \cup {a}
  BY <1>1, <1>2 DEF TimersOf
<1>4. TimersOf(q) \cup {a} \subseteq TimersOf(r)
  BY <1>1, <1>2 DEF TimersOf
<1>5. AddsOnce(r)
  BY <1>1, <1>2 DEF TimersOf, AddsOnce
<1> QED BY <1>3, <1>4, <1>5

\* cancel() from another thread leaves the timers to be added alone.
LEMMA AppendCancel ==
    ASSUME NEW q \in Seq(TimerFunctors), NEW id \in TimerIds, AddsOnce(q),
           NEW r, r = Append(q, [call |-> "cancel", id |-> id])
    PROVE  TimersOf(r) = TimersOf(q) /\ AddsOnce(r)
<1> DEFINE f == [call |-> "cancel", id |-> id]
<1>1. /\ r \in Seq(TimerFunctors) /\ Len(r) = Len(q) + 1 /\ r[Len(q) + 1].call = "cancel"
      /\ \A i \in 1..Len(q) : r[i] = q[i]
  BY NewFunctors, AppendProperties
<1>2. DOMAIN q = 1..Len(q) /\ DOMAIN r = 1..(Len(q) + 1) /\ Len(q) \in Nat
  BY <1>1
<1>3. TimersOf(r) = TimersOf(q)
  BY <1>1, <1>2 DEF TimersOf
<1>4. AddsOnce(r)
  BY <1>1, <1>2 DEF AddsOnce
<1> QED BY <1>3, <1>4

\* The functor at the head is run: its timer is no longer to be added.
LEMMA TailOfPending ==
    ASSUME NEW q \in Seq(TimerFunctors), q # <<>>, AddsOnce(q), NEW r, r = Tail(q)
    PROVE  /\ AddsOnce(r)
           /\ Head(q).call = "add" => /\ Head(q).timer \in TimersOf(q)
                                      /\ TimersOf(r) = TimersOf(q) \ {Head(q).timer}
           /\ Head(q).call = "cancel" => TimersOf(r) = TimersOf(q)
<1>1. /\ r \in Seq(TimerFunctors) /\ Len(r) = Len(q) - 1 /\ Head(q) = q[1]
      /\ \A i \in 1..Len(r) : r[i] = q[i + 1]
      /\ Len(q) \in Nat /\ Len(q) > 0
  BY HeadTailProperties
<1>2. DOMAIN q = 1..Len(q) /\ DOMAIN r = 1..(Len(q) - 1)
  BY <1>1
<1>3. AddsOnce(r)
  BY <1>1, <1>2 DEF AddsOnce
<1>4. TimersOf(r) \subseteq TimersOf(q)
  BY <1>1, <1>2 DEF TimersOf
<1>5. \A x \in TimersOf(q) : x \in TimersOf(r) \/ (q[1].call = "add" /\ x = q[1].timer)
  <2> SUFFICES ASSUME NEW i \in 1..Len(q), q[i].call = "add"
               PROVE  q[i].timer \in TimersOf(r) \/ (q[1].call = "add" /\ q[i].timer = q[1].timer)
    BY <1>2 DEF TimersOf
  <2>1. CASE i = 1
    BY <2>1
  <2>2. CASE i # 1
    <3>1. i - 1 \in 1..Len(r) /\ r[i - 1] = q[i]
      BY <2>2, <1>1
    <3> QED BY <3>1, <1>1, <1>2 DEF TimersOf
  <2> QED BY <2>1, <2>2
<1>6. CASE Head(q).call = "add"
  <2>1. q[1].timer \in TimersOf(q)
    BY <1>1, <1>2, <1>6 DEF TimersOf
  <2>2. q[1].timer \notin TimersOf(r)
    BY <1>1, <1>2, <1>6 DEF TimersOf, AddsOnce
  <2> QED BY <1>1, <1>3, <1>4, <1>5, <1>6, <2>1, <2>2
<1>7. CASE Head(q).call # "add"
  BY <1>1, <1>3, <1>4, <1>5, <1>7
<1> QED BY <1>6, <1>7

-----------------------------------------------------------------------------
(* The owners of the Timer objects                                         *)

\* _timers and _activeTimers, address by address
QueueInv ==
    /\ \A e \in timers : e[2] \in Queued /\ e[1] = expiration[e[2]]
    /\ \A a \in Queued : <<expiration[a], a>> \in timers
    /\ \A id \in activeTimers : id[2] = sequence[id[1]]

BatchAddrs == {e[2] : e \in batch}

\* a timer of the batch keeps its expiration until reset()
BatchInv ==
    /\ \A e \in batch : e[1] = expiration[e[2]]
    /\ ~callingExpiredTimers => batch = {}

\* a functor that adds is the only owner of its timer, which nobody cancelled
PendingInv ==
    /\ AddsOnce(pending)
    /\ \A a \in TimersOf(pending) : IdOf(a) \notin dead

OwnerInv ==
    /\ alive = Queued \cup BatchAddrs \cup TimersOf(pending)
    /\ Queued \cap BatchAddrs = {} /\ Queued \cap TimersOf(pending) = {} /\ BatchAddrs \cap TimersOf(pending) = {}

DeadInv ==
    \A id \in dead :
        /\ id \notin activeTimers
        /\ \A a \in BatchAddrs : id = IdOf(a) => id \in cancelingTimers

Inv == QueueInv /\ BatchInv /\ PendingInv /\ OwnerInv /\ DeadInv

-----------------------------------------------------------------------------
(* One lemma per way the sets change                                       *)

\* The entries and ids that the invariant talks about are pairs.
LEMMA Pairs ==
    ASSUME Typed
    PROVE  /\ \A e \in timers : e = <<e[1], e[2]>> /\ e[1] \in Nat /\ e[2] \in Addrs
           /\ \A e \in batch : e = <<e[1], e[2]>> /\ e[1] \in Int /\ e[2] \in Addrs
           /\ \A id \in activeTimers \cup dead \cup ids :
                 id = <<id[1], id[2]>> /\ id[1] \in Addrs /\ id[2] \in 0..MaxSeq
           /\ Queued \subseteq Addrs /\ BatchAddrs \subseteq Addrs
BY DEF Typed, TypeOK, Expirations, Entries, TimerIds, Queued, BatchAddrs

\* insert() of a timer that is not in the queue yet, old or just created.
LEMMA InsertStep ==
    ASSUME Typed, QueueInv, NEW a \in Addrs, a \notin Queued,
           insert(a, expiration'[a], sequence'[a]),
           \A b \in Addrs : b # a => expiration'[b] = expiration[b] /\ sequence'[b] = sequence[b]
    PROVE  QueueInv' /\ Queued' = Queued \cup {a}
<1>1. /\ timers' = timers \cup {<<expiration'[a], a>>}
      /\ activeTimers' = activeTimers \cup {<<a, sequence'[a]>>}
  BY DEF insert
<1>2. Queued' = Queued \cup {a}
  <2> DEFINE new == <<a, sequence'[a]>>
  <2>1. new[1] = a
    OBVIOUS
  <2> HIDE DEF new
  <2>2. activeTimers' = activeTimers \cup {new}
    BY <1>1 DEF new
  <2> QED BY <2>1, <2>2 DEF Queued
<1>3. \A e \in timers' : e[2] \in Queued' /\ e[1] = expiration'[e[2]]
  BY <1>1, <1>2, Pairs DEF QueueInv
<1>4. \A b \in Queued' : <<expiration'[b], b>> \in timers'
  BY <1>1, <1>2, Pairs DEF QueueInv
<1>5. \A id \in activeTimers' : id[2] = sequence'[id[1]]
  BY <1>1, Pairs DEF QueueInv, Queued
<1> QED BY <1>2, <1>3, <1>4, <1>5 DEF QueueInv

\* cancelInLoop() of a timer that is in the queue.
LEMMA CancelActive ==
    ASSUME Typed, QueueInv, NEW id \in activeTimers, cancelInLoop(id), UNCHANGED <<expiration, sequence>>
    PROVE  /\ QueueInv' /\ Queued' = Queued \ {id[1]} /\ id[1] \in Queued
           /\ activeTimers' = activeTimers \ {id} /\ alive' = alive \ {id[1]}
           /\ dead' = dead \cup {id} /\ cancelingTimers' = cancelingTimers
<1>1. /\ timers' = timers \ {<<expiration[id[1]], id[1]>>}
      /\ activeTimers' = activeTimers \ {id} /\ alive' = alive \ {id[1]}
      /\ dead' = dead \cup {id} /\ cancelingTimers' = cancelingTimers
  BY DEF cancelInLoop, Entry
<1>2. id[1] \in Queued
  BY DEF Queued
<1>3. \A j \in activeTimers : j[1] = id[1] => j = id
  BY Pairs DEF QueueInv
<1>4. Queued' = Queued \ {id[1]}
  BY <1>1, <1>3 DEF Queued
<1>5. \A e \in timers' : e[2] \in Queued' /\ e[1] = expiration[e[2]]
  BY <1>1, <1>4, Pairs DEF QueueInv
<1>6. \A b \in Queued' : <<expiration[b], b>> \in timers'
  BY <1>1, <1>4, Pairs DEF QueueInv
<1>7. \A j \in activeTimers' : j[2] = sequence[j[1]]
  BY <1>1 DEF QueueInv
<1> QED BY <1>1, <1>2, <1>4, <1>5, <1>6, <1>7 DEF QueueInv

\* cancelInLoop() of a timer that is not in the queue.
LEMMA CancelInactive ==
    ASSUME Typed, NEW id, id \notin activeTimers, cancelInLoop(id)
    PROVE  /\ UNCHANGED <<timers, activeTimers, alive>>
           /\ cancelingTimers' = IF callingExpiredTimers THEN cancelingTimers \cup {id}
                                 ELSE cancelingTimers
           /\ dead' = IF \E a \in BatchAddrs : id = IdOf(a) THEN dead \cup {id} ELSE dead
<1>1. /\ UNCHANGED <<timers, activeTimers, alive>>
      /\ cancelingTimers' = IF callingExpiredTimers THEN cancelingTimers \cup {id}
                            ELSE cancelingTimers
      /\ dead' = IF id \in activeTimers \cup {IdOf(e[2]) : e \in batch} THEN dead \cup {id} ELSE dead
  BY DEF cancelInLoop
<1>2. id \in activeTimers \cup {IdOf(e[2]) : e \in batch} <=> \E a \in BatchAddrs : id = IdOf(a)
  BY DEF BatchAddrs
<1> QED BY <1>1, <1>2, Zenon

\* cancelInLoop(), on the loop thread or from a functor.
LEMMA CancelStep ==
    ASSUME Typed, Inv, NEW id, cancelInLoop(id), TimersOf(pending') = TimersOf(pending), AddsOnce(pending'),
           UNCHANGED <<expiration, sequence, batch, callingExpiredTimers>>
    PROVE  Inv'
<1> USE DEF Inv
<1>1. CASE id \in activeTimers
  <2>1. /\ QueueInv' /\ Queued' = Queued \ {id[1]} /\ id[1] \in Queued
        /\ activeTimers' = activeTimers \ {id} /\ alive' = alive \ {id[1]}
        /\ dead' = dead \cup {id} /\ cancelingTimers' = cancelingTimers
    BY <1>1, CancelActive, Zenon
  <2>2. BatchAddrs' = BatchAddrs /\ \A a : IdOf(a)' = IdOf(a)
    BY DEF BatchAddrs, IdOf
  <2>3. BatchInv'
    BY DEF BatchInv
  <2>4. OwnerInv'
    BY <2>1, <2>2 DEF OwnerInv
  <2>5. id = IdOf(id[1])
    BY <1>1, Pairs DEF QueueInv, IdOf
  <2>6. PendingInv'
    <3>1. \A a \in TimersOf(pending) : IdOf(a) # id
      BY <2>1, <2>5 DEF OwnerInv, IdOf
    <3> QED BY <2>1, <2>2, <3>1 DEF PendingInv
  <2>7. DeadInv'
    <3>1. \A a \in BatchAddrs : IdOf(a) # id
      BY <2>1, <2>5 DEF OwnerInv, IdOf
    <3> QED BY <2>1, <2>2, <3>1 DEF DeadInv
  <2> QED BY <2>1, <2>3, <2>4, <2>6, <2>7
<1>2. CASE id \notin activeTimers
  <2>1. /\ UNCHANGED <<timers, activeTimers, alive>>
        /\ cancelingTimers' = IF callingExpiredTimers THEN cancelingTimers \cup {id}
                              ELSE cancelingTimers
        /\ dead' = IF \E a \in BatchAddrs : id = IdOf(a) THEN dead \cup {id} ELSE dead
    BY <1>2, CancelInactive, Zenon
  <2>2. BatchAddrs' = BatchAddrs /\ Queued' = Queued /\ \A a : IdOf(a)' = IdOf(a)
    BY <2>1 DEF BatchAddrs, IdOf, Queued
  <2>3. QueueInv' /\ BatchInv' /\ OwnerInv'
    BY <2>1, <2>2 DEF QueueInv, BatchInv, OwnerInv
  <2>4. PendingInv'
    <3>1. \A a \in BatchAddrs, b \in TimersOf(pending) : IdOf(a) # IdOf(b)
      BY DEF OwnerInv, IdOf
    <3> QED BY <2>1, <2>2, <3>1 DEF PendingInv
  <2>5. DeadInv'
    <3>1. CASE \E a \in BatchAddrs : id = IdOf(a)
      <4>1. callingExpiredTimers
        BY <3>1 DEF BatchInv, BatchAddrs
      <4>2. dead' = dead \cup {id} /\ cancelingTimers' = cancelingTimers \cup {id}
        BY <2>1, <3>1, <4>1
      <4> QED BY <1>2, <2>1, <2>2, <4>2 DEF DeadInv
    <3>2. CASE ~\E a \in BatchAddrs : id = IdOf(a)
      <4>1. dead' = dead /\ cancelingTimers \subseteq cancelingTimers'
        BY <2>1, <3>2
      <4> QED BY <1>2, <2>1, <2>2, <4>1 DEF DeadInv
    <3> QED BY <3>1, <3>2
  <2> QED BY <2>3, <2>4, <2>5
<1> QED BY <1>1, <1>2

\* The invariant is inductive: one step per action.
LEMMA InvStep ==
    ASSUME Typed, Inv, [Next]_vars
    PROVE  Inv'
<1> USE DEF Inv
<1>1. CASE UNCHANGED <<heapVars, setVars, batchVars, pending>>
  BY <1>1 DEF heapVars, setVars, batchVars, QueueInv, BatchInv, PendingInv, OwnerInv, DeadInv,
              Queued, BatchAddrs, IdOf
<1>2. CASE RunPending
  <2> DEFINE f == Head(pending)
  <2> HIDE DEF f
  <2>1. /\ pending \in Seq(TimerFunctors) /\ pending # <<>> /\ pending' = Tail(pending)
        /\ ~callingExpiredTimers
        /\ UNCHANGED <<sequence, expiration, batch, callingExpiredTimers>>
    BY <1>2 DEF RunPending, Typed, TypeOK, batchVars
  <2>2. f \in TimerFunctors
    BY <2>1, HeadTailProperties DEF f
  <2>3. /\ AddsOnce(pending')
        /\ f.call = "add" => /\ f.timer \in TimersOf(pending)
                             /\ TimersOf(pending') = TimersOf(pending) \ {f.timer}
        /\ f.call = "cancel" => TimersOf(pending') = TimersOf(pending)
    BY <2>1, TailOfPending DEF PendingInv, f
  <2>4. CASE /\ f.call = "add"
             /\ addTimerInLoop(f.timer, expiration[f.timer], sequence[f.timer])
             /\ UNCHANGED <<alive, cancelingTimers, dead>>
    <3> DEFINE a == f.timer
    <3> HIDE DEF a
    <3>1. a \in Addrs /\ a \in TimersOf(pending) /\ TimersOf(pending') = TimersOf(pending) \ {a}
      BY <2>2, <2>3, <2>4, FunctorFields DEF a
    <3>2. insert(a, expiration[a], sequence[a])
      BY <2>4 DEF addTimerInLoop, a
    <3>3. a \notin Queued /\ a \notin BatchAddrs
      BY <3>1 DEF OwnerInv
    <3>4. QueueInv' /\ Queued' = Queued \cup {a}
      BY <2>1, <3>1, <3>2, <3>3, InsertStep
    <3>5. BatchAddrs' = BatchAddrs /\ \A b : IdOf(b)' = IdOf(b)
      BY <2>1 DEF BatchAddrs, IdOf
    <3>6. BatchInv'
      BY <2>1 DEF BatchInv
    <3>7. OwnerInv'
      BY <2>4, <3>1, <3>4, <3>5 DEF OwnerInv
    <3>8. PendingInv'
      BY <2>3, <2>4, <3>1, <3>5 DEF PendingInv
    <3>9. DeadInv'
      <4>1. activeTimers' = activeTimers \cup {IdOf(a)} /\ IdOf(a) \notin dead
        BY <3>1, <3>2 DEF insert, IdOf, PendingInv
      <4> QED BY <2>4, <3>5, <4>1 DEF DeadInv
    <3> QED BY <3>4, <3>6, <3>7, <3>8, <3>9
  <2>5. CASE f.call = "cancel" /\ cancelInLoop(f.id) /\ UNCHANGED fdVars
    BY <2>1, <2>3, <2>5, CancelStep
  <2> QED BY <1>2, <2>4, <2>5 DEF RunPending, f
<1>3. CASE HandleRead
  <2> DEFINE due == {e \in timers : e[1] <= now}
  <2> HIDE DEF due
  <2>1. /\ batch' = due /\ timers' = timers \ due
        /\ activeTimers' = activeTimers \ {IdOf(e[2]) : e \in due}
        /\ callingExpiredTimers' = TRUE /\ batch = {}
        /\ UNCHANGED <<alive, sequence, expiration, dead, pending>>
    BY <1>3 DEF HandleRead, heapVars, userVars, BatchInv, due
  <2>2. due \subseteq timers
    BY DEF due
  <2>3. BatchAddrs' = {e[2] : e \in due} /\ BatchAddrs = {} /\ \A b : IdOf(b)' = IdOf(b)
    BY <2>1 DEF BatchAddrs, IdOf
  <2>4. BatchAddrs' \subseteq Queued
    BY <2>2, <2>3 DEF QueueInv
  <2>5. \A id \in activeTimers : id \in activeTimers' <=> id[1] \notin BatchAddrs'
    BY <2>1, <2>2, <2>3, Pairs DEF QueueInv, IdOf
  <2>6. Queued' = Queued \ BatchAddrs'
    <3>1. \A id \in activeTimers, j \in activeTimers : id[1] = j[1] => id = j
      BY Pairs DEF QueueInv
    <3> QED BY <2>1, <2>5, <3>1 DEF Queued
  <2>7. \A e \in timers : e \in due <=> e[2] \in BatchAddrs'
    BY <2>2, <2>3, Pairs DEF QueueInv
  <2>8. QueueInv'
    <3>1. \A e \in timers' : e[2] \in Queued' /\ e[1] = expiration[e[2]]
      BY <2>1, <2>6, <2>7 DEF QueueInv
    <3>2. \A b \in Queued' : <<expiration[b], b>> \in timers'
      BY <2>1, <2>6, <2>7, Pairs DEF QueueInv
    <3> QED BY <2>1, <3>1, <3>2 DEF QueueInv
  <2>9. BatchInv'
    BY <2>1, <2>2 DEF BatchInv, QueueInv
  <2>10. OwnerInv' /\ PendingInv'
    BY <2>1, <2>3, <2>4, <2>6 DEF OwnerInv, PendingInv
  <2>11. DeadInv'
    <3>1. \A a \in Queued : IdOf(a) \in activeTimers
      BY Pairs DEF Queued, QueueInv, IdOf
    <3> QED BY <2>1, <2>3, <2>4, <3>1 DEF DeadInv
  <2> QED BY <2>8, <2>9, <2>10, <2>11
<1>4. ASSUME NEW e \in toRun, RunTimer(e) PROVE Inv'
  BY <1>4 DEF RunTimer, heapVars, setVars, userVars, QueueInv, BatchInv, PendingInv, OwnerInv, DeadInv,
              Queued, BatchAddrs, IdOf
<1>5. CASE Reset
  <2>1. /\ callingExpiredTimers /\ callingExpiredTimers' = FALSE /\ batch' = {}
        /\ timers' = timers \cup {<<readNow + interval[a], a>> : a \in Restarted}
        /\ activeTimers' = activeTimers \cup {IdOf(a) : a \in Restarted}
        /\ alive' = alive \ ({e[2] : e \in batch} \ Restarted)
        /\ UNCHANGED <<sequence, cancelingTimers, dead, pending>>
    BY <1>5 DEF Reset, userVars
  <2>2. \A a \in Addrs : expiration'[a] = IF a \in Restarted THEN readNow + interval[a]
                                            ELSE expiration[a]
    BY <1>5 DEF Reset
  <2>3. /\ Restarted \subseteq BatchAddrs
        /\ \A a \in Restarted : IdOf(a) \notin cancelingTimers
    BY DEF Restarted, BatchAddrs
  <2>4. BatchAddrs' = {} /\ alive' = alive \ (BatchAddrs \ Restarted) /\ \A b : IdOf(b)' = IdOf(b)
    BY <2>1 DEF BatchAddrs, IdOf
  <2>5. Queued' = Queued \cup Restarted
    <3>1. \A a : IdOf(a)[1] = a
      BY DEF IdOf
    <3> QED BY <2>1, <3>1 DEF Queued
  <2>6. Restarted \cap Queued = {} /\ Restarted \subseteq Addrs
    BY <2>3, Pairs DEF OwnerInv
  <2>7. QueueInv'
    <3>1. \A e \in timers' : e[2] \in Queued' /\ e[1] = expiration'[e[2]]
      BY <2>1, <2>2, <2>5, <2>6, Pairs DEF QueueInv
    <3>2. \A b \in Queued' : <<expiration'[b], b>> \in timers'
      BY <2>1, <2>2, <2>5, <2>6, Pairs DEF QueueInv
    <3>3. \A id \in activeTimers' : id[2] = sequence[id[1]]
      BY <2>1 DEF QueueInv, IdOf
    <3> QED BY <2>1, <3>1, <3>2, <3>3 DEF QueueInv
  <2>8. BatchInv' /\ PendingInv'
    BY <2>1, <2>4 DEF BatchInv, PendingInv
  <2>9. OwnerInv'
    BY <2>1, <2>3, <2>4, <2>5 DEF OwnerInv
  <2>10. DeadInv'
    BY <2>1, <2>3, <2>4 DEF DeadInv
  <2> QED BY <2>7, <2>8, <2>9, <2>10
<1>6. ASSUME NEW a \in Addrs, NEW when \in 0..MaxTime, NEW i \in Intervals,
             NewTimer(a, when, i), UNCHANGED <<dead, batchVars, cancelingTimers>>,
             \/ insert(a, when, numCreated + 1) /\ UNCHANGED pending
             \/ /\ pending' = Append(pending, [call |-> "add", timer |-> a])
                /\ UNCHANGED <<timers, activeTimers>>
      PROVE  Inv'
  <2>1. /\ a \notin alive /\ alive' = alive \cup {a}
        /\ expiration' = [expiration EXCEPT ![a] = when]
        /\ sequence' = [sequence EXCEPT ![a] = numCreated + 1]
        /\ UNCHANGED <<batch, callingExpiredTimers>>
    BY <1>6 DEF NewTimer, batchVars
  <2>2. /\ expiration'[a] = when /\ sequence'[a] = numCreated + 1
        /\ \A b \in Addrs : b # a => expiration'[b] = expiration[b] /\ sequence'[b] = sequence[b]
    BY <2>1 DEF Typed, TypeOK
  <2>3. a \notin Queued /\ a \notin BatchAddrs /\ a \notin TimersOf(pending)
    BY <2>1 DEF OwnerInv
  <2>4. BatchAddrs' = BatchAddrs /\ \A b \in Addrs : b # a => IdOf(b)' = IdOf(b)
    BY <2>1, <2>2 DEF BatchAddrs, IdOf
  <2>5. BatchInv'
    BY <2>1, <2>2, <2>3, Pairs DEF BatchInv, BatchAddrs
  <2>6. <<a, numCreated + 1>> \notin dead /\ IdOf(a)' = <<a, numCreated + 1>>
    BY <2>2 DEF Typed, Numbered, TypeOK, IdOf
  <2>7. TimersOf(pending) \subseteq Addrs
    BY DEF OwnerInv, Typed, TypeOK
  <2>8. CASE insert(a, when, numCreated + 1) /\ UNCHANGED pending
    <3>1. QueueInv' /\ Queued' = Queued \cup {a}
      BY <2>2, <2>3, <2>8, InsertStep
    <3>2. activeTimers' = activeTimers \cup {<<a, numCreated + 1>>}
      BY <2>8 DEF insert
    <3>3. OwnerInv'
      BY <2>1, <2>3, <2>4, <2>8, <3>1 DEF OwnerInv
    <3>4. PendingInv'
      BY <1>6, <2>3, <2>4, <2>7, <2>8 DEF PendingInv
    <3>5. DeadInv'
      BY <1>6, <2>3, <2>4, <2>6, <3>2, Pairs DEF DeadInv
    <3> QED BY <2>5, <3>1, <3>3, <3>4, <3>5
  <2>9. CASE /\ pending' = Append(pending, [call |-> "add", timer |-> a])
             /\ UNCHANGED <<timers, activeTimers>>
    <3>1. TimersOf(pending') = TimersOf(pending) \cup {a} /\ AddsOnce(pending')
      BY <2>3, <2>9, AppendAdd DEF Typed, TypeOK, PendingInv
    <3>2. Queued' = Queued
      BY <2>9 DEF Queued
    <3>3. QueueInv'
      BY <2>2, <2>3, <2>9, <3>2, Pairs, SMTT(60) DEF QueueInv, Queued
    <3>4. OwnerInv'
      BY <2>1, <2>3, <2>4, <3>1, <3>2 DEF OwnerInv
    <3>5. PendingInv'
      BY <1>6, <2>4, <2>6, <2>7, <3>1 DEF PendingInv
    <3>6. DeadInv'
      BY <1>6, <2>3, <2>4, <2>9, Pairs DEF DeadInv
    <3> QED BY <2>5, <3>3, <3>4, <3>5, <3>6
  <2> QED BY <1>6, <2>8, <2>9
<1>7. ASSUME NEW id \in ids, Cancel(id) PROVE Inv'
  BY <1>7, CancelStep DEF Cancel, batchVars, userVars, PendingInv
<1>8. ASSUME NEW id \in ids, QueueCancel(id) PROVE Inv'
  <2>1. TimersOf(pending') = TimersOf(pending) /\ AddsOnce(pending')
    BY <1>8, AppendCancel DEF QueueCancel, Typed, TypeOK, PendingInv
  <2> QED
    BY <1>8, <2>1 DEF QueueCancel, heapVars, setVars, batchVars, QueueInv, BatchInv, PendingInv,
                      OwnerInv, DeadInv, Queued, BatchAddrs, IdOf
<1>9. CASE Tick \/ ClockBack \/ (\E t \in Callers : ReturnId(t)) \/ UNCHANGED vars
  BY <1>1, <1>9 DEF Tick, ClockBack, ReturnId, vars, userVars
<1>10. ASSUME NEW a \in Addrs, NEW when \in 0..MaxTime, NEW i \in Intervals,
              AddTimer(a, when, i) \/ \E t \in Callers : QueueAdd(t, a, when, i)
       PROVE  Inv'
  BY <1>6, <1>10 DEF AddTimer, QueueAdd, addTimerInLoop, setVars
<1> QED
  BY <1>2, <1>3, <1>4, <1>5, <1>7, <1>8, <1>9, <1>10 DEF Next, LoopStep

-----------------------------------------------------------------------------
(* The theorems                                                            *)

\* Every reachable state is typed and satisfies the invariant.
THEOREM Invariant == Spec => [](Typed /\ Inv)
<1>1. Init => Typed
  <2> SUFFICES ASSUME Init PROVE Typed
    OBVIOUS
  <2>1. 0 \in 0..MaxTime /\ 0 \in 0..MaxBacks /\ 0 \in 0..MaxSeq
    BY TimerQueueAssumption
  <2>2. /\ sequence \in [Addrs -> 0..MaxSeq] /\ interval \in [Addrs -> Intervals \cup {0}]
        /\ expiration \in [Addrs -> Int]
    BY <2>1 DEF Init
  <2>3. Expirations /\ Numbered
    BY DEF Init, Expirations, Numbered
  <2>4. pending \in Seq(TimerFunctors) /\ adding \in [Callers -> Addrs \cup {None}]
    BY DEF Init
  <2>5. /\ now = 0 /\ backs = 0 /\ fuse = 0 /\ expiredFd = FALSE /\ numCreated = 0 /\ readNow = 0
        /\ callingExpiredTimers = FALSE
        /\ alive = {} /\ timers = {} /\ activeTimers = {} /\ cancelingTimers = {} /\ dead = {}
        /\ batch = {} /\ toRun = {} /\ ids = {}
    BY DEF Init
  <2> QED BY <2>1, <2>2, <2>3, <2>4, <2>5 DEF Typed, TypeOK
<1>2. Init => Inv
  <2> SUFFICES ASSUME Init PROVE Inv
    OBVIOUS
  <2>1. Queued = {} /\ BatchAddrs = {} /\ TimersOf(pending) = {} /\ AddsOnce(pending)
    BY DEF Init, Queued, BatchAddrs, TimersOf, AddsOnce
  <2> QED BY <2>1 DEF Init, Inv, QueueInv, BatchInv, PendingInv, OwnerInv, DeadInv
<1>3. Typed /\ Inv /\ [Next]_vars => Typed' /\ Inv'
  BY TypedStep, InvStep
<1> QED BY <1>1, <1>2, <1>3, PTL DEF Spec

\* For every number of timers, addresses and threads, _timers and
\* _activeTimers hold the same timers under their current expiration and
\* sequence: no assertion on the sets fails (TimerQueue::insert,
\* cancelInLoop, getExpired, reset).
THEOREM SetsAlwaysMatch == Spec => []SetsMatch
<1>1. Typed /\ Inv => SetsMatch
  <2> SUFFICES ASSUME Typed, QueueInv PROVE SetsMatch
    BY DEF Inv
  <2>1. \A id \in activeTimers : id = IdOf(id[1])
    BY Pairs DEF QueueInv, IdOf
  <2>2. \A id \in activeTimers : Entry(id[1]) \in timers
    BY DEF QueueInv, Queued, Entry
  <2>3. \A e \in timers : \E id \in activeTimers : e = Entry(id[1])
    BY Pairs DEF QueueInv, Queued, Entry
  <2> QED BY <2>1, <2>2, <2>3 DEF SetsMatch
<1> QED BY <1>1, Invariant, PTL

\* Every Timer object has exactly one owner, however adding, cancelling,
\* expiring and restarting interleave: none leaks, none is deleted twice or
\* used after it was deleted (TimerQueue::addTimer, cancelInLoop, reset).
THEOREM TimersHaveOneOwner == Spec => []OneOwner
<1>1. Inv => OneOwner
  <2> SUFFICES ASSUME Inv PROVE OneOwner
    OBVIOUS
  <2>1. InBatch = BatchAddrs
    BY DEF Inv, BatchInv, InBatch, BatchAddrs
  <2> QED BY <2>1, PendingOperators DEF Inv, OwnerInv, PendingInv, OneOwner
<1> QED BY <1>1, Invariant, PTL

\* A timer that cancelInLoop() found never gets back into the queue, also when
\* its address is given to a new timer (TimerQueue::cancelInLoop, reset).
THEOREM CancelledStaysOutHolds == Spec => []CancelledStaysOut
<1>1. Inv => CancelledStaysOut
  BY DEF Inv, DeadInv, BatchAddrs, CancelledStaysOut
<1> QED BY <1>1, Invariant, PTL

\* the timerfd covers every timer of the queue, not only the earliest
CoversAll ==
    ~callingExpiredTimers => \A e \in timers : expiredFd \/ (fuse > 0 /\ fuse <= Later(e[1] - now, 1))

\* Setting the timerfd for a time covers every timer that is not earlier.
LEMMA ResetCovers ==
    ASSUME NEW when \in Nat, now \in Nat, resetTimerfd(when), NEW w \in Nat, when <= w
    PROVE  fuse' > 0 /\ fuse' <= Later(w - now, 1)
<1>1. fuse' \in Nat /\ fuse' > 0 /\ fuse' = Later(when - now, 1)
  BY ResetTimerfdTyped, Zenon
<1>2. Later(when - now, 1) <= Later(w - now, 1)
  BY DEF Later
<1> QED BY <1>1, <1>2

\* The timerfd keeps covering the timers.
LEMMA CoversAllStep ==
    ASSUME Typed, CoversAll, [Next]_vars
    PROVE  CoversAll'
<1> USE TimerQueueAssumption
<1>1. ASSUME NEW a \in Addrs, NEW when \in Nat, NEW seq, addTimerInLoop(a, when, seq),
             UNCHANGED <<now, callingExpiredTimers>>
      PROVE  CoversAll'
  <2> SUFFICES ASSUME ~callingExpiredTimers, NEW e \in timers'
               PROVE  expiredFd' \/ (fuse' > 0 /\ fuse' <= Later(e[1] - now, 1))
    BY <1>1 DEF CoversAll
  <2>1. e \in timers \/ e = <<when, a>>
    BY <1>1 DEF addTimerInLoop, insert
  <2>2. now \in Nat /\ \A x \in timers : x[1] \in Nat
    BY Pairs, SMTT(60) DEF Typed, TypeOK
  <2>3. CASE earliestChanged(when)
    <3>1. resetTimerfd(when)
      BY <1>1, <2>3 DEF addTimerInLoop
    <3>2. e[1] \in Nat /\ when <= e[1]
      BY <2>1, <2>2, <2>3 DEF earliestChanged
    <3> QED BY <2>2, <3>1, <3>2, ResetCovers
  <2>4. CASE ~earliestChanged(when)
    <3>1. fuse' = fuse /\ expiredFd' = expiredFd
      BY <1>1, <2>4, Zenon DEF addTimerInLoop, fdVars
    <3>2. PICK x \in timers : x[1] <= when
      BY <2>2, <2>4 DEF earliestChanged
    <3>3. expiredFd \/ (fuse > 0 /\ fuse <= Later(x[1] - now, 1))
      BY DEF CoversAll
    <3>4. CASE e \in timers
      BY <3>1, <3>4 DEF CoversAll
    <3>5. CASE e = <<when, a>>
      <4>1. e[1] = when
        BY <3>5
      <4>2. fuse \in Nat
        BY DEF Typed, TypeOK
      <4>3. fuse <= Later(x[1] - now, 1) => fuse <= Later(e[1] - now, 1)
        BY <2>2, <3>2, <4>1, <4>2 DEF Later
      <4> QED BY <3>1, <3>3, <4>3
    <3> QED BY <2>1, <3>4, <3>5
  <2> QED BY <2>3, <2>4
<1>2. CASE timers' \subseteq timers /\ UNCHANGED <<fdVars, now, callingExpiredTimers>>
  BY <1>2 DEF CoversAll, fdVars
<1>3. CASE Tick
  <2> SUFFICES ASSUME ~callingExpiredTimers, NEW e \in timers
               PROVE  expiredFd' \/ (fuse' > 0 /\ fuse' <= Later(e[1] - now', 1))
    BY <1>3 DEF Tick, setVars, batchVars, CoversAll
  <2>1. expiredFd \/ (fuse > 0 /\ fuse <= Later(e[1] - now, 1))
    BY DEF CoversAll
  <2>2. now \in 0..MaxTime /\ fuse \in Nat /\ e[1] \in Nat
    BY Pairs DEF Typed, TypeOK
  <2>3. /\ now' = now \/ now' = now + 1
        /\ fuse' = IF fuse > 0 THEN fuse - 1 ELSE fuse
        /\ expiredFd' = (expiredFd \/ fuse = 1)
    BY <1>3 DEF Tick
  <2>4. CASE expiredFd \/ fuse = 1
    BY <2>3, <2>4
  <2>5. CASE ~expiredFd /\ fuse # 1
    <3>1. fuse > 1 /\ fuse <= e[1] - now /\ fuse' = fuse - 1
      BY <2>1, <2>2, <2>3, <2>5 DEF Later
    <3>2. fuse' > 0 /\ fuse' <= Later(e[1] - now', 1)
      BY <2>2, <2>3, <3>1 DEF Later
    <3> QED BY <3>2
  <2> QED BY <2>4, <2>5
<1>4. CASE ClockBack
  <2> SUFFICES ASSUME ~callingExpiredTimers, NEW e \in timers
               PROVE  expiredFd \/ (fuse > 0 /\ fuse <= Later(e[1] - now', 1))
    BY <1>4 DEF ClockBack, setVars, batchVars, fdVars, CoversAll
  <2>1. expiredFd \/ (fuse > 0 /\ fuse <= Later(e[1] - now, 1))
    BY DEF CoversAll
  <2>2. now \in 0..MaxTime /\ fuse \in Nat /\ e[1] \in Nat /\ now' = now - 1
    BY <1>4, Pairs DEF Typed, TypeOK, ClockBack
  <2>3. fuse <= Later(e[1] - now, 1) => fuse <= Later(e[1] - now', 1)
    BY <2>2 DEF Later
  <2> QED BY <2>1, <2>3
<1>5. ASSUME NEW id, cancelInLoop(id), UNCHANGED <<fdVars, now, callingExpiredTimers>> PROVE CoversAll'
  <2>1. timers' \subseteq timers
    BY <1>5 DEF cancelInLoop
  <2> QED BY <1>2, <1>5, <2>1
<1>6. CASE RunPending
  <2> DEFINE f == Head(pending)
  <2>1. UNCHANGED <<now, callingExpiredTimers>>
    BY <1>6 DEF RunPending, clockVars, batchVars
  <2>2. f \in TimerFunctors
    BY <1>6, HeadTailProperties DEF RunPending, Typed, TypeOK
  <2>3. CASE f.call = "add" /\ addTimerInLoop(f.timer, expiration[f.timer], sequence[f.timer])
    <3>1. f.timer \in Addrs
      BY <2>2, <2>3, FunctorFields
    <3>2. expiration[f.timer] \in Nat
      BY <3>1 DEF Typed, Expirations
    <3> QED BY <1>1, <2>1, <2>3, <3>1, <3>2
  <2>4. CASE f.call = "cancel" /\ cancelInLoop(f.id) /\ UNCHANGED fdVars
    BY <1>5, <2>1, <2>4
  <2> QED BY <1>6, <2>3, <2>4 DEF RunPending
<1>7. CASE HandleRead
  BY <1>7 DEF HandleRead, CoversAll
<1>8. CASE Reset
  <2>1. timers' \in SUBSET (Nat \X Addrs)
    BY TypedStep DEF Typed, Expirations
  <2>2. CASE timers' # {}
    <3>1. /\ Earliest(timers') \in Nat
          /\ \A e \in timers' : Earliest(timers') <= e[1] /\ e[1] \in Nat
      BY <2>1, <2>2, EarliestIsLeast
    <3>2. resetTimerfd(Earliest(timers')) /\ now' = now /\ now \in Nat
      BY <1>8, <2>2 DEF Reset, Rearm, clockVars, Typed, TypeOK
    <3>3. \A e \in timers' : fuse' > 0 /\ fuse' <= Later(e[1] - now, 1)
      BY <3>1, <3>2, ResetCovers
    <3> QED BY <3>2, <3>3 DEF CoversAll
  <2>3. CASE timers' = {}
    BY <2>3 DEF CoversAll
  <2> QED BY <2>2, <2>3
<1>9. ASSUME NEW a \in Addrs, NEW when \in 0..MaxTime, NEW i \in Intervals, AddTimer(a, when, i)
      PROVE  CoversAll'
  BY <1>1, <1>9 DEF AddTimer, clockVars, batchVars
<1>10. ASSUME NEW id \in ids, Cancel(id) PROVE CoversAll'
  BY <1>5, <1>10 DEF Cancel, clockVars, batchVars
<1>11. ASSUME UNCHANGED <<timers, fuse, expiredFd, now, callingExpiredTimers>> PROVE CoversAll'
  BY <1>11 DEF CoversAll
<1>12. CASE \/ \E e \in toRun : RunTimer(e)
            \/ \E a \in Addrs, when \in 0..MaxTime, i \in Intervals, t \in Callers : QueueAdd(t, a, when, i)
            \/ \E id \in ids : QueueCancel(id)
            \/ \E t \in Callers : ReturnId(t)
            \/ UNCHANGED vars
  BY <1>11, <1>12 DEF RunTimer, QueueAdd, QueueCancel, ReturnId, vars, clockVars, fdVars, setVars, batchVars
<1> QED
  BY <1>3, <1>4, <1>6, <1>7, <1>8, <1>9, <1>10, <1>12 DEF Next, LoopStep

\* No timer is forgotten: outside handleRead() the timerfd is readable or
\* expires in time for the earliest timer, for every sequence of additions,
\* cancellations, restarts and settings of the wall clock
\* (TimerQueue::addTimerInLoop, reset, howmuchTimeFromNow).
THEOREM TimerfdCoversEarliestHolds == Spec => []TimerfdCoversEarliest
<1>1. Init => CoversAll
  BY DEF Init, CoversAll
<1>2. Typed /\ Inv /\ CoversAll /\ [Next]_vars => CoversAll'
  BY CoversAllStep
<1>3. Typed /\ Inv /\ CoversAll => TimerfdCoversEarliest
  <2> SUFFICES ASSUME Typed, CoversAll, timers # {}, ~callingExpiredTimers
               PROVE  expiredFd \/ (fuse > 0 /\ fuse <= Later(Earliest(timers) - now, 1))
    BY DEF TimerfdCoversEarliest
  <2>1. PICK e \in timers : Earliest(timers) = e[1]
    BY EarliestIsLeast DEF Typed, Expirations
  <2> QED BY <2>1 DEF CoversAll
<1> QED BY <1>1, <1>2, <1>3, Invariant, PTL DEF Spec
=============================================================================
