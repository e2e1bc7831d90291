-------------------------- MODULE EventLoopProofs --------------------------
(***************************************************************************)
(* Type correctness, the order of the functors and the absence of lost     *)
(* wakeups, for any number of threads, functors and channels; and what the *)
(* pool of loops promises for any number of loops.                         *)
(***************************************************************************)
EXTENDS EventLoop, EventLoopThreadPool, SequenceTheorems, TLAPS

\* Every step of every thread keeps each variable of EventLoop in its type:
\* in particular the eventfd counter never passes its limit.
THEOREM TypeCorrect == Spec => []TypeOK
<1>1. Init => TypeOK
  <2> SUFFICES ASSUME Init PROVE TypeOK
    OBVIOUS
  <2>1. <<>> \in Seq(Functors)
    OBVIOUS
  <2>2. 0 \in 0..MaxEventfd
    BY EventLoopAssumption
  <2>3. op \in [Threads -> {"none", "queued", "quitting"}]
    BY DEF Init
  <2>4. {quit, callingPendingFunctors} \subseteq BOOLEAN
    BY DEF Init
  <2> QED
    BY EventLoopAssumption, <2>1, <2>2, <2>3, <2>4 DEF Init, TypeOK
<1>2. TypeOK /\ [Next]_vars => TypeOK'
  <2> SUFFICES ASSUME TypeOK, [Next]_vars PROVE TypeOK'
    OBVIOUS
  <2> USE EventLoopAssumption DEF TypeOK, loopVars, queueVars
  <2>1. CASE TestQuit
    BY <2>1 DEF TestQuit, LoopAt
  <2>2. CASE Poll
    BY <2>2 DEF Poll, LoopAt, Ready
  <2>3. ASSUME NEW c \in Channels \cup {WakeupChannel}, HandleEvent(c) PROVE TypeOK'
    BY <2>3 DEF HandleEvent, LoopAt
  <2>4. CASE DoPendingFunctors
    BY <2>4 DEF DoPendingFunctors, LoopAt
  <2>5. CASE RunFunctor
    BY <2>5, HeadTailProperties, AppendProperties DEF RunFunctor, LoopAt
  <2>6. CASE EndPendingFunctors
    BY <2>6 DEF EndPendingFunctors, LoopAt
  <2>7. CASE Loop
    BY <2>7 DEF Loop, LoopAt
  <2>8. CASE PollTimeout
    BY <2>8 DEF PollTimeout, LoopAt
  <2>9. ASSUME NEW t \in Threads, NEW f \in Functors, QueueInLoop(t, f) PROVE TypeOK'
    BY <2>9 DEF QueueInLoop, MayCall
  <2>10. ASSUME NEW t \in Threads, NEW f \in Functors, RunInLoop(t, f) PROVE TypeOK'
    BY <2>9, <2>10 DEF RunInLoop, MayCall
  <2>11. ASSUME NEW t \in Threads, FinishCall(t) PROVE TypeOK'
    BY <2>11 DEF FinishCall, QueueWakeup, QuitWakeup, Written
  <2>12. ASSUME NEW t \in Threads, Quit(t) PROVE TypeOK'
    BY <2>12 DEF Quit, MayCall
  <2>13. ASSUME NEW c \in Channels, Arrive(c) PROVE TypeOK'
    BY <2>13 DEF Arrive
  <2>14. CASE UNCHANGED vars
    BY <2>14 DEF vars
  <2> QED
    BY <2>1, <2>2, <2>3, <2>4, <2>5, <2>6, <2>7, <2>8, <2>9, <2>10, <2>11, <2>12,
       <2>13, <2>14 DEF Next, LoopStep
<1> QED
  BY <1>1, <1>2, PTL DEF Spec

-----------------------------------------------------------------------------
(* The order of the functors                                               *)

\* Appending at the right end of a concatenation (the locked push_back).
LEMMA AppendConcat ==
  ASSUME NEW a \in Seq(Functors), NEW b \in Seq(Functors), NEW f \in Functors
  PROVE  Append(a \o b, f) = a \o Append(b, f)
OBVIOUS

\* Moving the head of b to the end of a changes nothing (one round of the
\* for loop of doPendingFunctors).
LEMMA MoveHead ==
  ASSUME NEW a \in Seq(Functors), NEW b \in Seq(Functors), b # <<>>
  PROVE  Append(a, Head(b)) \o Tail(b) = a \o b
OBVIOUS

\* The local vector of doPendingFunctors is empty outside it.
OrderInv ==
    /\ FunctorsRunOnceInOrder
    /\ pc # "functors" => functors = <<>>

\* Queued functors run once and in order, for every number of callers.
THEOREM OrderCorrect == Spec => []FunctorsRunOnceInOrder
<1>1. Init => OrderInv
  BY DEF Init, OrderInv, FunctorsRunOnceInOrder
<1>2. TypeOK /\ OrderInv /\ [Next]_vars => OrderInv'
  <2> SUFFICES ASSUME TypeOK, OrderInv, [Next]_vars PROVE OrderInv'
    OBVIOUS
  <2> DEFINE all == ran \o functors
  <2>a. /\ pendingFunctors \in Seq(Functors) /\ functors \in Seq(Functors)
        /\ ran \in Seq(Functors) /\ all \in Seq(Functors)
        /\ queued = all \o pendingFunctors
    BY DEF TypeOK, OrderInv, FunctorsRunOnceInOrder
  <2>b. CASE UNCHANGED <<pc, functors, pendingFunctors, ran, queued>>
    BY <2>b DEF OrderInv, FunctorsRunOnceInOrder
  <2>c. CASE UNCHANGED <<functors, pendingFunctors, ran, queued>> /\ pc # "functors"
    BY <2>c DEF OrderInv, FunctorsRunOnceInOrder
  <2>1. CASE DoPendingFunctors
    <3>1. functors = <<>> /\ functors' = pendingFunctors /\ pendingFunctors' = <<>>
      BY <2>1 DEF DoPendingFunctors, LoopAt, OrderInv
    <3>2. queued' = queued /\ ran' = ran /\ pc' = "functors"
      BY <2>1 DEF DoPendingFunctors
    <3>3. queued = ran \o pendingFunctors /\ ran \o functors' \in Seq(Functors)
      BY <2>a, <3>1
    <3>4. queued' = (ran' \o functors') \o pendingFunctors'
      BY <2>a, <3>1, <3>2, <3>3
    <3> QED
      BY <3>2, <3>4 DEF OrderInv, FunctorsRunOnceInOrder
  <2>2. CASE RunFunctor
    <3>1. functors # <<>> /\ ran' = Append(ran, Head(functors)) /\ functors' = Tail(functors)
      BY <2>2 DEF RunFunctor
    <3>2. pc = "functors" /\ UNCHANGED <<pc, queued, pendingFunctors>>
      BY <2>2 DEF RunFunctor, LoopAt
    <3>3. ran' \o functors' = all
      BY <2>a, <3>1, MoveHead
    <3> QED
      BY <2>a, <3>2, <3>3 DEF OrderInv, FunctorsRunOnceInOrder
  <2>3. CASE EndPendingFunctors
    BY <2>3 DEF EndPendingFunctors, OrderInv, FunctorsRunOnceInOrder
  <2>4. ASSUME NEW t \in Threads, NEW f \in Functors, QueueInLoop(t, f) PROVE OrderInv'
    <3>1. queued' = Append(queued, f) /\ pendingFunctors' = Append(pendingFunctors, f)
      BY <2>4 DEF QueueInLoop
    <3>2. UNCHANGED <<pc, ran, functors>>
      BY <2>4 DEF QueueInLoop, loopVars
    <3> HIDE DEF all
    <3>4. Append(all \o pendingFunctors, f) = all \o Append(pendingFunctors, f)
      BY <2>a, AppendConcat
    <3>3. queued' = all \o pendingFunctors'
      BY <2>a, <3>1, <3>4
    <3> USE DEF all
    <3> QED
      BY <3>2, <3>3 DEF OrderInv, FunctorsRunOnceInOrder
  <2>5. ASSUME NEW t \in Threads, NEW f \in Functors, RunInLoop(t, f) PROVE OrderInv'
    BY <2>4, <2>5, <2>b DEF RunInLoop, queueVars
  <2>6. ASSUME NEW t \in Threads, FinishCall(t) \/ Quit(t) PROVE OrderInv'
    BY <2>6, <2>b DEF FinishCall, QueueWakeup, QuitWakeup, Quit, loopVars, queueVars
  <2>7. ASSUME NEW c \in Channels \cup {WakeupChannel}, HandleEvent(c) \/ Arrive(c)
        PROVE OrderInv'
    BY <2>7, <2>b DEF HandleEvent, Arrive, queueVars
  <2>8. CASE TestQuit \/ Poll \/ Loop \/ PollTimeout
    BY <2>8, <2>c DEF TestQuit, Poll, Loop, PollTimeout, LoopAt, queueVars
  <2>9. CASE UNCHANGED vars
    BY <2>9, <2>b DEF vars, loopVars, queueVars
  <2> QED
    BY <2>1, <2>2, <2>3, <2>4, <2>5, <2>6, <2>7, <2>8, <2>9 DEF Next, LoopStep
<1>3. OrderInv => FunctorsRunOnceInOrder
  BY DEF OrderInv
<1> QED
  BY <1>1, <1>2, <1>3, TypeCorrect, PTL DEF Spec

-----------------------------------------------------------------------------
(* No lost wakeup                                                          *)

\* A thread pushed a functor and is about to write the eventfd.
WakeupOnItsWay ==
    \E t \in Threads : op[t] = "queued" /\ (t # LoopThread \/ callingPendingFunctors)

\* Some pending functor relies on a wakeup.
LatePending == \E i \in 1..Len(pendingFunctors) : pendingFunctors[i] \notin early

\* PendingWakesLoop speaks of a loop blocked in poll(); it is inductive when it
\* holds from the swap of one round up to the handling of events of the next.
WakeInv ==
    /\ callingPendingFunctors <=> pc = "functors"
    /\ pc \notin {"events", "functors"} => current = None
    /\ op[LoopThread] # "none" => pc \in {"out", "events", "functors"}
    /\ pc # "events" /\ LatePending => eventfd > 0 \/ WakeupOnItsWay
    /\ QuitWakesLoop /\ op[LoopThread] # "quitting"

\* The loop never blocks in poll() with a late functor or a quit() that nobody
\* will wake it for, whatever the number of threads.
THEOREM WakeupCorrect == Spec => []NoLostWakeup
<1>1. Init => WakeInv
  BY EventLoopAssumption DEF Init, WakeInv, LatePending, QuitWakesLoop, Threads
<1>2. TypeOK /\ WakeInv /\ [Next]_vars => WakeInv'
  <2> SUFFICES ASSUME TypeOK, WakeInv, [Next]_vars PROVE WakeInv'
    OBVIOUS
  <2>a. LoopThread \in Threads /\ OtherThreads = Threads \ {LoopThread}
    BY EventLoopAssumption DEF Threads
  <2>b. ASSUME UNCHANGED <<op, callingPendingFunctors>> PROVE WakeupOnItsWay' = WakeupOnItsWay
    BY <2>b DEF WakeupOnItsWay
  <2>c. ASSUME UNCHANGED <<pendingFunctors, early>> PROVE LatePending' = LatePending
    BY <2>c DEF LatePending
  <2>d. op[LoopThread] \in {"none", "queued", "quitting"} /\ eventfd \in Nat
    BY <2>a DEF TypeOK
  <2>1. CASE TestQuit \/ Poll \/ Loop \/ PollTimeout
    BY <2>1, <2>b, <2>c
    DEF TestQuit, Poll, Loop, PollTimeout, LoopAt, WakeInv, QuitWakesLoop, queueVars
  <2>2. ASSUME NEW c \in Channels \cup {WakeupChannel}, HandleEvent(c) PROVE WakeInv'
    BY <2>2 DEF HandleEvent, LoopAt, WakeInv, QuitWakesLoop, queueVars
  <2>3. CASE DoPendingFunctors
    <3>1. ~LatePending'
      BY <2>3 DEF DoPendingFunctors, LatePending
    <3> QED
      BY <2>3, <3>1 DEF DoPendingFunctors, LoopAt, WakeInv, QuitWakesLoop
  <2>4. CASE RunFunctor
    BY <2>4, <2>b, <2>c DEF RunFunctor, LoopAt, WakeInv, QuitWakesLoop
  <2>5. CASE EndPendingFunctors
    <3>1. WakeupOnItsWay => WakeupOnItsWay'
      BY <2>5 DEF EndPendingFunctors, LoopAt, WakeupOnItsWay
    <3> QED
      BY <2>5, <3>1, <2>c DEF EndPendingFunctors, LoopAt, WakeInv, QuitWakesLoop
  <2>6. ASSUME NEW t \in Threads, NEW f \in Functors, QueueInLoop(t, f) PROVE WakeInv'
    <3>1. /\ op[t] = "none" /\ op' = [op EXCEPT ![t] = "queued"]
          /\ UNCHANGED <<pc, callingPendingFunctors, eventfd, quit>>
      BY <2>6 DEF QueueInLoop, MayCall, loopVars
    <3>2. op'[t] = "queued" /\ \A u \in Threads \ {t} : op'[u] = op[u]
      BY <3>1 DEF TypeOK
    <3>3. WakeupOnItsWay => WakeupOnItsWay'
      BY <3>1, <3>2 DEF WakeupOnItsWay
    <3>4. t = LoopThread => pc \in {"out", "events", "functors"}
      BY <2>6 DEF QueueInLoop, MayCall, WakeInv
    <3>5. t # LoopThread \/ pc = "functors" => WakeupOnItsWay'
      BY <3>1, <3>2 DEF WakeupOnItsWay, WakeInv
    <3>6. t = LoopThread /\ pc = "out" => (LatePending' => LatePending)
      <4> SUFFICES ASSUME t = LoopThread, pc = "out", LatePending' PROVE LatePending
        OBVIOUS
      <4>1. /\ pendingFunctors' = Append(pendingFunctors, f)
            /\ early' = early \cup {f}
        BY <2>6 DEF QueueInLoop
      <4>2. PICK i \in 1..Len(pendingFunctors') : pendingFunctors'[i] \notin early'
        BY DEF LatePending
      <4>3. i \in 1..Len(pendingFunctors) /\ pendingFunctors'[i] = pendingFunctors[i]
        BY <4>1, <4>2 DEF TypeOK
      <4> QED
        BY <4>1, <4>2, <4>3 DEF LatePending
    <3>7. (pc # "events" /\ LatePending => eventfd > 0 \/ WakeupOnItsWay)'
      BY <3>1, <3>3, <3>4, <3>5, <3>6 DEF WakeInv
    <3>8. QuitWakesLoop'
      BY <3>1, <3>2, <2>a DEF WakeInv, QuitWakesLoop
    <3>9. current' = current
      BY <2>6 DEF QueueInLoop, loopVars
    <3> QED
      BY <3>1, <3>2, <3>4, <3>7, <3>8, <3>9, <2>a DEF WakeInv
  <2>7. ASSUME NEW t \in Threads, NEW f \in Functors, RunInLoop(t, f) PROVE WakeInv'
    <3>1. CASE t = LoopThread
      <4>1. /\ pc \in {"events", "functors"}
            /\ UNCHANGED <<pc, queueVars, quit, eventfd, op>>
        BY <2>7, <3>1 DEF RunInLoop, MayCall, WakeInv
      <4> QED
        BY <4>1, <2>b, <2>c DEF WakeInv, QuitWakesLoop, queueVars
    <3>2. CASE t # LoopThread
      BY <2>6, <2>7, <3>2 DEF RunInLoop
    <3> QED
      BY <3>1, <3>2
  <2>8. ASSUME NEW t \in Threads, FinishCall(t) PROVE WakeInv'
    <3>1. /\ op[t] # "none" /\ op' = [op EXCEPT ![t] = "none"]
          /\ UNCHANGED <<loopVars, queueVars, quit>>
      BY <2>8 DEF FinishCall, QueueWakeup, QuitWakeup
    <3>2. op'[t] = "none" /\ \A u \in Threads \ {t} : op'[u] = op[u]
      BY <3>1 DEF TypeOK
    <3>3. CASE t # LoopThread \/ callingPendingFunctors
      <4>1. eventfd' > 0
        BY <2>8, <3>3, <2>a, <2>d, EventLoopAssumption
        DEF FinishCall, QueueWakeup, QuitWakeup, Written, WakeInv, TypeOK
      <4> QED
        BY <4>1, <3>1, <3>2, <2>a DEF WakeInv, QuitWakesLoop, loopVars, queueVars
    <3>4. CASE t = LoopThread /\ ~callingPendingFunctors
      <4>1. op[t] = "queued" /\ eventfd' = eventfd
        BY <2>8, <3>4 DEF FinishCall, QueueWakeup, QuitWakeup, WakeInv
      <4>2. WakeupOnItsWay => WakeupOnItsWay'
        BY <3>1, <3>2, <3>4 DEF WakeupOnItsWay, queueVars
      <4> QED
        BY <4>1, <4>2, <3>1, <3>2, <3>4, <2>a, <2>c
        DEF WakeInv, QuitWakesLoop, loopVars, queueVars
    <3> QED
      BY <3>3, <3>4
  <2>9. ASSUME NEW t \in Threads, Quit(t) PROVE WakeInv'
    <3>1. /\ op[t] = "none" /\ quit'
          /\ op' = [op EXCEPT ![t] = IF t # LoopThread THEN "quitting" ELSE "none"]
          /\ UNCHANGED <<loopVars, queueVars, eventfd>>
      BY <2>9 DEF Quit, MayCall
    <3>2. /\ op'[t] = IF t # LoopThread THEN "quitting" ELSE "none"
          /\ \A u \in Threads \ {t} : op'[u] = op[u]
      BY <3>1 DEF TypeOK
    <3>3. WakeupOnItsWay => WakeupOnItsWay'
      BY <3>1, <3>2 DEF WakeupOnItsWay, queueVars
    <3>4. t = LoopThread => pc # "poll"
      BY <2>9 DEF Quit, MayCall, WakeInv
    <3>5. QuitWakesLoop'
      BY <3>1, <3>2, <3>4, <2>a DEF QuitWakesLoop, loopVars
    <3> QED
      BY <3>1, <3>2, <3>3, <3>5, <2>a, <2>c DEF WakeInv, loopVars, queueVars
  <2>10. ASSUME NEW c \in Channels, Arrive(c) PROVE WakeInv'
    BY <2>10, <2>b, <2>c DEF Arrive, WakeInv, QuitWakesLoop, queueVars
  <2>11. CASE UNCHANGED vars
    BY <2>11, <2>b, <2>c DEF WakeInv, QuitWakesLoop, vars, loopVars, queueVars
  <2> QED
    BY <2>1, <2>2, <2>3, <2>4, <2>5, <2>6, <2>7, <2>8, <2>9, <2>10, <2>11
    DEF Next, LoopStep
<1>3. WakeInv => NoLostWakeup
  BY DEF NoLostWakeup, WakeInv, PendingWakesLoop, LatePending, WakeupOnItsWay, Threads
<1> QED
  BY <1>1, <1>2, <1>3, TypeCorrect, PTL DEF Spec

-----------------------------------------------------------------------------
(***************************************************************************)
(* The pool of threads that run the loops: the round robin of              *)
(* getNextLoop() and the destructor of a pool whose owner is careful, for  *)
(* every number of threads.                                                *)
(***************************************************************************)

\* cur indexes _threads wherever the owner uses it
CurIsThread == owner \in {"wait", "quit", "store", "join"} => cur \in PoolThreads

\* The three ways through the test of ~EventLoopThread().
LEMMA DtorTestCases ==
    ASSUME cur \in 1..(N + 1), DtorTest
    PROVE  /\ owner = "dtor" /\ UNCHANGED <<thr, loop, loopQuit, next, served>>
           /\ \/ cur > N /\ owner' = "done" /\ UNCHANGED <<cur, dead>>
              \/ cur <= N /\ loop[cur] /\ owner' = "quit" /\ UNCHANGED <<cur, dead>>
              \/ cur <= N /\ ~loop[cur] /\ Destroyed
<1> USE DEF DtorTest, threadVars
<1>1. CASE cur > N
  BY <1>1
<1>2. CASE ~(cur > N)
  <2>1. cur <= N
    BY <1>2, PoolAssumption
  <2>2. CASE loop[cur]
    BY <1>2, <2>1, <2>2, Zenon
  <2>3. CASE ~loop[cur]
    BY <1>2, <2>1, <2>3, Zenon
  <2> QED BY <2>2, <2>3
<1> QED BY <1>1, <1>2

\* Every variable keeps its type, _next stays an index of _threads, and cur
\* is one while an EventLoopThread is waited for or destroyed.
THEOREM PoolTyping == PoolSpec => [](PoolTypeOK /\ CurIsThread)
<1> USE PoolAssumption DEF PoolThreads, CurIsThread
<1>1. PoolInit => PoolTypeOK /\ CurIsThread
  BY DEF PoolInit, PoolTypeOK, Places
<1>2. PoolTypeOK /\ CurIsThread /\ [PoolNext]_poolVars => PoolTypeOK' /\ CurIsThread'
  <2> SUFFICES ASSUME PoolTypeOK, CurIsThread, [PoolNext]_poolVars PROVE PoolTypeOK' /\ CurIsThread'
    OBVIOUS
  <2> USE DEF PoolTypeOK, Places, threadVars
  <2>1. ASSUME NEW t \in PoolThreads, Publish(t) PROVE PoolTypeOK' /\ CurIsThread'
    BY <2>1 DEF Publish
  <2>2. ASSUME NEW t \in PoolThreads, EnterLoop(t) PROVE PoolTypeOK' /\ CurIsThread'
    BY <2>2 DEF EnterLoop
  <2>3. ASSUME NEW t \in PoolThreads, QuitSelf(t) PROVE PoolTypeOK' /\ CurIsThread'
    BY <2>3 DEF QuitSelf
  <2>4. ASSUME NEW t \in PoolThreads, LeaveLoop(t) PROVE PoolTypeOK' /\ CurIsThread'
    BY <2>4 DEF LeaveLoop
  <2>5. ASSUME NEW t \in PoolThreads, Clear(t) PROVE PoolTypeOK' /\ CurIsThread'
    BY <2>5 DEF Clear
  <2>6. ASSUME NEW t \in PoolThreads, EndThread(t) PROVE PoolTypeOK' /\ CurIsThread'
    BY <2>6 DEF EndThread
  <2>7. CASE Start
    BY <2>7 DEF Start
  <2>8. CASE StartLoop
    BY <2>8 DEF StartLoop
  <2>9. CASE GetNextLoop
    <3>1. next + 1 \in PoolThreads
      BY <2>9 DEF GetNextLoop
    <3>2. served' \in [PoolThreads -> Nat] /\ next' \in 0..(N - 1)
      BY <3>1, <2>9 DEF GetNextLoop, Advance
    <3> QED BY <3>2, <2>9, SMTT(60) DEF GetNextLoop
  <2>10. CASE BeginDtor
    BY <2>10 DEF BeginDtor
  <2>11. CASE DtorTest
    <3>1. CASE cur > N /\ owner' = "done" /\ UNCHANGED <<cur, dead>>
      BY <2>11, <3>1, DtorTestCases
    <3>2. CASE cur <= N /\ loop[cur] /\ owner' = "quit" /\ UNCHANGED <<cur, dead>>
      BY <2>11, <3>2, DtorTestCases
    <3>3. CASE cur <= N /\ ~loop[cur] /\ Destroyed
      BY <2>11, <3>3, DtorTestCases DEF Destroyed
    <3> QED BY <2>11, <3>1, <3>2, <3>3, DtorTestCases
  <2>12. CASE DtorReread
    BY <2>12 DEF DtorReread
  <2>13. CASE DtorQuit
    BY <2>13 DEF DtorQuit
  <2>14. CASE DtorJoin
    BY <2>14 DEF DtorJoin, Destroyed
  <2>15. CASE UNCHANGED poolVars
    BY <2>15 DEF poolVars
  <2> QED
    BY <2>1, <2>2, <2>3, <2>4, <2>5, <2>6, <2>7, <2>8, <2>9, <2>10, <2>11, <2>12, <2>13, <2>14, <2>15
    DEF PoolNext, PoolThread, Iterate, Dtor, Finished
<1> QED BY <1>1, <1>2, PTL DEF PoolSpec

-----------------------------------------------------------------------------
(* getNextLoop()                                                           *)

\* For every number of threads and of calls, the loops before _next have had
\* exactly one connection more than the others
\* (EventLoopThreadPool::getNextLoop).
THEOREM RoundRobinHolds == PoolSpec => []RoundRobin
<1> USE PoolAssumption DEF PoolThreads
<1>1. PoolInit => RoundRobin
  BY DEF PoolInit, RoundRobin
<1>2. PoolTypeOK /\ RoundRobin /\ [PoolNext]_poolVars => RoundRobin'
  <2> SUFFICES ASSUME PoolTypeOK, RoundRobin, [PoolNext]_poolVars PROVE RoundRobin'
    OBVIOUS
  <2>1. CASE GetNextLoop
    <3> USE <2>1 DEF GetNextLoop, PoolTypeOK
    <3>1. /\ next + 1 \in PoolThreads
          /\ \A t \in PoolThreads : served'[t] = IF t = next + 1 THEN served[t] + 1 ELSE served[t]
      OBVIOUS
    <3>2. SUFFICES ASSUME NEW s \in PoolThreads, NEW t \in PoolThreads, s < t
                   PROVE  served'[s] = served'[t] + (IF s <= next' /\ next' < t THEN 1 ELSE 0)
      BY DEF RoundRobin
    <3>3. served[s] = served[t] + (IF s <= next /\ next < t THEN 1 ELSE 0)
      BY <3>2 DEF RoundRobin
    <3>4. CASE next + 1 = N
      <4>1. next' = 0
        BY <3>4 DEF Advance
      <4>2. CASE t = N
        <5>1. served[s] = served[t] + 1
          BY <3>2, <3>3, <3>4, <4>2
        <5> QED BY <5>1, <3>1, <3>2, <3>4, <4>1, <4>2, SMTT(60)
      <4>3. CASE t # N
        <5>1. served[s] = served[t]
          BY <3>2, <3>3, <3>4, <4>3
        <5> QED BY <5>1, <3>1, <3>2, <3>4, <4>1, <4>3
      <4> QED BY <4>2, <4>3
    <3>5. CASE next + 1 # N
      <4>1. next' = next + 1
        BY <3>5 DEF Advance
      <4>2. served[s] \in Nat /\ served[t] \in Nat /\ next \in Nat
        OBVIOUS
      <4>3. CASE s = next + 1
        <5>1. served'[s] = served[s] + 1 /\ served'[t] = served[t]
          BY <3>1, <3>2, <4>3
        <5> QED BY <5>1, <3>2, <3>3, <4>1, <4>2, <4>3
      <4>4. CASE t = next + 1
        <5>1. served'[s] = served[s] /\ served'[t] = served[t] + 1
          BY <3>1, <3>2, <4>4
        <5> QED BY <5>1, <3>2, <3>3, <4>1, <4>2, <4>4
      <4>5. CASE s # next + 1 /\ t # next + 1
        <5>1. served'[s] = served[s] /\ served'[t] = served[t]
          BY <3>1, <4>5
        <5> QED BY <5>1, <3>2, <3>3, <4>1, <4>2, <4>5
      <4> QED BY <4>3, <4>4, <4>5
    <3> QED BY <3>4, <3>5
  <2>2. CASE UNCHANGED <<next, served>>
    BY <2>2 DEF RoundRobin
  <2> QED
    BY <2>1, <2>2
    DEF PoolNext, poolVars, PoolThread, Iterate, QuitSelf, Publish, EnterLoop, LeaveLoop, Clear, EndThread,
        Start, StartLoop, BeginDtor, Dtor, DtorTest, DtorReread, DtorQuit, DtorJoin, Finished
<1> QED BY <1>1, <1>2, PoolTyping, PTL DEF PoolSpec

-----------------------------------------------------------------------------
(* The destructor                                                          *)

InDtor == owner \in {"dtor", "quit", "store", "join", "done"}

\* _loop is set exactly while the loop it points to can be told to loopQuit
PointerFollowsLoop == \A t \in PoolThreads : loop[t] <=> thr[t] \in {"published", "looping", "left"}

\* a thread the destructors have not reached: its loop runs, or has ended
Untouched(t) == IF loopQuit[t] THEN thr[t] = "ended" ELSE thr[t] = "looping"

\* the thread the destructor is at
AtCur ==
    /\ owner = "dtor" /\ cur <= N => Untouched(cur)
    /\ owner \in {"quit", "store"} => ~loopQuit[cur] /\ thr[cur] = "looping"
    /\ owner = "join" => loopQuit[cur] /\ thr[cur] \in {"looping", "left", "cleared", "ended"}

DtorInv ==
    /\ PointerFollowsLoop
    /\ InDtor => /\ \A t \in PoolThreads : t > cur => Untouched(t)
                 /\ AtCur
                 /\ \A t \in dead : t < cur
    /\ ~InDtor => dead = {}
    /\ owner = "start" => \A t \in PoolThreads : t >= cur => thr[t] = "none"
    /\ owner = "wait" => \A t \in PoolThreads : t > cur => thr[t] = "none"
    /\ \A t \in dead : thr[t] = "ended"

\* The destructor's invariant is inductive when the owner is careful.
LEMMA DtorInvStep ==
    ASSUME Careful, PoolTypeOK, CurIsThread, DtorInv, [PoolNext]_poolVars
    PROVE  DtorInv'
<1> USE PoolAssumption DEF PoolThreads, PoolTypeOK, DtorInv, PointerFollowsLoop, InDtor, AtCur, Untouched, CurIsThread
<1>1. ASSUME NEW t \in PoolThreads, Publish(t) PROVE DtorInv'
  BY <1>1 DEF Publish
<1>2. ASSUME NEW t \in PoolThreads, EnterLoop(t) PROVE DtorInv'
  BY <1>2 DEF EnterLoop
<1>3. ASSUME NEW t \in PoolThreads, QuitSelf(t) PROVE DtorInv'
  BY <1>3 DEF QuitSelf
<1>4. ASSUME NEW t \in PoolThreads, LeaveLoop(t) PROVE DtorInv'
  BY <1>4 DEF LeaveLoop
<1>5. ASSUME NEW t \in PoolThreads, Clear(t) PROVE DtorInv'
  BY <1>5 DEF Clear
<1>6. ASSUME NEW t \in PoolThreads, EndThread(t) PROVE DtorInv'
  BY <1>6 DEF EndThread
<1>7. CASE Start
  <2>1. CASE cur <= N
    <3>1. /\ cur \in PoolThreads /\ thr[cur] = "none"
          /\ owner = "start" /\ owner' = "wait" /\ thr' = [thr EXCEPT ![cur] = "created"]
          /\ UNCHANGED <<cur, loop, loopQuit, dead>>
      BY <1>7, <2>1 DEF Start
    <3>2. ~loop[cur]
      BY <3>1
    <3> QED BY <3>1, <3>2
  <2>2. CASE ~(cur <= N)
    BY <1>7, <2>2 DEF Start
  <2> QED BY <2>1, <2>2
<1>8. CASE StartLoop
  BY <1>8 DEF StartLoop, threadVars
<1>9. CASE GetNextLoop
  BY <1>9 DEF GetNextLoop, threadVars
<1>10. CASE BeginDtor
  <2>1. \A t \in PoolThreads : Untouched(t)
    BY <1>10, Zenon DEF BeginDtor
  <2>2. owner' = "dtor" /\ cur' = 1 /\ dead = {} /\ UNCHANGED <<thr, loop, loopQuit, dead>>
    BY <1>10 DEF BeginDtor, threadVars
  <2> QED BY <2>1, <2>2
<1>11. CASE DtorTest
  <2>1. CASE cur > N /\ owner' = "done" /\ UNCHANGED <<cur, dead>>
    BY <1>11, <2>1, DtorTestCases
  <2>2. CASE cur <= N /\ loop[cur] /\ owner' = "quit" /\ UNCHANGED <<cur, dead>>
    BY <1>11, <2>2, DtorTestCases, SMTT(60)
  <2>3. CASE cur <= N /\ ~loop[cur] /\ Destroyed
    BY <1>11, <2>3, DtorTestCases DEF Destroyed
  <2> QED BY <1>11, <2>1, <2>2, <2>3, DtorTestCases
<1>12. CASE DtorReread
  BY <1>12 DEF DtorReread, threadVars
<1>13. CASE DtorQuit
  BY <1>13 DEF DtorQuit
<1>14. CASE DtorJoin
  BY <1>14 DEF DtorJoin, Destroyed, threadVars
<1>15. CASE UNCHANGED poolVars
  BY <1>15 DEF poolVars
<1> QED
  BY <1>1, <1>2, <1>3, <1>4, <1>5, <1>6, <1>7, <1>8, <1>9, <1>10, <1>11, <1>12, <1>13, <1>14, <1>15
  DEF PoolNext, PoolThread, Iterate, Dtor, Finished

\* When the owner destroys the pool only while every loop runs or has ended,
\* and no functor is left to loopQuit one, ~EventLoopThread() never calls quit()
\* through a null or dangling pointer and outlives the thread it started, for
\* every number of threads (EventLoopThread::~EventLoopThread).
THEOREM CarefulDtorIsSafe ==
    ASSUME Careful
    PROVE  PoolSpec => []DtorIsSafe
<1>1. PoolInit => DtorInv
  BY PoolAssumption DEF PoolInit, DtorInv, PointerFollowsLoop, InDtor, PoolThreads
<1>2. PoolTypeOK /\ CurIsThread /\ DtorInv /\ [PoolNext]_poolVars => DtorInv'
  BY DtorInvStep
<1>3. PoolTypeOK /\ CurIsThread /\ DtorInv => DtorIsSafe
  BY DEF PoolTypeOK, CurIsThread, DtorInv, PointerFollowsLoop, InDtor, AtCur, DtorIsSafe, LoopExists
<1> QED BY <1>1, <1>2, <1>3, PoolTyping, PTL DEF PoolSpec
=============================================================================
