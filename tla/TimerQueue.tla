----------------------------- MODULE TimerQueue -----------------------------
(***************************************************************************)
(* ideal::net::TimerQueue: the timers of one EventLoop, the Timer objects  *)
(* on the heap, and the timerfd that wakes the loop for the earliest one.  *)
(*                                                                         *)
(* Timers are added and cancelled on the loop thread, at any time and from *)
(* the timers' own callbacks, and by other threads through the loop's      *)
(* queue of functors (module EventLoop: in order, each once, never while   *)
(* handleRead() runs).  The unit of time is the 100us to which             *)
(* howmuchTimeFromNow() rounds up a shorter wait.                          *)
(***************************************************************************)
EXTENDS Integers, Sequences

CONSTANTS
    Addrs,      \* the addresses the heap gives to Timer objects
    Callers,    \* the threads other than the loop thread
    Intervals,  \* the intervals in use, 0 for a timer that does not repeat
    MaxSeq,     \* bound: the number of timers ever created
    MaxTime,    \* bound: where the wall clock stops
    MaxPending, \* bound: the TimerQueue functors queued at a time
    MaxBacks,   \* bound: how often the wall clock is set back
    None

ASSUME TimerQueueAssumption ==
    /\ MaxSeq \in Nat /\ MaxTime \in Nat
    /\ MaxPending \in Nat /\ MaxBacks \in Nat
    /\ Intervals \subseteq Nat
    /\ None \notin Addrs

VARIABLES
    now,        \* Timestamp::now()
    backs,      \* how often the wall clock was set back
    fuse,       \* kernel: the time to the timerfd's expiration, 0 when disarmed
    expiredFd,  \* kernel: the timerfd is readable
    numCreated, \* Timer::s_numCreated
    alive,      \* the addresses that hold a Timer
    sequence,   \* Timer::_sequence
    expiration, \* Timer::_expiration
    interval,   \* Timer::_interval
    timers,           \* _timers: pairs <<when, timer>>
    activeTimers,     \* _activeTimers: pairs <<timer, sequence>>
    cancelingTimers,  \* _cancelingTimers: pairs <<timer, sequence>>
    callingExpiredTimers, \* _callingExpiredTimers
    batch,      \* handleRead()'s expired
    toRun,      \* the part of it that has not run yet
    readNow,    \* handleRead()'s now
    pending,    \* the TimerQueue functors queued in the loop
    adding,     \* the timer of a half-done addTimer() per thread
    ids,        \* the TimerIds handed out
    dead        \* history: the timers cancelInLoop() found

clockVars == <<now, backs>>
fdVars == <<fuse, expiredFd>>
heapVars == <<numCreated, alive, sequence, expiration, interval>>
setVars == <<timers, activeTimers, cancelingTimers, dead>>
batchVars == <<callingExpiredTimers, batch, toRun, readNow>>
userVars == <<pending, adding, ids>>
vars == <<clockVars, fdVars, heapVars, setVars, batchVars, userVars>>

TimerIds == Addrs \X (0..MaxSeq)
Entries == Int \X Addrs
TimerFunctors == [call : {"add"}, timer : Addrs] \cup [call : {"cancel"}, id : TimerIds]

TypeOK ==
    /\ now \in 0..MaxTime /\ backs \in 0..MaxBacks
    /\ fuse \in Nat /\ expiredFd \in BOOLEAN
    /\ numCreated \in 0..MaxSeq
    /\ alive \subseteq Addrs
    /\ sequence \in [Addrs -> 0..MaxSeq]
    /\ expiration \in [Addrs -> Int]
    /\ interval \in [Addrs -> Intervals \cup {0}]
    /\ timers \subseteq Entries
    /\ activeTimers \subseteq TimerIds
    /\ cancelingTimers \subseteq TimerIds
    /\ dead \subseteq TimerIds
    /\ callingExpiredTimers \in BOOLEAN
    /\ batch \subseteq Entries /\ toRun \subseteq batch
    /\ readNow \in 0..MaxTime
    /\ pending \in Seq(TimerFunctors)
    /\ adding \in [Callers -> Addrs \cup {None}]
    /\ ids \subseteq TimerIds

Init ==
    /\ now = 0 /\ backs = 0
    /\ fuse = 0 /\ expiredFd = FALSE
    /\ numCreated = 0
    /\ alive = {}
    /\ sequence = [a \in Addrs |-> 0]
    /\ expiration = [a \in Addrs |-> 0]
    /\ interval = [a \in Addrs |-> 0]
    /\ timers = {} /\ activeTimers = {} /\ cancelingTimers = {} /\ dead = {}
    /\ callingExpiredTimers = FALSE
    /\ batch = {} /\ toRun = {} /\ readNow = 0
    /\ pending = <<>>
    /\ adding = [t \in Callers |-> None]
    /\ ids = {}

Later(a, b) == IF a < b THEN b ELSE a

Entry(a) == <<expiration[a], a>>
IdOf(a) == <<a, sequence[a]>>

-----------------------------------------------------------------------------
(* The timerfd                                                             *)

howmuchTimeFromNowExact(when) == Later(when - now, 0)

howmuchTimeFromNow(when) == Later(when - now, 1)

\* timerfd_settime() also forgets an expiration nobody has read yet
resetTimerfd(when) ==
    /\ fuse' = howmuchTimeFromNow(when)
    /\ expiredFd' = FALSE

Earliest(entries) == CHOOSE w \in {e[1] : e \in entries} : \A e \in entries : w <= e[1]

\* Time passes; the timerfd counts on the monotonic clock
Tick ==
    /\ now < MaxTime \/ fuse > 0
    /\ now' = IF now < MaxTime THEN now + 1 ELSE now
    /\ fuse' = IF fuse > 0 THEN fuse - 1 ELSE fuse
    /\ expiredFd' = (expiredFd \/ fuse = 1)
    /\ UNCHANGED <<backs, heapVars, setVars, batchVars, userVars>>

\* The wall clock, from which expirations are computed, is set back
ClockBack ==
    /\ backs < MaxBacks /\ now > 0
    /\ now' = now - 1
    /\ backs' = backs + 1
    /\ UNCHANGED <<fdVars, heapVars, setVars, batchVars, userVars>>

-----------------------------------------------------------------------------
(* What runs on the loop thread                                            *)

\* Timer::Timer() at the address new gives it
NewTimer(a, when, i) ==
    /\ numCreated < MaxSeq
    /\ a \notin alive
    /\ numCreated' = numCreated + 1
    /\ alive' = alive \cup {a}
    /\ sequence' = [sequence EXCEPT ![a] = numCreated + 1]
    /\ expiration' = [expiration EXCEPT ![a] = when]
    /\ interval' = [interval EXCEPT ![a] = i]

\* insert(): the timer joins both sets; its result is earliestChanged
insert(a, when, seq) ==
    /\ timers' = timers \cup {<<when, a>>}
    /\ activeTimers' = activeTimers \cup {<<a, seq>>}
earliestChanged(when) == \A e \in timers : when < e[1]

\* addTimerInLoop(): the timerfd is set again when the new timer is the earliest
addTimerInLoop(a, when, seq) ==
    /\ insert(a, when, seq)
    /\ IF earliestChanged(when) THEN resetTimerfd(when) ELSE UNCHANGED fdVars

\* addTimer() on the loop thread
AddTimer(a, when, i) ==
    /\ NewTimer(a, when, i)
    /\ addTimerInLoop(a, when, numCreated + 1)
    /\ ids' = ids \cup {<<a, numCreated + 1>>}
    /\ UNCHANGED <<clockVars, cancelingTimers, dead, batchVars, pending, adding>>

CancelFreeingExpired(id) ==
    /\ timers' = timers \ {Entry(id[1])}
    /\ alive' = alive \ {id[1]}
    /\ activeTimers' = activeTimers \ {id}
    /\ dead' = dead \cup {id}
    /\ UNCHANGED cancelingTimers

CancelKeepingEntry(id) ==
    /\ IF id \in activeTimers
         THEN /\ alive' = alive \ {id[1]}
              /\ activeTimers' = activeTimers \ {id}
              /\ UNCHANGED <<timers, cancelingTimers>>
         ELSE /\ cancelingTimers' = IF callingExpiredTimers THEN cancelingTimers \cup {id}
                                    ELSE cancelingTimers
              /\ UNCHANGED <<timers, alive, activeTimers>>
    /\ UNCHANGED dead

\* cancelInLoop(): erase and delete an active timer; a timer of the batch that
\* handleRead() is running is noted for reset()
cancelInLoop(id) ==
    /\ IF id \in activeTimers
         THEN /\ timers' = timers \ {Entry(id[1])}
              /\ alive' = alive \ {id[1]}
              /\ activeTimers' = activeTimers \ {id}
              /\ UNCHANGED cancelingTimers
         ELSE /\ cancelingTimers' = IF callingExpiredTimers THEN cancelingTimers \cup {id}
                                    ELSE cancelingTimers
              /\ UNCHANGED <<timers, alive, activeTimers>>
    /\ dead' = IF id \in activeTimers \cup {IdOf(e[2]) : e \in batch}
                 THEN dead \cup {id} ELSE dead

\* cancel() on the loop thread
Cancel(id) ==
    /\ id \in ids
    /\ cancelInLoop(id)
    /\ UNCHANGED <<clockVars, fdVars, numCreated, sequence, expiration, interval,
                   batchVars, userVars>>

\* The loop runs the functor at the head of its queue
RunPending ==
    /\ ~callingExpiredTimers
    /\ pending # <<>>
    /\ pending' = Tail(pending)
    /\ LET f == Head(pending) IN
        \/ /\ f.call = "add"
           /\ addTimerInLoop(f.timer, expiration[f.timer], sequence[f.timer])
           /\ UNCHANGED <<alive, cancelingTimers, dead>>
        \/ /\ f.call = "cancel"
           /\ cancelInLoop(f.id)
           /\ UNCHANGED fdVars
    /\ UNCHANGED <<clockVars, numCreated, sequence, expiration, interval, batchVars,
                   adding, ids>>

\* handleRead() up to the callbacks: now, readTimerfd(), getExpired()
HandleRead ==
    /\ ~callingExpiredTimers
    /\ expiredFd
    /\ expiredFd' = FALSE
    /\ readNow' = now
    /\ batch' = {e \in timers : e[1] <= now}
    /\ toRun' = batch'
    /\ timers' = timers \ batch'
    /\ activeTimers' = activeTimers \ {IdOf(e[2]) : e \in batch'}
    /\ callingExpiredTimers' = TRUE
    /\ cancelingTimers' = {}
    /\ UNCHANGED <<clockVars, fuse, heapVars, dead, userVars>>

\* iter.second->run(), in the order of the set
RunTimer(e) ==
    /\ callingExpiredTimers
    /\ e \in toRun
    /\ \A f \in toRun : e[1] <= f[1]
    /\ toRun' = toRun \ {e}
    /\ UNCHANGED <<clockVars, fdVars, heapVars, setVars, callingExpiredTimers, batch,
                   readNow, userVars>>

RestartedAnyway == {e[2] : e \in {b \in batch : interval[b[2]] > 0}}

\* the timers of the batch that repeat and were not cancelled meanwhile
Restarted ==
    LET again == {e \in batch : interval[e[2]] > 0 /\ IdOf(e[2]) \notin cancelingTimers}
    IN  {e[2] : e \in again}

RearmNever == UNCHANGED fdVars

\* the timerfd is set for the earliest timer, if there is one
Rearm == IF timers' # {} THEN resetTimerfd(Earliest(timers')) ELSE UNCHANGED fdVars

\* The end of handleRead(): restart the repeating timers that were not
\* cancelled, delete the others, set the timerfd for the earliest one
Reset ==
    /\ callingExpiredTimers
    /\ toRun = {}
    /\ callingExpiredTimers' = FALSE
    /\ batch' = {}
    /\ expiration' = [a \in Addrs |-> IF a \in Restarted THEN readNow + interval[a]
                                      ELSE expiration[a]]
    /\ timers' = timers \cup {<<readNow + interval[a], a>> : a \in Restarted}
    /\ activeTimers' = activeTimers \cup {IdOf(a) : a \in Restarted}
    /\ alive' = alive \ ({e[2] : e \in batch} \ Restarted)
    /\ Rearm
    /\ UNCHANGED <<clockVars, numCreated, sequence, interval, cancelingTimers, dead,
                   toRun, readNow, userVars>>

-----------------------------------------------------------------------------
(* The other threads                                                       *)

\* addTimer() up to the end of runInLoop()
QueueAdd(t, a, when, i) ==
    /\ adding[t] = None
    /\ Len(pending) < MaxPending
    /\ NewTimer(a, when, i)
    /\ pending' = Append(pending, [call |-> "add", timer |-> a])
    /\ adding' = [adding EXCEPT ![t] = a]
    /\ UNCHANGED <<clockVars, fdVars, setVars, batchVars, ids>>

\* return TimerId(timer, timer->sequence()): by now the loop may have run and
\* deleted the timer, and then the sequence read is whatever the heap holds
ReturnId(t) ==
    /\ adding[t] # None
    /\ LET a == adding[t] IN
        \E s \in 0..numCreated :
            /\ a \in alive => s = sequence[a]
            /\ ids' = ids \cup {<<a, s>>}
    /\ adding' = [adding EXCEPT ![t] = None]
    /\ UNCHANGED <<clockVars, fdVars, heapVars, setVars, batchVars, pending>>

\* cancel() from another thread
QueueCancel(id) ==
    /\ id \in ids
    /\ Len(pending) < MaxPending
    /\ pending' = Append(pending, [call |-> "cancel", id |-> id])
    /\ UNCHANGED <<clockVars, fdVars, heapVars, setVars, batchVars, adding, ids>>

-----------------------------------------------------------------------------
LoopStep ==
    \/ RunPending
    \/ HandleRead
    \/ \E e \in toRun : RunTimer(e)
    \/ Reset

Next ==
    \/ Tick
    \/ ClockBack
    \/ LoopStep
    \/ \E a \in Addrs, when \in 0..MaxTime, i \in Intervals :
        \/ AddTimer(a, when, i)
        \/ \E t \in Callers : QueueAdd(t, a, when, i)
    \/ \E id \in ids : Cancel(id) \/ QueueCancel(id)
    \/ \E t \in Callers : ReturnId(t)

\* Time passes and the loop thread goes on.  Every round of the event loop
\* polls once and runs a finite batch of functors (module EventLoop), so neither
\* a readable timerfd nor a queued functor waits for ever.
Fairness ==
    /\ WF_vars(Tick)
    /\ WF_vars(RunPending)
    /\ WF_vars(HandleRead)
    /\ WF_vars(\E e \in toRun : RunTimer(e))
    /\ WF_vars(Reset)

Spec == Init /\ [][Next]_vars /\ Fairness

-----------------------------------------------------------------------------
(* Properties                                                              *)

\* _timers and _activeTimers hold the same timers, each under its current
\* expiration and sequence: the assertions on their sizes and on what erase
\* and insert return never fail, with addresses reused
\* (TimerQueue::insert, cancelInLoop, getExpired, reset).
SetsMatch ==
    /\ timers = {Entry(id[1]) : id \in activeTimers}
    /\ \A id \in activeTimers : id = IdOf(id[1])

Queued == {id[1] : id \in activeTimers}
InBatch == IF callingExpiredTimers THEN {e[2] : e \in batch} ELSE {}
Adds == {i \in DOMAIN pending : pending[i].call = "add"}
ToBeAdded == {pending[i].timer : i \in Adds}

\* Every Timer object has exactly one owner: the functor that will add it, the
\* queue, or the batch that handleRead() is running.  None leaks, none is
\* deleted twice, none is used after it was deleted (TimerQueue::addTimer,
\* cancelInLoop, reset).
OneOwner ==
    /\ alive = Queued \cup InBatch \cup ToBeAdded
    /\ Queued \cap InBatch = {} /\ Queued \cap ToBeAdded = {} /\ InBatch \cap ToBeAdded = {}
    /\ \A i, j \in Adds : pending[i].timer = pending[j].timer => i = j

\* A timer that cancelInLoop() found never gets back into the queue, and runs
\* once more only as part of the batch whose callbacks cancelled it: a
\* repeating timer that cancels itself stops (TimerQueue::cancelInLoop, reset).
CancelledStaysOut ==
    \A id \in dead :
        /\ id \notin activeTimers
        /\ callingExpiredTimers /\ id \in {IdOf(e[2]) : e \in batch} => id \in cancelingTimers

\* No timer is forgotten: outside handleRead() the timerfd is readable or set
\* to expire no later than the earliest timer (or after the 100us minimum),
\* also after the wall clock was set back (TimerQueue::addTimerInLoop, reset,
\* howmuchTimeFromNow).
TimerfdCoversEarliest ==
    timers # {} /\ ~callingExpiredTimers =>
        expiredFd \/ (fuse > 0 /\ fuse <= Later(Earliest(timers) - now, 1))

\* A timer in the queue is run or cancelled once it is due
\* (TimerQueue::handleRead).
DueTimerRuns ==
    \A a \in Addrs : (a \in Queued /\ expiration[a] <= MaxTime) ~> (a \notin Queued)
=============================================================================
