------------------------ MODULE EventLoopThreadPool ------------------------
(***************************************************************************)
(* An EventLoopThreadPool and the EventLoopThreads it owns: start(), the   *)
(* round robin of getNextLoop() and the destructors, which run one after   *)
(* the other on the thread that owns the pool.                             *)
(*                                                                         *)
(* An EventLoop lives on the stack of its thread's threadFunc(); the owner *)
(* sees it through EventLoopThread::_loop, which startLoop() reads under   *)
(* the mutex and ~EventLoopThread() does not.                              *)
(***************************************************************************)
EXTENDS Naturals

CONSTANTS
    N,           \* _numThreads
    MaxCalls,    \* bound: calls of getNextLoop()
    Careful,     \* the owner destroys the pool only when every loop runs or has
                 \* ended, and no functor is left to quit one
    LoopsQuit    \* functors may quit the loop they run in

ASSUME PoolAssumption == N \in Nat /\ MaxCalls \in Nat /\ {Careful, LoopsQuit} \subseteq BOOLEAN

VARIABLES
    owner,    \* what the owner does
    cur,      \* the EventLoopThread it does it to
    thr,      \* per thread: where threadFunc() is
    loop,     \* per thread: EventLoopThread::_loop is not null
    loopQuit, \* per thread: EventLoop::_quit
    dead,     \* the EventLoopThread objects that have been destroyed
    next,     \* _next
    served    \* history: how often getNextLoop() returned each loop

poolVars == <<owner, cur, thr, loop, loopQuit, dead, next, served>>
threadVars == <<thr, loop, loopQuit>>

PoolThreads == 1..N

\* threadFunc(): before and after the assignment of _loop, in loop(), after
\* loop(), after _loop = nullptr with the mutex still held, ended
Places == {"none", "created", "published", "looping", "left", "cleared", "ended"}

PoolTypeOK ==
    /\ owner \in {"start", "wait", "run", "dtor", "quit", "store", "join", "done"}
    /\ cur \in 1..(N + 1)
    /\ thr \in [PoolThreads -> Places]
    /\ loop \in [PoolThreads -> BOOLEAN]
    /\ loopQuit \in [PoolThreads -> BOOLEAN]
    /\ dead \subseteq PoolThreads
    /\ next \in 0..(IF N = 0 THEN 0 ELSE N - 1)
    /\ served \in [PoolThreads -> Nat]

PoolInit ==
    /\ owner = "start" /\ cur = 1
    /\ thr = [t \in PoolThreads |-> "none"]
    /\ loop = [t \in PoolThreads |-> FALSE]
    /\ loopQuit = [t \in PoolThreads |-> FALSE]
    /\ dead = {}
    /\ next = 0
    /\ served = [t \in PoolThreads |-> 0]

-----------------------------------------------------------------------------
(* The threads                                                             *)

\* threadFunc(): the loop is constructed and published
Publish(t) ==
    /\ thr[t] = "created"
    /\ thr' = [thr EXCEPT ![t] = "published"]
    /\ loop' = [loop EXCEPT ![t] = TRUE]
    /\ UNCHANGED <<owner, cur, loopQuit, dead, next, served>>

\* EventLoop::loop() begins: _quit = false
EnterLoop(t) ==
    /\ thr[t] = "published"
    /\ thr' = [thr EXCEPT ![t] = "looping"]
    /\ loopQuit' = [loopQuit EXCEPT ![t] = FALSE]
    /\ UNCHANGED <<owner, cur, loop, dead, next, served>>

\* an iteration of loop() that finds nothing to do
Iterate(t) ==
    /\ thr[t] = "looping" /\ ~loopQuit[t]
    /\ UNCHANGED poolVars

\* a functor that was given to this loop calls its quit()
QuitSelf(t) ==
    /\ LoopsQuit /\ served[t] > 0 /\ (Careful => owner = "run")
    /\ thr[t] = "looping" /\ ~loopQuit[t]
    /\ loopQuit' = [loopQuit EXCEPT ![t] = TRUE]
    /\ UNCHANGED <<owner, cur, thr, loop, dead, next, served>>

\* while(!_quit) ends
LeaveLoop(t) ==
    /\ thr[t] = "looping" /\ loopQuit[t]
    /\ thr' = [thr EXCEPT ![t] = "left"]
    /\ UNCHANGED <<owner, cur, loop, loopQuit, dead, next, served>>

\* threadFunc(): lock, _loop = nullptr
Clear(t) ==
    /\ thr[t] = "left"
    /\ thr' = [thr EXCEPT ![t] = "cleared"]
    /\ loop' = [loop EXCEPT ![t] = FALSE]
    /\ UNCHANGED <<owner, cur, loopQuit, dead, next, served>>

\* threadFunc(): unlock, the destructor of the loop
EndThread(t) ==
    /\ thr[t] = "cleared"
    /\ thr' = [thr EXCEPT ![t] = "ended"]
    /\ UNCHANGED <<owner, cur, loop, loopQuit, dead, next, served>>

PoolThread(t) == Publish(t) \/ EnterLoop(t) \/ LeaveLoop(t) \/ Clear(t) \/ EndThread(t)

-----------------------------------------------------------------------------
(* The owner                                                               *)

\* start(): the next EventLoopThread and its thread
Start ==
    /\ owner = "start"
    /\ IF cur <= N
         THEN /\ thr' = [thr EXCEPT ![cur] = "created"]
              /\ owner' = "wait"
         ELSE /\ owner' = "run"
              /\ UNCHANGED thr
    /\ UNCHANGED <<cur, loop, loopQuit, dead, next, served>>

\* startLoop(): _cv.wait() for _loop
StartLoop ==
    /\ owner = "wait" /\ loop[cur]
    /\ owner' = "start" /\ cur' = cur + 1
    /\ UNCHANGED <<threadVars, dead, next, served>>

AdvanceStuck(n) == IF n + 1 >= N THEN n ELSE n + 1

\* _next++ and the wrap
Advance(n) == IF n + 1 = N THEN 0 ELSE n + 1

Calls == IF N = 0 THEN 0 ELSE served[1]

\* getNextLoop(); without threads it returns the base loop
GetNextLoop ==
    /\ owner = "run" /\ Calls < MaxCalls
    /\ N > 0
    /\ served' = [served EXCEPT ![next + 1] = served[next + 1] + 1]
    /\ next' = Advance(next)
    /\ UNCHANGED <<owner, cur, threadVars, dead>>

\* ~EventLoopThreadPool(): the destructors of _threads
BeginDtor ==
    /\ owner = "run"
    /\ Careful => \A t \in PoolThreads : IF loopQuit[t] THEN thr[t] = "ended" ELSE thr[t] = "looping"
    /\ owner' = "dtor" /\ cur' = 1
    /\ UNCHANGED <<threadVars, dead, next, served>>

Destroyed == owner' = "dtor" /\ cur' = cur + 1 /\ dead' = dead \cup {cur}

\* ~EventLoopThread(): if(_loop != nullptr); a thread that is not joined is
\* detached by ~Thread()
DtorTest ==
    /\ owner = "dtor"
    /\ IF cur > N THEN owner' = "done" /\ UNCHANGED <<cur, dead>>
       ELSE IF loop[cur] THEN owner' = "quit" /\ UNCHANGED <<cur, dead>>
       ELSE Destroyed
    /\ UNCHANGED <<threadVars, next, served>>

\* _loop is read again
DtorReread ==
    /\ owner = "quit" /\ loop[cur]
    /\ owner' = "store"
    /\ UNCHANGED <<cur, threadVars, dead, next, served>>

LoopExists(t) == thr[t] \in {"published", "looping", "left", "cleared"}

DtorQuitForgotten ==
    /\ owner = "store" /\ LoopExists(cur)
    /\ owner' = "join"
    /\ UNCHANGED <<cur, threadVars, dead, next, served>>

\* quit()
DtorQuit ==
    /\ owner = "store" /\ LoopExists(cur)
    /\ loopQuit' = [loopQuit EXCEPT ![cur] = TRUE]
    /\ owner' = "join"
    /\ UNCHANGED <<cur, thr, loop, dead, next, served>>

DtorJoinNot ==
    /\ owner = "join"
    /\ Destroyed
    /\ UNCHANGED <<threadVars, next, served>>

DtorJoin ==
    /\ owner = "join" /\ thr[cur] = "ended"
    /\ Destroyed
    /\ UNCHANGED <<threadVars, next, served>>

\* the pool is gone and so is every thread
Finished ==
    /\ owner = "done" /\ \A t \in PoolThreads : thr[t] = "ended"
    /\ UNCHANGED poolVars

Dtor == DtorTest \/ DtorReread \/ DtorQuit \/ DtorJoin

PoolNext ==
    \/ \E t \in PoolThreads : PoolThread(t) \/ Iterate(t) \/ QuitSelf(t)
    \/ Start \/ StartLoop \/ GetNextLoop \/ BeginDtor
    \/ Dtor
    \/ Finished

\* Every thread keeps running; nobody has to call quit() or the destructor.
PoolFairness ==
    /\ \A t \in PoolThreads : WF_poolVars(PoolThread(t))
    /\ WF_poolVars(Start \/ StartLoop)
    /\ WF_poolVars(Dtor)

PoolSpec == PoolInit /\ [][PoolNext]_poolVars /\ PoolFairness

-----------------------------------------------------------------------------
(* Properties                                                              *)

\* getNextLoop() spreads the connections evenly: the loops before _next have
\* had exactly one more than the others (EventLoopThreadPool::getNextLoop).
RoundRobin ==
    \A s, t \in PoolThreads :
        s < t => served[s] = served[t] + (IF s <= next /\ next < t THEN 1 ELSE 0)

\* ~EventLoopThread() is safe: it calls quit() through a pointer that is
\* neither null nor dangling, and no thread still runs threadFunc(), which uses
\* _mtx and _loop, on an EventLoopThread that is gone
\* (EventLoopThread::~EventLoopThread, EventLoopThread::threadFunc).
DtorIsSafe ==
    /\ owner = "quit" => loop[cur]
    /\ owner = "store" => LoopExists(cur)
    /\ \A t \in dead : thr[t] = "ended"

\* The destructor of the pool returns (EventLoopThread::~EventLoopThread).
DtorReturns == (owner = "dtor") ~> (owner = "done")
=============================================================================
