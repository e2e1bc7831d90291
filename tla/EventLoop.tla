----------------------------- MODULE EventLoop -----------------------------
(***************************************************************************)
(* ideal::net::EventLoop: one thread, the loop thread, polls its channels, *)
(* runs the callbacks of the active ones and then the functors that other  *)
(* threads and its own callbacks queued.  An eventfd, polled like any      *)
(* other channel, interrupts the poll.                                     *)
(*                                                                         *)
(* Every thread executes queueInLoop() and quit() in two steps: the push   *)
(* (under _mtx) or the store to _quit, then the write to the eventfd.      *)
(***************************************************************************)
EXTENDS Naturals, Sequences

CONSTANTS
    LoopThread,     \* the thread that constructed the EventLoop
    OtherThreads,   \* every other thread that holds a pointer to it
    Functors,       \* the functors, each queued at most once
    Channels,       \* the channels of the loop's users (sockets, timerfd)
    WakeupChannel,  \* _wakeupChannel
    None,           \* no callback is running
    MaxEventfd      \* the eventfd counter's limit (2^64-2 on Linux)

ASSUME EventLoopAssumption ==
    /\ LoopThread \notin OtherThreads
    /\ WakeupChannel \notin Channels
    /\ None \notin Channels \cup Functors \cup {WakeupChannel}
    /\ MaxEventfd \in Nat \ {0}

Threads == OtherThreads \cup {LoopThread}

VARIABLES
    pc,                     \* where the loop thread is in loop()
    quit,                   \* _quit
    callingPendingFunctors, \* _callingPendingFunctors
    pendingFunctors,        \* _pendingFunctors, guarded by _mtx
    functors,               \* doPendingFunctors()'s local, still to be run
    activeChannels,         \* the part of _activeChannels not handled yet
    current,                \* whose callback the loop thread is running
    readable,               \* kernel: the user channels that have an event
    eventfd,                \* kernel: the counter of _wakeupFd
    op,                     \* the half-done queueInLoop() or quit() per thread
    queued,                 \* history: functors in the order they were pushed
    ran,                    \* history: queued functors in the order they ran
    early                   \* history: functors the loop thread queued
                            \* while it was outside loop()

loopVars == <<pc, activeChannels, current, readable>>
queueVars == <<callingPendingFunctors, pendingFunctors, functors, queued, ran, early>>
vars == <<loopVars, queueVars, quit, eventfd, op>>

TypeOK ==
    /\ pc \in {"out", "test", "poll", "events", "functors"}
    /\ quit \in BOOLEAN
    /\ callingPendingFunctors \in BOOLEAN
    /\ pendingFunctors \in Seq(Functors)
    /\ functors \in Seq(Functors)
    /\ activeChannels \subseteq Channels \cup {WakeupChannel}
    /\ current \in Channels \cup Functors \cup {WakeupChannel, None}
    /\ readable \subseteq Channels
    /\ eventfd \in 0..MaxEventfd
    /\ op \in [Threads -> {"none", "queued", "quitting"}]
    /\ queued \in Seq(Functors)
    /\ ran \in Seq(Functors)
    /\ early \subseteq Functors

Init ==
    /\ pc = "out"
    /\ quit = FALSE
    /\ callingPendingFunctors = FALSE
    /\ pendingFunctors = <<>>
    /\ functors = <<>>
    /\ activeChannels = {}
    /\ current = None
    /\ readable = {}
    /\ eventfd = 0
    /\ op = [t \in Threads |-> "none"]
    /\ queued = <<>>
    /\ ran = <<>>
    /\ early = {}

Elements(s) == {s[i] : i \in 1..Len(s)}

-----------------------------------------------------------------------------
(* What any thread may call.                                               *)

\* The loop thread calls the loop's own methods before and after loop(), and
\* from the callbacks it runs; the other threads call them at any time.
MayCall(t) ==
    /\ op[t] = "none"
    /\ t = LoopThread => pc = "out" \/ current \notin {None, WakeupChannel}

\* An eventfd write adds one; at the limit it fails with EAGAIN (logged).
Written(n) == IF n < MaxEventfd THEN n + 1 ELSE n

\* queueInLoop(), the locked push_back
QueueInLoop(t, f) ==
    /\ MayCall(t)
    /\ f \notin Elements(queued)
    /\ pendingFunctors' = Append(pendingFunctors, f)
    /\ queued' = Append(queued, f)
    /\ early' = IF t = LoopThread /\ pc = "out" THEN early \cup {f} ELSE early
    /\ op' = [op EXCEPT ![t] = "queued"]
    /\ UNCHANGED <<loopVars, quit, callingPendingFunctors, functors, ran, eventfd>>

WakeupOnlyForOthers(t) ==
    /\ op[t] = "queued"
    /\ eventfd' = IF t # LoopThread THEN Written(eventfd) ELSE eventfd
    /\ op' = [op EXCEPT ![t] = "none"]
    /\ UNCHANGED <<loopVars, queueVars, quit>>

\* queueInLoop(), after the lock is released: wake the loop unless the loop
\* thread itself is going to run doPendingFunctors() after this callback
QueueWakeup(t) ==
    /\ op[t] = "queued"
    /\ eventfd' = IF t # LoopThread \/ callingPendingFunctors
                    THEN Written(eventfd) ELSE eventfd
    /\ op' = [op EXCEPT ![t] = "none"]
    /\ UNCHANGED <<loopVars, queueVars, quit>>

\* runInLoop(): directly on the loop thread, otherwise through the queue
RunInLoop(t, f) ==
    \/ /\ t = LoopThread
       /\ MayCall(t)
       /\ pc # "out"
       /\ current' = f
       /\ UNCHANGED <<pc, activeChannels, readable, queueVars, quit, eventfd, op>>
    \/ /\ t # LoopThread
       /\ QueueInLoop(t, f)

QuitNoWakeup(t) ==
    /\ MayCall(t)
    /\ quit' = TRUE
    /\ UNCHANGED <<loopVars, queueVars, eventfd, op>>

\* quit(), the store to _quit
Quit(t) ==
    /\ MayCall(t)
    /\ quit' = TRUE
    /\ op' = [op EXCEPT ![t] = IF t # LoopThread THEN "quitting" ELSE "none"]
    /\ UNCHANGED <<loopVars, queueVars, eventfd>>

\* quit(), the wakeup() of another thread
QuitWakeup(t) ==
    /\ op[t] = "quitting"
    /\ eventfd' = Written(eventfd)
    /\ op' = [op EXCEPT ![t] = "none"]
    /\ UNCHANGED <<loopVars, queueVars, quit>>

-----------------------------------------------------------------------------
(* The loop thread in loop().  It takes a step of its own only when it is  *)
(* not inside queueInLoop().                                               *)

LoopAt(where) == pc = where /\ op[LoopThread] = "none"

\* entering loop(): a quit() made before this point is forgotten
Loop ==
    /\ LoopAt("out")
    /\ pc' = "test"
    /\ quit' = FALSE
    /\ UNCHANGED <<queueVars, activeChannels, current, readable, eventfd, op>>

\* while(!_quit)
TestQuit ==
    /\ LoopAt("test")
    /\ pc' = IF quit THEN "out" ELSE "poll"
    /\ activeChannels' = {}
    /\ UNCHANGED <<queueVars, current, readable, quit, eventfd, op>>

Ready == readable \cup (IF eventfd > 0 THEN {WakeupChannel} ELSE {})

\* epoll_wait() returns the ready channels
Poll ==
    /\ LoopAt("poll")
    /\ Ready # {}
    /\ activeChannels' = Ready
    /\ pc' = "events"
    /\ UNCHANGED <<queueVars, current, readable, quit, eventfd, op>>

\* epoll_wait() returns nothing after kPollTimeMs
PollTimeout ==
    /\ LoopAt("poll")
    /\ Ready = {}
    /\ pc' = "events"
    /\ UNCHANGED <<queueVars, activeChannels, current, readable, quit, eventfd, op>>

\* _currentActiveChannel->handleEvent(): handleRead() empties the eventfd, the
\* callback of a user channel consumes its event
HandleEvent(c) ==
    /\ LoopAt("events")
    /\ c \in activeChannels
    /\ activeChannels' = activeChannels \ {c}
    /\ current' = c
    /\ eventfd' = IF c = WakeupChannel THEN 0 ELSE eventfd
    /\ readable' = readable \ {c}
    /\ UNCHANGED <<pc, queueVars, quit, op>>

DoPendingFunctorsNoSwap ==
    /\ LoopAt("events")
    /\ activeChannels = {}
    /\ pc' = "functors"
    /\ current' = None
    /\ callingPendingFunctors' = TRUE
    /\ functors' = pendingFunctors
    /\ UNCHANGED <<pendingFunctors, activeChannels, readable, quit, eventfd, op,
                   queued, ran, early>>

\* doPendingFunctors(), up to the end of the locked swap
DoPendingFunctors ==
    /\ LoopAt("events")
    /\ activeChannels = {}
    /\ pc' = "functors"
    /\ current' = None
    /\ callingPendingFunctors' = TRUE
    /\ functors' = pendingFunctors
    /\ pendingFunctors' = <<>>
    /\ UNCHANGED <<activeChannels, readable, quit, eventfd, op, queued, ran, early>>

\* one round of the loop over the swapped functors
RunFunctor ==
    /\ LoopAt("functors")
    /\ functors # <<>>
    /\ current' = Head(functors)
    /\ functors' = Tail(functors)
    /\ ran' = Append(ran, Head(functors))
    /\ UNCHANGED <<pc, activeChannels, readable, quit, eventfd, op,
                   callingPendingFunctors, pendingFunctors, queued, early>>

\* the end of doPendingFunctors()
EndPendingFunctors ==
    /\ LoopAt("functors")
    /\ functors = <<>>
    /\ pc' = "test"
    /\ current' = None
    /\ callingPendingFunctors' = FALSE
    /\ UNCHANGED <<activeChannels, readable, quit, eventfd, op,
                   functors, pendingFunctors, queued, ran, early>>

\* the kernel: an event arrives on a user channel
Arrive(c) ==
    /\ c \notin readable
    /\ readable' = readable \cup {c}
    /\ UNCHANGED <<pc, activeChannels, current, queueVars, quit, eventfd, op>>

-----------------------------------------------------------------------------
\* What the loop thread does without any new input, once in loop()
LoopStep ==
    \/ TestQuit
    \/ Poll
    \/ \E c \in Channels \cup {WakeupChannel} : HandleEvent(c)
    \/ DoPendingFunctors
    \/ RunFunctor
    \/ EndPendingFunctors

FinishCall(t) == QueueWakeup(t) \/ QuitWakeup(t)

Next ==
    \/ LoopStep
    \/ Loop
    \/ PollTimeout
    \/ \E t \in Threads :
        \/ \E f \in Functors : QueueInLoop(t, f) \/ RunInLoop(t, f)
        \/ FinishCall(t)
        \/ Quit(t)
    \/ \E c \in Channels : Arrive(c)

\* A thread that is scheduled goes on: the loop thread runs its callbacks and
\* functors and a caller finishes its call.  Nothing is assumed about the poll
\* timeout, so a wakeup that is lost shows as a functor that never runs.
Fairness ==
    /\ WF_vars(LoopStep)
    /\ \A t \in Threads : WF_vars(FinishCall(t))

Spec == Init /\ [][Next]_vars /\ Fairness

-----------------------------------------------------------------------------
(* Properties                                                              *)

\* Queued functors run in the order they were queued and exactly once, none
\* is lost between the swap and the run, whoever queues meanwhile
\* (EventLoop::queueInLoop, EventLoop::doPendingFunctors).
FunctorsRunOnceInOrder == queued = ran \o functors \o pendingFunctors

\* A loop blocked in poll() on a queue that holds work has its wakeup on the
\* way; the exception is a functor the loop thread queued outside loop():
\* nobody is woken for it and it waits for the next event or for kPollTimeMs.
PendingWakesLoop ==
    pc = "poll" /\ (\E i \in 1..Len(pendingFunctors) : pendingFunctors[i] \notin early)
        => eventfd > 0 \/ \E t \in OtherThreads : op[t] = "queued"

\* The same for a quit() that loop() has not forgotten.
QuitWakesLoop ==
    pc = "poll" /\ quit => eventfd > 0 \/ \E t \in OtherThreads : op[t] = "quitting"

\* No wakeup is lost: the loop never blocks in poll() on queued work or on a
\* quit() unless the eventfd is readable or the thread that queued or quit is
\* about to write it (EventLoop::queueInLoop, quit, doPendingFunctors).
NoLostWakeup == PendingWakesLoop /\ QuitWakesLoop

\* A functor queued from anywhere but outside loop() on the loop thread runs,
\* or the loop ends, without the help of a poll timeout
\* (EventLoop::queueInLoop, EventLoop::wakeup, EventLoop::handleRead).
QueuedFunctorRuns ==
    \A f \in Functors :
        (f \in Elements(queued) \ early /\ pc # "out")
            ~> (f \in Elements(ran) \/ pc = "out")

\* quit() during loop() ends the loop (EventLoop::quit, EventLoop::loop).
QuitEndsLoop == (pc # "out" /\ quit) ~> (pc = "out")
=============================================================================
