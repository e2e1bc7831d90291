----------------------------- MODULE ThreadPool -----------------------------
(***************************************************************************)
(* Threads that hand work to each other and write one log.                 *)
(*                                                                         *)
(* The kind of a behaviour says which class passes the work on:            *)
(*   "pool"      ThreadPool: run(), the workers' loop, stop();             *)
(*   "blocking"  BlockingQueue, "bounded"  BoundedBlockingQueue: consumer  *)
(*               threads that take until they meet a stop item, which the  *)
(*               main thread puts once the producers are done.             *)
(* Every thread is an ideal::Thread: start() waits on a CountDownLatch.    *)
(* A critical section that does not wait is one step; a thread whose       *)
(* predicate is false sleeps on the condition variable until a notify_all, *)
(* or wakes for no reason.                                                 *)
(*                                                                         *)
(* A task of the pool logs one line: Logger formats the time with a cache  *)
(* of the calling thread, then LogFile appends under its mutex, rolls and  *)
(* flushes.  Main may set the time zone before it starts the threads.      *)
(***************************************************************************)
EXTENDS WorkQueue, TimeZone, LogStream, FiniteSets

CONSTANTS
  NWorkers,      \* threads of the pool, or consumers
  NProducers,    \* threads that submit work
  QueueSize,     \* _maxQueueSize, or the capacity of the ring
  Scripts,       \* what a behaviour is made of: kind, nthreads, loud, the
                 \* tasks each producer submits and the lines main logs first
  Clocks,        \* the seconds the clock shows, in order
  NewZone,       \* the zone main may set
  RollSize,      \* _rollSize, in lines
  CheckEveryN,   \* checkEveryN
  FlushInterval  \* _flushInterval

ASSUME PoolAssumption ==
  /\ {NWorkers, NProducers, QueueSize, RollSize, CheckEveryN, FlushInterval} \subseteq Nat
  /\ NWorkers > 0 /\ QueueSize > 0 /\ CheckEveryN > 0
  /\ Clocks \in Seq(Nat) /\ Len(Clocks) > 0
  /\ \A i \in 2..Len(Clocks) : Clocks[i - 1] < Clocks[i]
  /\ \A s \in Scripts : /\ s.kind \in {"pool", "blocking", "bounded"}
                        /\ s.nthreads \in 0..NWorkers
                        /\ s.tasks \in [1..NProducers -> Nat] /\ s.lines \in Nat

Main == 0
Workers == 1..NWorkers
Producers == NWorkers + 1..NWorkers + NProducers
Threads == {Main} \cup Workers \cup Producers

Stop == <<"stop", 0>>
NoZone == [trans |-> <<>>, locals |-> <<>>]
NoLine == [level |-> "none"]

VARIABLES
  kind,      \* which class
  nthreads,  \* workers that start() creates: all, or none (pool only)
  loud,      \* g_logLevel lets the lines of tasks through
  queue,     \* the container
  running,   \* ThreadPool::_running
  pc,        \* where each thread is
  left,      \* tasks each producer has still to submit, lines or stop items for main
  latch,     \* Thread::_latch of the workers
  sleepers,  \* threads asleep: [notEmpty, notFull]
  joined,    \* workers main has started, then joined
  pushed,    \* history: tasks in the order of push_back()
  taken,     \* history: tasks in the order of pop_front()
  clock,     \* index of the current second
  zone,      \* g_logTimeZone
  zoneSet,   \* history: the second in which it was set, 0 when it was not
  cache,     \* t_lastSecond and t_time of each thread
  line,      \* the line each thread is about to write
  log,       \* LogFile
  dead       \* the process has aborted

poolVars == <<kind, nthreads, loud, queue, running, left, latch, sleepers, joined, pushed, taken>>
logVars == <<clock, zone, zoneSet, cache, line, log>>
vars == <<kind, nthreads, loud, queue, running, pc, left, latch, sleepers, joined, pushed, taken,
          clock, zone, zoneSet, cache, line, log, dead>>

Goto(t, label) == pc' = [pc EXCEPT ![t] = label]
Awake(t) == t \notin sleepers.notEmpty \cup sleepers.notFull

(***************************************************************************)
(* Thread, CountDownLatch                                                  *)
(***************************************************************************)

\* ThreadPool::start() creates a thread and waits for its latch.
StartThread ==
  /\ pc[Main] = "start" /\ joined < nthreads
  /\ running' = TRUE
  /\ pc' = [pc EXCEPT ![Main] = "latch", ![joined + 1] = "new"]
  /\ UNCHANGED <<kind, nthreads, loud, queue, left, latch, sleepers, joined, pushed, taken, logVars, dead>>

\* ThreadData::runInThread() counts down before it calls the function.
CountDown(w) ==
  /\ pc[w] = "new"
  /\ latch' = [latch EXCEPT ![w] = @ - 1]
  /\ Goto(w, "test")
  /\ UNCHANGED <<kind, nthreads, loud, queue, running, left, sleepers, joined, pushed, taken, logVars, dead>>

LatchWait ==
  /\ pc[Main] = "latch" /\ latch[joined + 1] = 0
  /\ joined' = joined + 1
  /\ Goto(Main, "start")
  /\ UNCHANGED <<kind, nthreads, loud, queue, running, left, latch, sleepers, pushed, taken, logVars, dead>>

\* start() returns; the producers are told.
Started ==
  /\ pc[Main] = "start" /\ joined = nthreads
  /\ running' = TRUE
  /\ joined' = 0
  /\ pc' = [t \in Threads |-> IF t = Main THEN "open" ELSE IF t \in Producers THEN "put" ELSE pc[t]]
  /\ UNCHANGED <<kind, nthreads, loud, queue, left, latch, sleepers, pushed, taken, logVars, dead>>

(***************************************************************************)
(* run(), put(), take()                                                    *)
(***************************************************************************)

\* Both put() and run() wait while the container is full; push_back() is
\* followed by notify_all().
PutItem(t, x) ==
  IF IsFull(queue)
  THEN /\ sleepers' = [sleepers EXCEPT !.notFull = @ \cup {t}]
       /\ UNCHANGED <<queue, pushed, left>>
  ELSE /\ queue' = PushBack(queue, x)
       /\ pushed' = Append(pushed, x)
       /\ left' = [left EXCEPT ![t] = @ - 1]
       /\ sleepers' = [sleepers EXCEPT !.notEmpty = {}]

\* run() without threads calls the task.
Run(p) ==
  /\ pc[p] = "put" /\ Awake(p) /\ left[p] > 0
  /\ IF nthreads = 0
     THEN left' = [left EXCEPT ![p] = @ - 1] /\ Goto(p, IF loud THEN "format" ELSE "put") /\ UNCHANGED <<queue, pushed, sleepers>>
     ELSE PutItem(p, <<"task", p * 10 + left[p]>>) /\ UNCHANGED pc
  /\ UNCHANGED <<kind, nthreads, loud, running, latch, joined, taken, logVars, dead>>

ProducerDone(p) ==
  /\ pc[p] = "put" /\ left[p] = 0
  /\ Goto(p, "done")
  /\ UNCHANGED <<poolVars, logVars, dead>>

\* while(_running) of ThreadPool; a consumer of a queue always goes on.
TestRunning(w) ==
  /\ pc[w] = "test"
  /\ Goto(w, IF running \/ kind # "pool" THEN "take" ELSE "done")
  /\ UNCHANGED <<poolVars, logVars, dead>>

\* Mutant: the notification of the producers is forgotten.
WakeProducersNever == sleepers

\* After pop_front(): the bounded queue always notifies, the pool when it
\* has a maximum.
WakeProducers == [sleepers EXCEPT !.notFull = {}]

\* What take() waits for: a task or, in the pool only, the end of _running.
MayTake == ~IsEmpty(queue) \/ (kind = "pool" /\ ~running)

Take(w) ==
  /\ pc[w] = "take" /\ Awake(w)
  /\ \/ /\ ~MayTake
        /\ sleepers' = [sleepers EXCEPT !.notEmpty = @ \cup {w}]
        /\ UNCHANGED <<queue, pc, taken>>
     \/ /\ MayTake /\ IsEmpty(queue)
        /\ Goto(w, "test")
        /\ UNCHANGED <<queue, taken, sleepers>>
     \/ /\ ~IsEmpty(queue)
        /\ queue' = PopFront(queue)
        /\ taken' = Append(taken, Front(queue))
        /\ sleepers' = IF kind = "blocking" THEN sleepers ELSE WakeProducers
        /\ Goto(w, IF Front(queue) = Stop THEN "done" ELSE IF loud THEN "format" ELSE "test")
  /\ UNCHANGED <<kind, nthreads, loud, running, left, latch, joined, pushed, logVars, dead>>

SpuriousWakeup(t) ==
  /\ ~Awake(t)
  /\ sleepers' = [notEmpty |-> sleepers.notEmpty \ {t}, notFull |-> sleepers.notFull \ {t}]
  /\ UNCHANGED <<kind, nthreads, loud, queue, running, pc, left, latch, joined, pushed, taken, logVars, dead>>

\* stop(), at any time: the first half runs under the mutex.
StopPool ==
  /\ pc[Main] = "open" /\ kind = "pool"
  /\ running' = FALSE
  /\ sleepers' = [sleepers EXCEPT !.notEmpty = {}]
  /\ Goto(Main, "join")
  /\ UNCHANGED <<kind, nthreads, loud, queue, left, latch, joined, pushed, taken, logVars, dead>>

\* The tests of the queues end with one stop item per consumer.
PutStop ==
  /\ pc[Main] = "open" /\ kind # "pool" /\ Awake(Main)
  /\ \A p \in Producers : pc[p] = "done"
  /\ IF left[Main] > 0 THEN PutItem(Main, Stop) /\ UNCHANGED pc
     ELSE Goto(Main, "join") /\ UNCHANGED <<queue, pushed, left, sleepers>>
  /\ UNCHANGED <<kind, nthreads, loud, running, latch, joined, taken, logVars, dead>>

Join ==
  /\ pc[Main] = "join"
  /\ IF joined = nthreads THEN Goto(Main, "done") /\ UNCHANGED joined
     ELSE pc[joined + 1] = "done" /\ joined' = joined + 1 /\ UNCHANGED pc
  /\ UNCHANGED <<kind, nthreads, loud, queue, running, left, latch, sleepers, pushed, taken, logVars, dead>>

(***************************************************************************)
(* Logger                                                                  *)
(***************************************************************************)

Now == Clocks[clock]
Valid(z) == z # NoZone

\* The text of a cached date: it was made in its second, in the zone of then.
Date(c) == IF Valid(c.zone) THEN ToLocalTime(c.zone, c.second).tm ELSE Gmtime(c.second)

\* Mutant: the thread's cache is used whatever the second.
FormatTimeStale(t) == IF cache[t].second = 0 THEN [second |-> Now, zone |-> zone] ELSE cache[t]

\* formatTime(): the date is formatted again only in a new second.
FormatTime(t) == IF Now = cache[t].second THEN cache[t] ELSE [second |-> Now, zone |-> zone]

\* A Logger is constructed: the line keeps what it shows, and as history
\* by which thread, when, and in which zone, it was logged.
Format(t, level) ==
  /\ pc[t] = "format"
  /\ cache' = [cache EXCEPT ![t] = FormatTime(t)]
  /\ line' = [line EXCEPT ![t] = [level |-> level, shown |-> FormatTime(t), utcMark |-> ~Valid(zone),
                                  by |-> t, second |-> Now, zone |-> zone, at |-> 0]]
  /\ Goto(t, "output")
  /\ UNCHANGED <<poolVars, clock, zone, zoneSet, log, dead>>

\* Main logs, then sets the zone once, or goes on to start the threads.
MainLogs ==
  /\ pc[Main] = "setup" /\ left[Main] > 0
  /\ left' = [left EXCEPT ![Main] = @ - 1]
  /\ Goto(Main, "format")
  /\ UNCHANGED <<kind, nthreads, loud, queue, running, latch, sleepers, joined, pushed, taken, logVars, dead>>

SetTimeZone ==
  /\ pc[Main] = "setup" /\ loud /\ ~Valid(zone)
  /\ zone' = NewZone
  /\ zoneSet' = Now
  /\ UNCHANGED <<poolVars, pc, clock, cache, line, log, dead>>

Start ==
  /\ pc[Main] = "setup"
  /\ left' = [left EXCEPT ![Main] = nthreads]
  /\ Goto(Main, "start")
  /\ UNCHANGED <<kind, nthreads, loud, queue, running, latch, sleepers, joined, pushed, taken, logVars, dead>>

(***************************************************************************)
(* LogFile and AppendFile                                                  *)
(***************************************************************************)

Period(second) == second \div SecondsPerDay
NewFile(second) == [opened |-> second, lines |-> <<>>, disk |-> 0]

\* fflush(), or fclose() when a file is replaced.
OnDisk(file) == [file EXCEPT !.disk = Len(file.lines)]
FlushLast(files) == [files EXCEPT ![Len(files)] = OnDisk(@)]

\* Mutant: a file is replaced once a period, whatever its size.
RollFileByPeriod(l) ==
  IF Period(Now) > Period(l.lastRoll)
  THEN [l EXCEPT !.files = Append(FlushLast(@), NewFile(Now)),
                 !.lastRoll = Now, !.lastFlush = Now, !.startOfPeriod = Period(Now)]
  ELSE l

\* rollFile(): no two files are opened in one second.
RollFile(l) ==
  IF Now > l.lastRoll
  THEN [l EXCEPT !.files = Append(FlushLast(@), NewFile(Now)),
                 !.lastRoll = Now, !.lastFlush = Now, !.startOfPeriod = Period(Now)]
  ELSE l

\* AppendFile::append(): into the stream's buffer; the length counts whether
\* or not the write succeeds.
AppendLine(file, ln) == [file EXCEPT !.lines = Append(@, [ln EXCEPT !.at = Now])]

AppendUnlocked(l, ln) ==
  LET n     == Len(l.files)
      wrote == [l EXCEPT !.files[n] = AppendLine(@, ln)]
      next  == [wrote EXCEPT !.count = @ + 1]
      check == [wrote EXCEPT !.count = 0]
  IN IF Len(wrote.files[n].lines) > RollSize THEN RollFile(wrote)
     ELSE IF next.count < CheckEveryN THEN next
     ELSE IF Period(Now) # l.startOfPeriod THEN RollFile(check)
     ELSE IF Now - l.lastFlush > FlushInterval
          THEN [check EXCEPT !.lastFlush = Now, !.files = FlushLast(@)]
     ELSE check

\* What a thread does after its line: main goes on with its set-up, a
\* producer that ran the task itself with its next task, a worker with the
\* loop.
AfterLine(t) == CASE t = Main -> "setup" [] t \in Producers -> "put" [] OTHER -> "test"

\* ~Logger(): g_output, then for a fatal line g_flush and abort().  Each of
\* the first two takes LogFile's mutex for itself and lets it go.
Output(t) ==
  /\ pc[t] = "output"
  /\ log' = AppendUnlocked(log, line[t])
  /\ line' = [line EXCEPT ![t] = NoLine]
  /\ Goto(t, IF line[t].level = "FATAL" THEN "flush" ELSE AfterLine(t))
  /\ UNCHANGED <<poolVars, clock, zone, zoneSet, cache, dead>>

Flush(t) ==
  /\ pc[t] = "flush"
  /\ log' = [log EXCEPT !.files = FlushLast(@)]
  /\ Goto(t, "abort")
  /\ UNCHANGED <<poolVars, clock, zone, zoneSet, cache, line, dead>>

\* abort() ends the process and flushes no stream: a line that another
\* thread has appended since the flush is lost.
Abort(t) ==
  /\ pc[t] = "abort"
  /\ dead' = TRUE
  /\ UNCHANGED <<poolVars, pc, logVars>>

\* Bound: the clock only moves in behaviours that log.
Tick ==
  /\ loud /\ clock < Len(Clocks)
  /\ clock' = clock + 1
  /\ UNCHANGED <<poolVars, pc, zone, zoneSet, cache, line, log, dead>>

(***************************************************************************)
(* The specification                                                       *)
(***************************************************************************)

\* LogFile's constructor rolls to the first file.
InitLog ==
  log = [files |-> <<NewFile(Now)>>, count |-> 0, lastRoll |-> Now, lastFlush |-> Now,
         startOfPeriod |-> Period(Now)]

Init ==
  /\ \E s \in Scripts :
       /\ kind = s.kind /\ nthreads = s.nthreads /\ loud = s.loud
       /\ left = [t \in Threads |-> IF t \in Producers THEN s.tasks[t - NWorkers]
                                    ELSE IF t = Main THEN s.lines ELSE 0]
  /\ queue = CASE kind = "pool" -> NewDeque(QueueSize)
               [] kind = "blocking" -> NewDeque(0)
               [] kind = "bounded" -> NewRing(QueueSize)
  /\ running = FALSE
  /\ pc = [t \in Threads |-> IF t = Main THEN "setup" ELSE "none"]
  /\ latch = [w \in Workers |-> 1]
  /\ sleepers = [notEmpty |-> {}, notFull |-> {}]
  /\ joined = 0
  /\ pushed = <<>> /\ taken = <<>>
  /\ clock = 1
  /\ zone = NoZone /\ zoneSet = 0
  /\ cache = [t \in Threads |-> [second |-> 0, zone |-> NoZone]]
  /\ line = [t \in Threads |-> NoLine]
  /\ InitLog
  /\ dead = FALSE

Logs(t) == (\E level \in {"INFO", "FATAL"} : Format(t, level)) \/ Output(t) \/ Flush(t) \/ Abort(t)
WorkerStep(w) == CountDown(w) \/ TestRunning(w) \/ Take(w)
ProducerStep(p) == Run(p) \/ ProducerDone(p)
MainStep == StartThread \/ LatchWait \/ Started \/ PutStop \/ Join

Next ==
  /\ ~dead
  /\ \/ \E t \in Threads : Logs(t) \/ SpuriousWakeup(t)
     \/ \E w \in Workers : WorkerStep(w)
     \/ \E p \in Producers : ProducerStep(p)
     \/ MainStep \/ MainLogs \/ SetTimeZone \/ Start \/ StopPool
     \/ Tick

\* The scheduler runs every thread that is not asleep.  Nothing makes main
\* stop the pool, the clock tick within a behaviour, or a sleeper wake.
Fairness ==
  /\ \A t \in Threads : WF_vars(~dead /\ Logs(t))
  /\ \A w \in Workers : WF_vars(~dead /\ WorkerStep(w))
  /\ \A p \in Producers : WF_vars(~dead /\ ProducerStep(p))
  /\ WF_vars(~dead /\ MainStep)

Spec == Init /\ [][Next]_vars /\ Fairness

(***************************************************************************)
(* Properties                                                              *)
(***************************************************************************)

\* Whatever the interleaving of producers, workers and stop(), and however
\* often the ring has wrapped, tasks are taken in the order in which they
\* were put, each once: what was put is what was taken and what is left.
QueueIsFifo == pushed = taken \o Items(queue)

\* stop() and the joins at the end return, and a producer that waits for
\* room gets it unless the pool was stopped: no notification is missing.
NobodyWaitsForEver ==
  /\ pc[Main] = "join" ~> (pc[Main] = "done" \/ dead)
  /\ \A p \in Producers :
       pc[p] = "put" ~> (pc[p] = "done" \/ dead \/ (kind = "pool" /\ ~running))

\* A file that is over its size takes no further line after the second it
\* was opened in but the one that has it replaced; at most CheckEveryN lines
\* of later days go to a file; a file that was replaced is on disk to its
\* last line; and once the thread of a fatal line goes to abort(), its lines
\* and all before them are on disk, whatever the other threads write, and
\* whichever of them replaces the file, between that line and the end.
LogKeepsItsLimits ==
  \A i \in 1..Len(log.files) :
    LET f == log.files[i] IN
    /\ \A j \in RollSize + 1..Len(f.lines) - 1 : f.lines[j].at = f.opened
    /\ Cardinality({j \in 1..Len(f.lines) : Period(f.lines[j].at) # Period(f.opened)}) <= CheckEveryN
    /\ i < Len(log.files) => f.disk = Len(f.lines)
    /\ \A j \in 1..Len(f.lines) : pc[f.lines[j].by] = "abort" => j <= f.disk

\* Every line shows the time at which it was logged, on the clock of the zone
\* in force, though the date comes from a cache of the thread: except in the
\* second in which the zone was set.
LinesTellTheTime ==
  \A i \in 1..Len(log.files) :
    \A j \in 1..Len(log.files[i].lines) :
      LET ln == log.files[i].lines[j] IN
      ln.second # zoneSet =>
        Timegm(Date(ln.shown)) - ln.second = IF ln.utcMark THEN 0 ELSE OffsetAt(ln.zone, ln.second)

=============================================================================
