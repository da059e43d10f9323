---------------------------- MODULE BenchmarkRun ----------------------------
(***************************************************************************)
(* Benchmark::RunBenchmark and ThreadBody of rocksdb_bench.cpp: the main   *)
(* thread spawns the workers, holds them behind a start flag until all are *)
(* initialised, waits for the last one to finish, merges and reports their *)
(* statistics, joins them and frees what they used.  One mutex and one     *)
(* condition variable carry three different conditions, and the main       *)
(* thread keeps the mutex from its last wait to the end of the function.   *)
(*                                                                         *)
(* A thread that is neither the holder of mu nor in waiting, and whose     *)
(* next action needs mu, is contending for it.  The benchmark method is    *)
(* reduced to what it does to the statistics (WriteLoop has its detail).   *)
(***************************************************************************)
EXTENDS Integers, FiniteSets

CONSTANTS NThreads,     \* --worker_threads
          Num,          \* --num
          Batch,        \* --batch
          MaxClock,     \* bound on the readings of the clock
          MaxSpurious,  \* bound on the spurious wakeups of a run
          Main,         \* the main thread
          NoOne         \* the holder of a free mutex

Workers == 0 .. NThreads - 1
Threads == Workers \cup {Main}

ASSUME ThreadsAssumption ==
    /\ NThreads \in Nat \ {0}
    /\ Main \notin Workers
    /\ NoOne \notin Threads
ASSUME WorkAssumption == Num \in Nat \ {0} /\ Batch \in Nat \ {0}
ASSUME BoundsAssumption == MaxClock \in Nat /\ MaxSpurious \in Nat

VARIABLES mu,              \* shared.mu: its holder, or NoOne
          waiting,         \* the threads blocked in shared.cv.wait
          numInitialized,  \* shared.num_initialized
          numDone,         \* shared.num_done
          start,           \* shared.start
          pcMain,          \* what RunBenchmark does next
          cursor,          \* i, in the loops of RunBenchmark
          pc,              \* what each ThreadBody does next
          stats,           \* ThreadState::stats of each worker
          allocated,       \* the workers whose ThreadState exists
          reported,        \* the operations printed by Report, 0 before
          clock,           \* NowMicros()
          openedAt,        \* history: the clock when start was set
          spurious         \* history: the spurious wakeups so far

shared == <<mu, waiting, numInitialized, numDone, start>>
main == <<pcMain, cursor, allocated, reported, openedAt>>
vars == <<shared, main, pc, stats, clock, spurious>>

------------------------------------------------------------------------------
\* Stats, reduced to what Report and Merge read.

\* Stats::Start.
StatsStart(now) == [done |-> 0, start |-> now, finish |-> now]

\* Stats::Stop.
StatsStop(s, now) == [s EXCEPT !.finish = now]

\* Mutant of StatsMerge: the merged window starts late.
StatsMergeLatestStart(a, b) ==
    [done   |-> a.done + b.done,
     start  |-> IF b.start > a.start THEN b.start ELSE a.start,
     finish |-> IF b.finish > a.finish THEN b.finish ELSE a.finish]

\* Stats::Merge: counts add up, the window grows to cover both.
StatsMerge(a, b) ==
    [done   |-> a.done + b.done,
     start  |-> IF b.start < a.start THEN b.start ELSE a.start,
     finish |-> IF b.finish > a.finish THEN b.finish ELSE a.finish]

\* Mutants of Share: nobody takes the rest, or everybody does.
ShareNoRest(w) == Num \div NThreads
ShareAllRest(w) == Num \div NThreads + (Num % NThreads)

\* The keys PrepareShuffledKeys gives to a worker: the last takes the rest.
Share(w) ==
    Num \div NThreads + (IF w = NThreads - 1 THEN Num % NThreads ELSE 0)

\* Mutant of NotifyAll: cv.notify_one.
NotifyOne(waiters) ==
    IF waiters = {} THEN {} ELSE waiters \ {CHOOSE t \in waiters : TRUE}

\* cv.notify_all: nobody is left waiting.
NotifyAll(waiters) == {}

\* Mutant of NotifyIfComplete: the counter is compared before it is raised.
NotifyIfMore(n) == IF n - 1 >= NThreads THEN NotifyAll(waiting) ELSE waiting

\* The waiters left by a thread that raises a counter to n, under mu.
NotifyIfComplete(n) == IF n >= NThreads THEN NotifyAll(waiting) ELSE waiting

------------------------------------------------------------------------------
Init ==
    /\ mu = NoOne /\ waiting = {}
    /\ numInitialized = 0 /\ numDone = 0 /\ start = FALSE
    /\ pcMain = "spawn" /\ cursor = 0
    /\ pc = [w \in Workers |-> "unborn"]
    /\ stats = [w \in Workers |-> StatsStart(0)]
    /\ allocated = {} /\ reported = 0
    /\ clock = 0 /\ openedAt = 0 /\ spurious = 0

------------------------------------------------------------------------------
\* The main thread: RunBenchmark.

\* One turn of a counted loop of RunBenchmark: next i, or the next phase.
Advance(phase) ==
    IF cursor + 1 < NThreads
    THEN cursor' = cursor + 1 /\ UNCHANGED pcMain
    ELSE cursor' = 0 /\ pcMain' = phase

\* new ThreadState (i), then server_threads[i] = std::thread (...).
Spawn ==
    /\ pcMain = "spawn"
    /\ allocated' = allocated \cup {cursor}
    /\ stats' = [stats EXCEPT ![cursor] = StatsStart(clock)]
    /\ pc' = [pc EXCEPT ![cursor] = "enter"]
    /\ Advance("awaitInit")
    /\ UNCHANGED <<shared, reported, openedAt, clock, spurious>>

\* lck (shared.mu), and the re-acquisition at the end of cv.wait.
MainLock ==
    /\ pcMain \in {"awaitInit", "awaitDone"}
    /\ mu = NoOne /\ Main \notin waiting
    /\ mu' = Main
    /\ UNCHANGED <<waiting, numInitialized, numDone, start, main, pc, stats,
                   clock, spurious>>

\* Mutant of MainMustWait: it is satisfied with all workers but one.
MainWaitsForAllButOne ==
    \/ pcMain = "awaitInit" /\ numInitialized < NThreads - 1
    \/ pcMain = "awaitDone" /\ numDone < NThreads - 1

\* The conditions of the two while loops around cv.wait.
MainMustWait ==
    \/ pcMain = "awaitInit" /\ numInitialized < NThreads
    \/ pcMain = "awaitDone" /\ numDone < NThreads

\* shared.cv.wait (lck): release and block in one step.
MainWait ==
    /\ mu = Main /\ MainMustWait
    /\ mu' = NoOne
    /\ waiting' = waiting \cup {Main}
    /\ UNCHANGED <<numInitialized, numDone, start, main, pc, stats, clock,
                   spurious>>

\* shared.start = true; shared.cv.notify_all ().
OpenGate ==
    /\ pcMain = "awaitInit" /\ mu = Main /\ ~MainMustWait
    /\ start' = TRUE
    /\ waiting' = NotifyAll(waiting)
    /\ pcMain' = "awaitDone"
    /\ openedAt' = clock
    /\ UNCHANGED <<mu, numInitialized, numDone, cursor, pc, stats, allocated,
                   reported, clock, spurious>>

\* The second while loop is left; mu stays locked.
AllDone ==
    /\ pcMain = "awaitDone" /\ mu = Main /\ ~MainMustWait
    /\ pcMain' = "merge" /\ cursor' = 1
    /\ UNCHANGED <<shared, pc, stats, allocated, reported, openedAt, clock,
                   spurious>>

\* arg[0].thread->stats.Merge (arg[i].thread->stats).
Merge ==
    /\ pcMain = "merge" /\ cursor < NThreads
    /\ stats' = [stats EXCEPT ![0] = StatsMerge(stats[0], stats[cursor])]
    /\ cursor' = cursor + 1
    /\ UNCHANGED <<shared, pcMain, pc, allocated, reported, openedAt, clock,
                   spurious>>

\* arg[0].thread->stats.Report (name), which counts at least one operation.
Report ==
    /\ pcMain = "merge" /\ cursor >= NThreads
    /\ LET done == IF stats[0].done < 1 THEN 1 ELSE stats[0].done
       IN  /\ stats' = [stats EXCEPT ![0].done = done]
           /\ reported' = done
    /\ pcMain' = "join" /\ cursor' = 0
    /\ UNCHANGED <<shared, pc, allocated, openedAt, clock, spurious>>

\* Mutant of Join: the threads are detached.
Detach ==
    /\ pcMain = "join"
    /\ Advance("delete")
    /\ UNCHANGED <<shared, pc, stats, allocated, reported, openedAt, clock,
                   spurious>>

\* th.join (): returns once the thread has ended.
Join ==
    /\ pcMain = "join"
    /\ pc[cursor] = "exited"
    /\ Advance("delete")
    /\ UNCHANGED <<shared, pc, stats, allocated, reported, openedAt, clock,
                   spurious>>

\* delete arg[i].thread.
Delete ==
    /\ pcMain = "delete"
    /\ allocated' = allocated \ {cursor}
    /\ Advance("return")
    /\ UNCHANGED <<shared, pc, stats, reported, openedAt, clock, spurious>>

\* delete[] arg; then lck unlocks, and server_threads and shared go away.
Return ==
    /\ pcMain = "return"
    /\ mu' = NoOne
    /\ pcMain' = "returned"
    /\ UNCHANGED <<waiting, numInitialized, numDone, start, cursor, allocated,
                   reported, openedAt, pc, stats, clock, spurious>>

MainStep ==
    \/ Spawn \/ MainLock \/ MainWait \/ OpenGate \/ AllDone
    \/ Merge \/ Report \/ Join \/ Delete \/ Return

------------------------------------------------------------------------------
\* A worker: ThreadBody.

WorkerLock(w) ==
    /\ pc[w] \in {"enter", "gate", "leave"}
    /\ mu = NoOne /\ w \notin waiting
    /\ mu' = w
    /\ UNCHANGED <<waiting, numInitialized, numDone, start, main, pc, stats,
                   clock, spurious>>

\* num_initialized++; the last one wakes the main thread.
Register(w) ==
    /\ pc[w] = "enter" /\ mu = w
    /\ numInitialized' = numInitialized + 1
    /\ waiting' = NotifyIfComplete(numInitialized + 1)
    /\ pc' = [pc EXCEPT ![w] = "gate"]
    /\ UNCHANGED <<mu, numDone, start, main, stats, clock, spurious>>

\* while (!shared->start) shared->cv.wait (lck).
WaitGate(w) ==
    /\ pc[w] = "gate" /\ mu = w /\ ~start
    /\ mu' = NoOne
    /\ waiting' = waiting \cup {w}
    /\ UNCHANGED <<numInitialized, numDone, start, main, pc, stats, clock,
                   spurious>>

\* Mutant of PassGate: start is not tested again after the wait.
PassGateUntested(w) ==
    /\ pc[w] = "gate" /\ mu = w
    /\ mu' = NoOne
    /\ pc' = [pc EXCEPT ![w] = "begin"]
    /\ UNCHANGED <<waiting, numInitialized, numDone, start, main, stats, clock,
                   spurious>>

\* start is set: the block ends and lck unlocks.
PassGate(w) ==
    /\ pc[w] = "gate" /\ mu = w /\ start
    /\ mu' = NoOne
    /\ pc' = [pc EXCEPT ![w] = "begin"]
    /\ UNCHANGED <<waiting, numInitialized, numDone, start, main, stats, clock,
                   spurious>>

\* thread->stats.Start (), in ThreadBody and once more in the method.
StartStats(w) ==
    /\ \/ pc[w] = "begin" /\ pc' = [pc EXCEPT ![w] = "method"]
       \/ pc[w] = "method" /\ pc' = [pc EXCEPT ![w] = "run"]
    /\ stats' = [stats EXCEPT ![w] = StatsStart(clock)]
    /\ UNCHANGED <<shared, main, clock, spurious>>

\* One turn of the method's outer loop: FinishedBatchOp (j).
FinishBatch(w) ==
    LET left == Share(w) - stats[w].done
    IN  /\ pc[w] = "run" /\ left > 0
        /\ stats' = [stats EXCEPT
                       ![w].done = @ + (IF left < Batch THEN left ELSE Batch)]
        /\ UNCHANGED <<shared, main, pc, clock, spurious>>

\* The method returns and thread->stats.Stop () is called.
StopStats(w) ==
    /\ pc[w] = "run" /\ stats[w].done >= Share(w)
    /\ stats' = [stats EXCEPT ![w] = StatsStop(stats[w], clock)]
    /\ pc' = [pc EXCEPT ![w] = "leave"]
    /\ UNCHANGED <<shared, main, clock, spurious>>

\* num_done++; the last one wakes the main thread; lck unlocks.
Leave(w) ==
    /\ pc[w] = "leave" /\ mu = w
    /\ numDone' = numDone + 1
    /\ waiting' = NotifyIfComplete(numDone + 1)
    /\ mu' = NoOne
    /\ pc' = [pc EXCEPT ![w] = "ending"]
    /\ UNCHANGED <<numInitialized, start, main, stats, clock, spurious>>

\* ThreadBody returns and the thread ends.
Exit(w) ==
    /\ pc[w] = "ending"
    /\ pc' = [pc EXCEPT ![w] = "exited"]
    /\ UNCHANGED <<shared, main, stats, clock, spurious>>

WorkerStep(w) ==
    \/ WorkerLock(w) \/ Register(w) \/ WaitGate(w) \/ PassGate(w)
    \/ StartStats(w) \/ FinishBatch(w) \/ StopStats(w) \/ Leave(w) \/ Exit(w)

------------------------------------------------------------------------------
\* The environment.

\* std::condition_variable::wait may return without a notification.
SpuriousWakeup(t) ==
    /\ t \in waiting /\ spurious < MaxSpurious
    /\ waiting' = waiting \ {t}
    /\ spurious' = spurious + 1
    /\ UNCHANGED <<mu, numInitialized, numDone, start, main, pc, stats, clock>>

Tick ==
    /\ clock < MaxClock
    /\ clock' = clock + 1
    /\ UNCHANGED <<shared, main, pc, stats, spurious>>

\* RunBenchmark has returned: nothing is left to do.
Done == pcMain = "returned" /\ UNCHANGED vars

Next ==
    \/ MainStep
    \/ \E w \in Workers : WorkerStep(w)
    \/ \E t \in Threads : SpuriousWakeup(t)
    \/ Tick
    \/ Done

Spec == Init /\ [][Next]_vars

\* Every thread that can run is eventually run, and a mutex that stays free
\* is eventually granted; nothing forces time or spurious wakeups.
Fairness == WF_vars(MainStep) /\ \A w \in Workers : WF_vars(WorkerStep(w))

FairSpec == Spec /\ Fairness

------------------------------------------------------------------------------
\* Properties.

\* Every variable has values the code can give it.
TypeOK ==
    /\ mu \in Threads \cup {NoOne}
    /\ waiting \subseteq Threads
    /\ numInitialized \in 0 .. NThreads /\ numDone \in 0 .. NThreads
    /\ start \in BOOLEAN
    /\ pcMain \in {"spawn", "awaitInit", "awaitDone", "merge", "join",
                   "delete", "return", "returned"}
    /\ cursor \in 0 .. NThreads
    /\ pc \in [Workers -> {"unborn", "enter", "gate", "begin", "method", "run",
                           "leave", "ending", "exited"}]
    /\ stats \in [Workers -> [done : 0 .. Num, start : Nat, finish : Nat]]
    /\ allocated \subseteq Workers
    /\ reported \in 0 .. Num
    /\ clock \in Nat /\ openedAt \in Nat /\ spurious \in Nat

\* The start gate holds: no worker touches its statistics or writes a key
\* before the main thread has set start and every worker has registered, in
\* whatever order the threads are created, scheduled and woken.
GateHeld ==
    \A w \in Workers :
        pc[w] \notin {"unborn", "enter", "gate"} =>
            start /\ \A v \in Workers : pc[v] \notin {"unborn", "enter"}

\* No wakeup is lost: a thread never sleeps on cv once the condition it
\* waits for is true, although one condition variable carries the "all
\* initialised", "start" and "all done" conditions.
NoLostWakeup ==
    \A t \in waiting : IF t = Main THEN MainMustWait ELSE ~start

\* Statistics are merged and reported only when they are final: no worker
\* can still change its ThreadState once the main thread reads it.
MergeAfterStop ==
    pcMain \in {"merge", "join", "delete", "return", "returned"} =>
        \A w \in Workers : pc[w] \in {"ending", "exited"}

\* Nothing is used after it is freed: a running ThreadBody has its
\* ThreadState, and every thread has ended when the main thread starts to
\* delete them, unlocks mu and leaves the frame that holds shared and arg.
LifetimeSafe ==
    /\ \A w \in Workers :
           pc[w] \notin {"unborn", "ending", "exited"} => w \in allocated
    /\ pcMain \in {"delete", "return", "returned"} =>
           \A w \in Workers : pc[w] = "exited"

\* The report counts each write of the run exactly once: the shares add up
\* to --num for any number of threads, and no worker is merged twice.
ReportedTotal == reported # 0 => reported = Num

\* The elapsed time of the report covers the measured interval of every
\* worker and nothing before the gate was opened.
WindowCovers ==
    reported # 0 =>
        /\ openedAt <= stats[0].start
        /\ \A w \in Workers :
               /\ stats[0].start <= stats[w].start
               /\ stats[w].finish <= stats[0].finish

\* RunBenchmark returns: the main thread is never stuck waiting, nor in a
\* join that it makes while it holds the mutex every worker needs.
Returns == <>(pcMain = "returned")

\* The handshake implements the start gate: its steps are those of the
\* abstract run, or change nothing that the abstract run can see.
StageOf(w) ==
    CASE pc[w] \in {"unborn", "enter"} -> "absent"
      [] pc[w] \in {"gate", "begin"}   -> "ready"
      [] pc[w] \in {"method", "run"}   -> "working"
      [] OTHER                         -> "stopped"

Gate == INSTANCE StartGate WITH
            stage  <- [w \in Workers |-> StageOf(w)],
            gate   <- start,
            report <- reported

ImplementsStartGate == Gate!Spec

------------------------------------------------------------------------------
\* The inductive invariant from which the safety properties are proved.

Registered == {w \in Workers : pc[w] \notin {"unborn", "enter"}}
Stopped == {w \in Workers : pc[w] \in {"ending", "exited"}}
Reading == {"merge", "join", "delete", "return", "returned"}

\* The counters count.
CountInv ==
    /\ numInitialized = Cardinality(Registered)
    /\ numDone = Cardinality(Stopped)

\* start is set exactly from the second wait on, when all have registered.
GateInv ==
    /\ start <=> pcMain \notin {"spawn", "awaitInit"}
    /\ start => Registered = Workers
    /\ \A w \in Workers : pc[w] \notin {"unborn", "enter", "gate"} => start
    /\ pcMain \in Reading => Stopped = Workers

\* Who holds mu, and who sleeps on cv: never the same thread, and never a
\* thread whose condition holds.
LockInv ==
    /\ mu \in Workers => pc[mu] \in {"enter", "gate", "leave"}
    /\ mu = Main => pcMain \notin {"spawn", "returned"}
    /\ pcMain \in Reading \ {"returned"} => mu = Main
    /\ \A w \in waiting \cap Workers : pc[w] = "gate" /\ ~start /\ mu # w
    /\ Main \in waiting => MainMustWait /\ mu # Main

\* How far the loops of the main thread have got.
PhaseInv ==
    /\ pcMain # "merge" => cursor \in Workers
    /\ pcMain = "merge" => cursor \in 1 .. NThreads
    /\ pcMain = "spawn" =>
           /\ allocated = 0 .. cursor - 1
           /\ \A w \in Workers : pc[w] = "unborn" <=> w >= cursor
    /\ pcMain # "spawn" => \A w \in Workers : pc[w] # "unborn"
    /\ pcMain \in {"awaitInit", "awaitDone", "merge", "join"} =>
           allocated = Workers
    /\ pcMain = "join" => \A w \in Workers : w < cursor => pc[w] = "exited"
    /\ pcMain \in {"delete", "return", "returned"} =>
           \A w \in Workers : pc[w] = "exited"

\* The writes of the first k workers.
MergedShares(k) == IF k = NThreads THEN Num ELSE k * (Num \div NThreads)

\* What has been counted, by the workers and by the merge.
TotalInv ==
    /\ \A w \in Workers :
           /\ pc[w] = "run" => stats[w].done <= Share(w)
           /\ pc[w] \in {"leave", "ending", "exited"} /\ w # 0 =>
                  stats[w].done = Share(w)
    /\ pcMain \notin Reading /\ pc[0] \in {"leave", "ending", "exited"} =>
           stats[0].done = Share(0)
    /\ pcMain = "merge" => stats[0].done = MergedShares(cursor)
    /\ reported = IF pcMain \in Reading \ {"merge"} THEN Num ELSE 0

\* Every measured interval lies after the opening, and the merged one covers
\* those merged so far.
WindowInv ==
    /\ openedAt <= clock
    /\ \A w \in Workers :
           /\ stats[w].start <= clock
           /\ pc[w] \in {"method", "run", "leave", "ending", "exited"} =>
                  openedAt <= stats[w].start
    /\ pcMain \in Reading =>
           \A w \in Workers :
               (pcMain = "merge" => w < cursor) =>
                   /\ stats[0].start <= stats[w].start
                   /\ stats[w].finish <= stats[0].finish

\* All of it: implies every safety property above, and each step keeps it.
IInv ==
    /\ TypeOK /\ CountInv /\ GateInv /\ LockInv
    /\ PhaseInv /\ TotalInv /\ WindowInv

------------------------------------------------------------------------------
\* Why RunBenchmark returns: somebody can always go on, and nobody can go on
\* for ever.

\* A thread that cannot go on by itself: asleep, contending for a mutex that
\* somebody else holds, joining a thread that has not ended, not started, or
\* at its end.
Blocked(t) ==
    \/ t \in waiting
    \/ /\ t = Main
       /\ \/ pcMain \in {"awaitInit", "awaitDone"} /\ mu \notin {NoOne, Main}
          \/ pcMain = "join" /\ pc[cursor] # "exited"
          \/ pcMain = "returned"
    \/ /\ t \in Workers
       /\ \/ pc[t] \in {"enter", "gate", "leave"} /\ mu \notin {NoOne, t}
          \/ pc[t] \in {"unborn", "exited"}

\* Until RunBenchmark returns, not everybody waits for somebody else: neither
\* for a wakeup that nobody is left to give, nor for the mutex that the main
\* thread keeps through its joins.
SomebodyRuns == pcMain # "returned" => \E t \in Threads : ~Blocked(t)

\* Where a thread is: the stage of its function and the turn of its loop.
MainStage ==
    CASE pcMain = "spawn"     -> 0
      [] pcMain = "awaitInit" -> 1
      [] pcMain = "awaitDone" -> 2
      [] pcMain = "merge"     -> 3
      [] pcMain = "join"      -> 4
      [] pcMain = "delete"    -> 5
      [] pcMain = "return"    -> 6
      [] OTHER                -> 7

WorkerStage(w) ==
    CASE pc[w] = "unborn" -> 0
      [] pc[w] = "enter"  -> 1
      [] pc[w] = "gate"   -> 2
      [] pc[w] = "begin"  -> 3
      [] pc[w] = "method" -> 4
      [] pc[w] = "run"    -> 5
      [] pc[w] = "leave"  -> 6
      [] pc[w] = "ending" -> 7
      [] OTHER            -> 8

At(t) ==
    IF t = Main THEN <<MainStage, cursor>>
    ELSE <<WorkerStage(t), IF pc[t] = "run" THEN stats[t].done ELSE 0>>

\* Place a is further than place b.
Ahead(a, b) == a[1] > b[1] \/ (a[1] = b[1] /\ a[2] > b[2])

\* The places that the threads have not reached yet: a finite set.
ToDo == {x \in Threads \X ((0 .. 8) \X (0 .. Num + NThreads)) : Ahead(x[2], At(x[1]))}

Awake == Threads \ waiting
Contending == {t \in Awake : mu # t}

\* A step of a thread takes something away for good of what is to do, or brings
\* a thread nearer to sleep: there are only so many between two spurious
\* wakeups, so that no loop around cv.wait runs for ever.
WindsDown ==
    [][\/ ToDo' \subseteq ToDo /\ ToDo' # ToDo
       \/ /\ ToDo' = ToDo
          /\ Awake' \subseteq Awake /\ Contending' \subseteq Contending
          /\ <<Awake, Contending>>' # <<Awake, Contending>>
       \/ ToDo' = ToDo /\ spurious' > spurious
       \/ UNCHANGED <<ToDo, Awake, Contending>> /\ clock' > clock]_vars

==============================================================================
