-------------------------- MODULE BenchmarkRunProofs --------------------------
(***************************************************************************)
(* Proofs about BenchmarkRun, for any number of threads, keys and batch    *)
(* size, any clock and any number of spurious wakeups.                     *)
(***************************************************************************)
EXTENDS BenchmarkRun, FiniteSetTheorems, TLAPS

------------------------------------------------------------------------------
\* The division of the keys among the workers.

\* Quotient and remainder, as PrepareShuffledKeys computes them.
LEMMA DivMod ==
    /\ Num \div NThreads \in Nat
    /\ Num % NThreads \in Nat
    /\ Num = NThreads * (Num \div NThreads) + (Num % NThreads)
BY ThreadsAssumption, WorkAssumption

\* A share is at most everything, and the shares of the first workers add up
\* to MergedShares, in the end to --num.
LEMMA Shares ==
    /\ \A w \in Workers : Share(w) \in 0 .. Num
    /\ MergedShares(1) = Share(0)
    /\ \A k \in 1 .. NThreads - 1 :
           MergedShares(k) + Share(k) = MergedShares(k + 1)
    /\ \A k \in 1 .. NThreads : MergedShares(k) \in 0 .. Num
<1> DEFINE q == Num \div NThreads
           r == Num % NThreads
<1>1. /\ q \in Nat /\ r \in Nat /\ Num = NThreads * q + r
      /\ NThreads \in Nat \ {0} /\ Num \in Nat
  BY DivMod, ThreadsAssumption, WorkAssumption
<1>2. \A k \in 0 .. NThreads : k * q \in Nat /\ k * q <= NThreads * q
  <2> HIDE DEF q
  <2> QED  BY <1>1
<1>3. q <= Num
  <2> HIDE DEF q, r
  <2> QED  BY <1>1, <1>2
<1>4. \A w \in Workers : Share(w) = IF w = NThreads - 1 THEN q + r ELSE q
  <2> SUFFICES ASSUME NEW w \in Workers
               PROVE  Share(w) = IF w = NThreads - 1 THEN q + r ELSE q
    OBVIOUS
  <2> QED  BY <1>1 DEF Share
<1>5. \A k : MergedShares(k) = IF k = NThreads THEN Num ELSE k * q
  BY DEF MergedShares
<1> HIDE DEF q, r
<1>6. q + r <= Num
  BY <1>1, <1>2
<1>7. \A k \in 1 .. NThreads - 1 : (k + 1) * q = k * q + q
  BY <1>1
<1>8. MergedShares(1) = Share(0)
  BY <1>1, <1>4, <1>5, <1>2 DEF Workers
<1>9. ASSUME NEW k \in 1 .. NThreads - 1
      PROVE  MergedShares(k) + Share(k) = MergedShares(k + 1)
  <2>1. k * q \in Nat
    BY <1>1, <1>2
  <2> QED  BY <2>1, <1>1, <1>4, <1>5, <1>7 DEF Workers
<1> QED
  BY <1>1, <1>2, <1>3, <1>4, <1>5, <1>6, <1>8, <1>9 DEF Workers


\* Setting the count of a Stats record to a number of the same range.
LEMMA DoneField ==
    ASSUME NEW S, NEW n \in S,
           NEW s \in [done : S, start : Nat, finish : Nat]
    PROVE  [s EXCEPT !.done = n] \in [done : S, start : Nat, finish : Nat]
OBVIOUS

------------------------------------------------------------------------------
\* The counters.

\* A counter that has reached --worker_threads has counted every worker.
LEMMA AllCounted ==
    ASSUME NEW S \in SUBSET Workers, Cardinality(S) >= NThreads
    PROVE  S = Workers
<1>1. IsFiniteSet(Workers) /\ Cardinality(Workers) = NThreads
  BY FS_Interval, ThreadsAssumption DEF Workers
<1>2. Cardinality(S) <= Cardinality(Workers) /\ Cardinality(S) \in Nat
  BY <1>1, FS_Subset, FS_CardinalityType
<1> QED  BY <1>1, <1>2, FS_Subset, ThreadsAssumption

\* Counting one worker more.
LEMMA OneMore ==
    ASSUME NEW S \in SUBSET Workers, NEW w \in Workers, w \notin S
    PROVE  /\ Cardinality(S \cup {w}) = Cardinality(S) + 1
           /\ Cardinality(S) \in 0 .. NThreads - 1
<1>1. IsFiniteSet(Workers) /\ Cardinality(Workers) = NThreads
  BY FS_Interval, ThreadsAssumption DEF Workers
<1>2. IsFiniteSet(S) /\ Cardinality(S) \in Nat
  BY <1>1, FS_Subset, FS_CardinalityType
<1>3. Cardinality(S \cup {w}) = Cardinality(S) + 1
  BY <1>2, FS_AddElement
<1>4. S \cup {w} \in SUBSET Workers
  OBVIOUS
<1>5. Cardinality(S \cup {w}) <= Cardinality(Workers)
  BY <1>1, <1>4, FS_Subset
<1> QED  BY <1>1, <1>2, <1>3, <1>5, ThreadsAssumption

\* num_initialized++ keeps counting the registered workers.
LEMMA RegisterCounts ==
    ASSUME IInv, NEW w \in Workers, Register(w)
    PROVE  /\ numInitialized' = Cardinality(Registered')
           /\ numInitialized' \in 0 .. NThreads
<1>1. Registered' = Registered \cup {w} /\ w \notin Registered
  BY DEF Register, Registered, IInv, TypeOK
<1>2. Registered \in SUBSET Workers
  BY DEF Registered
<1> QED
  BY <1>1, <1>2, OneMore, ThreadsAssumption DEF Register, IInv, CountInv

\* num_done++ keeps counting the stopped workers.
LEMMA LeaveCounts ==
    ASSUME IInv, NEW w \in Workers, Leave(w)
    PROVE  /\ numDone' = Cardinality(Stopped')
           /\ numDone' \in 0 .. NThreads
<1>1. Stopped' = Stopped \cup {w} /\ w \notin Stopped
  BY DEF Leave, Stopped, IInv, TypeOK
<1>2. Stopped \in SUBSET Workers
  BY DEF Stopped
<1> QED
  BY <1>1, <1>2, OneMore, ThreadsAssumption DEF Leave, IInv, CountInv

------------------------------------------------------------------------------
\* Every step keeps the types: sums of shares stay within --num, and the
\* counters within the number of workers.
LEMMA TypeStep == IInv /\ [Next]_vars => TypeOK'
<1> SUFFICES ASSUME IInv, [Next]_vars PROVE TypeOK'
  OBVIOUS
<1> USE ThreadsAssumption, BoundsAssumption DEF IInv, TypeOK, Workers, Threads
<1>1. CASE Spawn
  <2>1. StatsStart(clock) \in [done : 0 .. Num, start : Nat, finish : Nat]
    BY WorkAssumption DEF StatsStart
  <2>2. cursor \in Workers
    BY <1>1 DEF PhaseInv, Spawn
  <2>3. stats' \in [Workers -> [done : 0 .. Num, start : Nat, finish : Nat]]
    BY <1>1, <2>1, <2>2 DEF Spawn
  <2>4. cursor' \in 0 .. NThreads /\ pcMain' \in {"spawn", "awaitInit"}
    BY <1>1, <2>2 DEF Spawn, Advance
  <2>5. allocated' \subseteq Workers
    BY <1>1, <2>2 DEF Spawn
  <2> QED
    BY <1>1, <2>3, <2>4, <2>5 DEF Spawn, shared
<1>2. CASE MainLock
  BY <1>2 DEF MainLock, shared, main
<1>3. CASE MainWait
  BY <1>3 DEF MainWait, MainMustWait, shared, main
<1>4. CASE OpenGate
  BY <1>4 DEF OpenGate, MainMustWait, NotifyAll, shared, main
<1>5. CASE AllDone
  BY <1>5 DEF AllDone, MainMustWait, shared, main
<1>6. CASE Merge
  <2>1. cursor \in 1 .. NThreads - 1 /\ cursor \in Workers /\ 0 \in Workers
    BY <1>6 DEF PhaseInv, Merge
  <2>2. /\ stats[cursor].done = Share(cursor)
        /\ stats[0].done = MergedShares(cursor)
    <3>1. Stopped = Workers
      BY <1>6 DEF GateInv, Reading, Merge
    <3>2. pc[cursor] \in {"ending", "exited"}
      BY <3>1, <2>1 DEF Stopped
    <3> QED
      BY <1>6, <2>1, <3>2 DEF TotalInv, Merge
  <2>3. stats[0].done + stats[cursor].done \in 0 .. Num
    <3>1. MergedShares(cursor) + Share(cursor) = MergedShares(cursor + 1)
      BY <2>1, Shares
    <3>2. cursor + 1 \in 1 .. NThreads
      BY <2>1
    <3>3. MergedShares(cursor + 1) \in 0 .. Num
      BY <3>2, Shares
    <3> QED
      BY <2>2, <3>1, <3>3
  <2>4. StatsMerge(stats[0], stats[cursor])
        \in [done : 0 .. Num, start : Nat, finish : Nat]
    BY <2>1, <2>3 DEF StatsMerge
  <2>5. stats' \in [Workers -> [done : 0 .. Num, start : Nat, finish : Nat]]
    BY <1>6, <2>1, <2>4 DEF Merge
  <2>6. cursor' \in 0 .. NThreads
    BY <1>6, <2>1 DEF Merge
  <2> QED
    BY <1>6, <2>5, <2>6 DEF Merge, shared
<1>7. CASE Report
  <2>1. cursor = NThreads /\ 0 \in Workers
    BY <1>7 DEF PhaseInv, Report
  <2>2. stats[0].done = Num
    BY <1>7, <2>1 DEF TotalInv, MergedShares, Report
  <2>3. reported' = Num /\ stats' = [stats EXCEPT ![0].done = Num]
    <3>1. (IF stats[0].done < 1 THEN 1 ELSE stats[0].done) = Num
      BY <2>2, WorkAssumption
    <3> QED
      BY <1>7, <3>1 DEF Report
  <2>4. stats' \in [Workers -> [done : 0 .. Num, start : Nat, finish : Nat]]
    <3>1. stats[0] \in [done : 0 .. Num, start : Nat, finish : Nat]
      BY <2>1
    <3>2. [stats[0] EXCEPT !.done = Num]
          \in [done : 0 .. Num, start : Nat, finish : Nat]
      <4>1. Num \in 0 .. Num
        BY WorkAssumption
      <4> QED  BY <3>1, <4>1, DoneField
    <3> QED
      BY <2>1, <2>3, <3>2
  <2>5. reported' \in 0 .. Num
    BY <2>3, WorkAssumption
  <2> QED
    BY <1>7, <2>4, <2>5 DEF Report, shared
<1>8. CASE Join
  <2>1. cursor \in Workers
    BY <1>8 DEF PhaseInv, Join
  <2>2. cursor' \in 0 .. NThreads
    BY <1>8, <2>1 DEF Join, Advance, Workers
  <2>3. pcMain' \in {"join", "delete"}
    BY <1>8 DEF Join, Advance
  <2> QED
    BY <1>8, <2>2, <2>3 DEF Join, shared
<1>9. CASE Delete
  <2>1. cursor \in Workers
    BY <1>9 DEF PhaseInv, Delete
  <2>2. cursor' \in 0 .. NThreads
    BY <1>9, <2>1 DEF Delete, Advance, Workers
  <2>3. pcMain' \in {"delete", "return"}
    BY <1>9 DEF Delete, Advance
  <2> QED
    BY <1>9, <2>2, <2>3 DEF Delete, shared
<1>10. CASE Return
  BY <1>10 DEF Return, shared, main
<1>11. ASSUME NEW w \in Workers, WorkerLock(w) PROVE TypeOK'
  BY <1>11 DEF WorkerLock, shared, main
<1>12. ASSUME NEW w \in Workers, Register(w) PROVE TypeOK'
  <2>1. numInitialized' \in 0 .. NThreads
    BY <1>12, RegisterCounts
  <2> QED
    BY <1>12, <2>1 DEF Register, NotifyIfComplete, NotifyAll, main
<1>13. ASSUME NEW w \in Workers, WaitGate(w) PROVE TypeOK'
  BY <1>13 DEF WaitGate, shared, main
<1>14. ASSUME NEW w \in Workers, PassGate(w) PROVE TypeOK'
  BY <1>14 DEF PassGate, shared, main
<1>15. ASSUME NEW w \in Workers, StartStats(w) PROVE TypeOK'
  <2>1. StatsStart(clock) \in [done : 0 .. Num, start : Nat, finish : Nat]
    BY WorkAssumption DEF StatsStart
  <2> QED
    BY <1>15, <2>1 DEF StartStats, shared, main
<1>16. ASSUME NEW w \in Workers, FinishBatch(w) PROVE TypeOK'
  <2> DEFINE left == Share(w) - stats[w].done
  <2>1. Share(w) \in 0 .. Num
    BY Shares
  <2>2. stats[w].done + (IF left < Batch THEN left ELSE Batch) \in 0 .. Num
    <3>1. stats[w].done \in 0 .. Num
      OBVIOUS
    <3>2. left > 0
      BY <1>16 DEF FinishBatch
    <3> QED
      BY <2>1, <3>1, <3>2, WorkAssumption
  <2> QED
    BY <1>16, <2>2 DEF FinishBatch, shared, main
<1>17. ASSUME NEW w \in Workers, StopStats(w) PROVE TypeOK'
  BY <1>17 DEF StopStats, StatsStop, shared, main
<1>18. ASSUME NEW w \in Workers, Leave(w) PROVE TypeOK'
  <2>1. numDone' \in 0 .. NThreads
    BY <1>18, LeaveCounts
  <2> QED
    BY <1>18, <2>1 DEF Leave, NotifyIfComplete, NotifyAll, main
<1>19. ASSUME NEW w \in Workers, Exit(w) PROVE TypeOK'
  BY <1>19 DEF Exit, shared, main
<1>20. ASSUME NEW t \in Threads, SpuriousWakeup(t) PROVE TypeOK'
  BY <1>20 DEF SpuriousWakeup, shared, main
<1>21. CASE Tick
  BY <1>21 DEF Tick, shared, main
<1>22. CASE UNCHANGED vars
  BY <1>22 DEF vars, shared, main
<1> QED
  BY <1>1, <1>2, <1>3, <1>4, <1>5, <1>6, <1>7, <1>8, <1>9, <1>10, <1>11,
     <1>12, <1>13, <1>14, <1>15, <1>16, <1>17, <1>18, <1>19, <1>20, <1>21,
     <1>22
     DEF Next, MainStep, WorkerStep, Done

------------------------------------------------------------------------------
\* Every step keeps GateInv: start is set when all have registered, the
\* statistics are read when all have stopped.
LEMMA GateStep == IInv /\ [Next]_vars => GateInv'
<1> SUFFICES ASSUME IInv, [Next]_vars PROVE GateInv'
  OBVIOUS
<1> USE ThreadsAssumption
       DEF IInv, TypeOK, GateInv, Registered, Stopped, Reading
<1>1. CASE Spawn
  BY <1>1 DEF Spawn, Advance, StatsStart, shared, main
<1>2. CASE MainLock
  BY <1>2 DEF MainLock, shared, main
<1>3. CASE MainWait
  BY <1>3 DEF MainWait, MainMustWait, shared, main
<1>4. CASE OpenGate
  <2>1. Registered = Workers
    BY <1>4, AllCounted DEF OpenGate, MainMustWait, CountInv
  <2> QED
    BY <1>4, <2>1 DEF OpenGate
<1>5. CASE AllDone
  <2>1. Stopped = Workers
    BY <1>5, AllCounted DEF AllDone, MainMustWait, CountInv
  <2> QED
    BY <1>5, <2>1 DEF AllDone, shared
<1>6. CASE Merge
  BY <1>6 DEF Merge, StatsMerge, shared, main
<1>7. CASE Report
  BY <1>7 DEF Report, shared, main
<1>8. CASE Join
  BY <1>8 DEF Join, Advance, shared, main
<1>9. CASE Delete
  BY <1>9 DEF Delete, Advance, shared, main
<1>10. CASE Return
  BY <1>10 DEF Return, shared, main
<1>11. ASSUME NEW w \in Workers, WorkerLock(w) PROVE GateInv'
  BY <1>11 DEF WorkerLock, shared, main
<1>12. ASSUME NEW w \in Workers, Register(w) PROVE GateInv'
  BY <1>12 DEF Register, NotifyIfComplete, NotifyAll, shared, main
<1>13. ASSUME NEW w \in Workers, WaitGate(w) PROVE GateInv'
  BY <1>13 DEF WaitGate, shared, main
<1>14. ASSUME NEW w \in Workers, PassGate(w) PROVE GateInv'
  BY <1>14 DEF PassGate, shared, main
<1>15. ASSUME NEW w \in Workers, StartStats(w) PROVE GateInv'
  BY <1>15 DEF StartStats, StatsStart, shared, main
<1>16. ASSUME NEW w \in Workers, FinishBatch(w) PROVE GateInv'
  BY <1>16 DEF FinishBatch, shared, main
<1>17. ASSUME NEW w \in Workers, StopStats(w) PROVE GateInv'
  BY <1>17 DEF StopStats, StatsStop, shared, main
<1>18. ASSUME NEW w \in Workers, Leave(w) PROVE GateInv'
  BY <1>18 DEF Leave, NotifyIfComplete, NotifyAll, shared, main
<1>19. ASSUME NEW w \in Workers, Exit(w) PROVE GateInv'
  BY <1>19 DEF Exit, shared, main
<1>20. ASSUME NEW t \in Threads, SpuriousWakeup(t) PROVE GateInv'
  BY <1>20 DEF SpuriousWakeup, shared, main
<1>21. CASE Tick
  BY <1>21 DEF Tick, shared, main
<1>22. CASE UNCHANGED vars
  BY <1>22 DEF vars, shared, main
<1> QED
  BY <1>1, <1>2, <1>3, <1>4, <1>5, <1>6, <1>7, <1>8, <1>9, <1>10, <1>11,
     <1>12, <1>13, <1>14, <1>15, <1>16, <1>17, <1>18, <1>19, <1>20, <1>21,
     <1>22
     DEF Next, MainStep, WorkerStep, Done

------------------------------------------------------------------------------
\* Every step keeps LockInv: whoever makes a condition true wakes those who
\* wait for it in the same critical section.
LEMMA LockStep == IInv /\ [Next]_vars => LockInv'
<1> SUFFICES ASSUME IInv, [Next]_vars PROVE LockInv'
  OBVIOUS
<1> USE ThreadsAssumption
       DEF IInv, TypeOK, LockInv, GateInv, Reading, MainMustWait, Threads
<1>1. CASE Spawn
  <2>1. cursor \in Workers /\ pc[cursor] = "unborn"
    BY <1>1 DEF Spawn, PhaseInv
  <2>2. mu \in Workers => pc'[mu] \in {"enter", "gate", "leave"}
    BY <1>1, <2>1 DEF Spawn, shared
  <2>3. Main \notin waiting /\ mu # Main
    BY <1>1 DEF Spawn
  <2>4. \A w \in waiting \cap Workers : pc'[w] = "gate" /\ ~start /\ mu # w
    BY <1>1, <2>1 DEF Spawn
  <2>5. pcMain' \in {"spawn", "awaitInit"} /\ UNCHANGED shared
    BY <1>1 DEF Spawn, Advance
  <2> QED
    BY <2>2, <2>3, <2>4, <2>5 DEF shared
<1>2. CASE MainLock
  BY <1>2 DEF MainLock, shared, main
<1>3. CASE MainWait
  BY <1>3 DEF MainWait, MainMustWait, shared, main
<1>4. CASE OpenGate
  BY <1>4 DEF OpenGate, MainMustWait, NotifyAll, shared, main
<1>5. CASE AllDone
  BY <1>5 DEF AllDone, MainMustWait, shared, main
<1>6. CASE Merge
  BY <1>6 DEF Merge, StatsMerge, shared, main
<1>7. CASE Report
  BY <1>7 DEF Report, shared, main
<1>8. CASE Join
  BY <1>8 DEF Join, Advance, shared, main
<1>9. CASE Delete
  BY <1>9 DEF Delete, Advance, shared, main
<1>10. CASE Return
  BY <1>10 DEF Return, shared, main
<1>11. ASSUME NEW w \in Workers, WorkerLock(w) PROVE LockInv'
  BY <1>11 DEF WorkerLock, shared, main
<1>12. ASSUME NEW w \in Workers, Register(w) PROVE LockInv'
  BY <1>12 DEF Register, NotifyIfComplete, NotifyAll, shared, main
<1>13. ASSUME NEW w \in Workers, WaitGate(w) PROVE LockInv'
  BY <1>13 DEF WaitGate, shared, main
<1>14. ASSUME NEW w \in Workers, PassGate(w) PROVE LockInv'
  BY <1>14 DEF PassGate, shared, main
<1>15. ASSUME NEW w \in Workers, StartStats(w) PROVE LockInv'
  BY <1>15 DEF StartStats, StatsStart, shared, main
<1>16. ASSUME NEW w \in Workers, FinishBatch(w) PROVE LockInv'
  BY <1>16 DEF FinishBatch, shared, main
<1>17. ASSUME NEW w \in Workers, StopStats(w) PROVE LockInv'
  BY <1>17 DEF StopStats, StatsStop, shared, main
<1>18. ASSUME NEW w \in Workers, Leave(w) PROVE LockInv'
  BY <1>18 DEF Leave, NotifyIfComplete, NotifyAll, shared, main
<1>19. ASSUME NEW w \in Workers, Exit(w) PROVE LockInv'
  BY <1>19 DEF Exit, shared, main
<1>20. ASSUME NEW t \in Threads, SpuriousWakeup(t) PROVE LockInv'
  BY <1>20 DEF SpuriousWakeup, shared, main
<1>21. CASE Tick
  BY <1>21 DEF Tick, shared, main
<1>22. CASE UNCHANGED vars
  BY <1>22 DEF vars, shared, main
<1> QED
  BY <1>1, <1>2, <1>3, <1>4, <1>5, <1>6, <1>7, <1>8, <1>9, <1>10, <1>11,
     <1>12, <1>13, <1>14, <1>15, <1>16, <1>17, <1>18, <1>19, <1>20, <1>21,
     <1>22
     DEF Next, MainStep, WorkerStep, Done

------------------------------------------------------------------------------
\* Every step keeps PhaseInv: the loops of the main thread visit every
\* worker, and it has joined all before it deletes any.
LEMMA PhaseStep == IInv /\ [Next]_vars => PhaseInv'
<1> SUFFICES ASSUME IInv, [Next]_vars PROVE PhaseInv'
  OBVIOUS
<1> USE ThreadsAssumption DEF IInv, TypeOK, PhaseInv, Workers
<1>1. CASE Spawn
  <2>1. CASE cursor + 1 < NThreads
    <3>1. pcMain = "spawn" /\ pcMain' = "spawn" /\ cursor' = cursor + 1
      BY <1>1, <2>1 DEF Spawn, Advance
    <3>2. allocated' = (0 .. cursor - 1) \cup {cursor} /\ cursor \in Nat
      BY <1>1, <3>1 DEF Spawn
    <3>4. \A n \in Nat : (0 .. n - 1) \cup {n} = 0 .. n + 1 - 1
      OBVIOUS
    <3>5. allocated' = 0 .. cursor' - 1
      BY <3>1, <3>2, <3>4
    <3>3. \A w \in Workers : pc'[w] = "unborn" <=> w >= cursor'
      BY <1>1, <3>1 DEF Spawn
    <3> QED
      BY <2>1, <3>1, <3>3, <3>5
  <2>2. CASE ~(cursor + 1 < NThreads)
    <3>1. cursor = NThreads - 1
      BY <1>1, <2>2 DEF Spawn
    <3>2. allocated' = 0 .. NThreads - 1
      BY <1>1, <3>1 DEF Spawn
    <3>3. \A w \in Workers : pc'[w] # "unborn"
      BY <1>1, <3>1 DEF Spawn
    <3>4. pcMain' = "awaitInit" /\ cursor' = 0
      BY <1>1, <2>2 DEF Spawn, Advance
    <3> QED
      BY <3>2, <3>3, <3>4
  <2> QED
    BY <2>1, <2>2
<1>2. CASE MainLock
  BY <1>2 DEF MainLock, shared, main
<1>3. CASE MainWait
  BY <1>3 DEF MainWait, MainMustWait, shared, main
<1>4. CASE OpenGate
  BY <1>4 DEF OpenGate, MainMustWait, NotifyAll, shared, main
<1>5. CASE AllDone
  BY <1>5 DEF AllDone, MainMustWait, shared, main
<1>6. CASE Merge
  BY <1>6 DEF Merge, StatsMerge, shared, main
<1>7. CASE Report
  BY <1>7 DEF Report, shared, main
<1>8. CASE Join
  <2>1. CASE cursor + 1 < NThreads
    BY <1>8, <2>1 DEF Join, Advance, shared
  <2>2. CASE ~(cursor + 1 < NThreads)
    <3>1. \A w \in Workers : pc[w] = "exited"
      BY <1>8, <2>2 DEF Join
    <3> QED
      BY <1>8, <2>2, <3>1 DEF Join, Advance
  <2> QED
    BY <2>1, <2>2
<1>9. CASE Delete
  BY <1>9 DEF Delete, Advance, shared, main
<1>10. CASE Return
  BY <1>10 DEF Return, shared, main
<1>11. ASSUME NEW w \in Workers, WorkerLock(w) PROVE PhaseInv'
  BY <1>11 DEF WorkerLock, shared, main
<1>12. ASSUME NEW w \in Workers, Register(w) PROVE PhaseInv'
  BY <1>12 DEF Register, NotifyIfComplete, NotifyAll, shared, main
<1>13. ASSUME NEW w \in Workers, WaitGate(w) PROVE PhaseInv'
  BY <1>13 DEF WaitGate, shared, main
<1>14. ASSUME NEW w \in Workers, PassGate(w) PROVE PhaseInv'
  BY <1>14 DEF PassGate, shared, main
<1>15. ASSUME NEW w \in Workers, StartStats(w) PROVE PhaseInv'
  BY <1>15 DEF StartStats, StatsStart, shared, main
<1>16. ASSUME NEW w \in Workers, FinishBatch(w) PROVE PhaseInv'
  BY <1>16 DEF FinishBatch, shared, main
<1>17. ASSUME NEW w \in Workers, StopStats(w) PROVE PhaseInv'
  BY <1>17 DEF StopStats, StatsStop, shared, main
<1>18. ASSUME NEW w \in Workers, Leave(w) PROVE PhaseInv'
  BY <1>18 DEF Leave, NotifyIfComplete, NotifyAll, shared, main
<1>19. ASSUME NEW w \in Workers, Exit(w) PROVE PhaseInv'
  BY <1>19 DEF Exit, shared, main
<1>20. ASSUME NEW t \in Threads, SpuriousWakeup(t) PROVE PhaseInv'
  BY <1>20 DEF SpuriousWakeup, shared, main
<1>21. CASE Tick
  BY <1>21 DEF Tick, shared, main
<1>22. CASE UNCHANGED vars
  BY <1>22 DEF vars, shared, main
<1> QED
  BY <1>1, <1>2, <1>3, <1>4, <1>5, <1>6, <1>7, <1>8, <1>9, <1>10, <1>11,
     <1>12, <1>13, <1>14, <1>15, <1>16, <1>17, <1>18, <1>19, <1>20, <1>21,
     <1>22
     DEF Next, MainStep, WorkerStep, Done

------------------------------------------------------------------------------
\* Every step keeps CountInv: the counters count.
LEMMA CountStep == IInv /\ [Next]_vars => CountInv'
<1> SUFFICES ASSUME IInv, [Next]_vars PROVE CountInv'
  OBVIOUS
<1> USE ThreadsAssumption DEF IInv, TypeOK, CountInv, Registered, Stopped
<1>1. CASE Spawn
  <2>1. pc[cursor] = "unborn" /\ cursor \in Workers
    BY <1>1 DEF Spawn, PhaseInv
  <2>2. Registered' = Registered /\ Stopped' = Stopped
    BY <1>1, <2>1 DEF Spawn, Registered, Stopped
  <2> QED
    BY <1>1, <2>2 DEF Spawn, shared
<1>2. CASE MainLock
  BY <1>2 DEF MainLock, shared, main, Registered, Stopped
<1>3. CASE MainWait
  BY <1>3 DEF MainWait, shared, main, Registered, Stopped
<1>4. CASE OpenGate
  BY <1>4 DEF OpenGate, shared, main, Registered, Stopped
<1>5. CASE AllDone
  BY <1>5 DEF AllDone, shared, main, Registered, Stopped
<1>6. CASE Merge
  BY <1>6 DEF Merge, shared, main, Registered, Stopped
<1>7. CASE Report
  BY <1>7 DEF Report, shared, main, Registered, Stopped
<1>8. CASE Join
  BY <1>8 DEF Join, shared, main, Registered, Stopped
<1>9. CASE Delete
  BY <1>9 DEF Delete, shared, main, Registered, Stopped
<1>10. CASE Return
  BY <1>10 DEF Return, shared, main, Registered, Stopped
<1>11. ASSUME NEW w \in Workers, WorkerLock(w) PROVE CountInv'
  BY <1>11 DEF WorkerLock, shared, main, Registered, Stopped
<1>12. ASSUME NEW w \in Workers, Register(w) PROVE CountInv'
  <2>1. Stopped' = Stopped
    BY <1>12 DEF Register, Stopped
  <2> QED
    BY <1>12, <2>1, RegisterCounts DEF Register
<1>13. ASSUME NEW w \in Workers, WaitGate(w) PROVE CountInv'
  BY <1>13 DEF WaitGate, shared, main, Registered, Stopped
<1>14. ASSUME NEW w \in Workers, PassGate(w) PROVE CountInv'
  <2>1. Registered' = Registered /\ Stopped' = Stopped
    BY <1>14 DEF PassGate, Registered, Stopped
  <2> QED
    BY <1>14, <2>1 DEF PassGate, shared
<1>15. ASSUME NEW w \in Workers, StartStats(w) PROVE CountInv'
  <2>1. Registered' = Registered /\ Stopped' = Stopped
    BY <1>15 DEF StartStats, Registered, Stopped
  <2> QED
    BY <1>15, <2>1 DEF StartStats, shared
<1>16. ASSUME NEW w \in Workers, FinishBatch(w) PROVE CountInv'
  BY <1>16 DEF FinishBatch, shared, main, Registered, Stopped
<1>17. ASSUME NEW w \in Workers, StopStats(w) PROVE CountInv'
  <2>1. Registered' = Registered /\ Stopped' = Stopped
    BY <1>17 DEF StopStats, Registered, Stopped
  <2> QED
    BY <1>17, <2>1 DEF StopStats, shared
<1>18. ASSUME NEW w \in Workers, Leave(w) PROVE CountInv'
  <2>1. Registered' = Registered
    BY <1>18 DEF Leave, Registered
  <2> QED
    BY <1>18, <2>1, LeaveCounts DEF Leave
<1>19. ASSUME NEW w \in Workers, Exit(w) PROVE CountInv'
  <2>1. Registered' = Registered /\ Stopped' = Stopped
    BY <1>19 DEF Exit, Registered, Stopped
  <2> QED
    BY <1>19, <2>1 DEF Exit, shared
<1>20. ASSUME NEW t \in Threads, SpuriousWakeup(t) PROVE CountInv'
  BY <1>20 DEF SpuriousWakeup, shared, main
<1>21. CASE Tick
  BY <1>21 DEF Tick, shared, main
<1>22. CASE UNCHANGED vars
  BY <1>22 DEF vars, shared, main
<1> QED
  BY <1>1, <1>2, <1>3, <1>4, <1>5, <1>6, <1>7, <1>8, <1>9, <1>10, <1>11,
     <1>12, <1>13, <1>14, <1>15, <1>16, <1>17, <1>18, <1>19, <1>20, <1>21,
     <1>22
     DEF Next, MainStep, WorkerStep, Done

------------------------------------------------------------------------------
\* Every step keeps TotalInv: workers count their shares, the merge adds
\* them up in order.
LEMMA TotalStep == IInv /\ [Next]_vars => TotalInv'
<1> SUFFICES ASSUME IInv, [Next]_vars PROVE TotalInv'
  OBVIOUS
<1> USE ThreadsAssumption DEF IInv, TypeOK, TotalInv, Reading
<1>1. CASE Spawn
  BY <1>1 DEF Spawn, Advance, StatsStart, shared, main
<1>2. CASE MainLock
  BY <1>2 DEF MainLock, shared, main
<1>3. CASE MainWait
  BY <1>3 DEF MainWait, MainMustWait, shared, main
<1>4. CASE OpenGate
  BY <1>4 DEF OpenGate, MainMustWait, NotifyAll, shared, main
<1>5. CASE AllDone
  <2>1. 0 \in Workers
    BY DEF Workers
  <2>2. Stopped = Workers
    BY <1>5, AllCounted DEF AllDone, MainMustWait, CountInv, Stopped
  <2>3. pc[0] \in {"leave", "ending", "exited"}
    BY <2>1, <2>2 DEF Stopped
  <2>4. stats[0].done = MergedShares(1)
    BY <1>5, <2>3, Shares DEF AllDone
  <2> QED
    BY <1>5, <2>4 DEF AllDone
<1>6. CASE Merge
  <2>1. cursor \in 1 .. NThreads - 1 /\ cursor \in Workers /\ 0 \in Workers
    BY <1>6 DEF PhaseInv, Merge, Workers
  <2>2. pc[cursor] \in {"ending", "exited"}
    BY <1>6, <2>1 DEF GateInv, Stopped, Merge
  <2>3. /\ stats[cursor].done = Share(cursor)
        /\ stats[0].done = MergedShares(cursor)
    BY <1>6, <2>1, <2>2 DEF Merge
  <2>4. MergedShares(cursor) + Share(cursor) = MergedShares(cursor + 1)
    BY <2>1, Shares
  <2>5. /\ stats'[0].done = MergedShares(cursor')
        /\ \A v \in Workers \ {0} : stats'[v] = stats[v]
    BY <1>6, <2>1, <2>3, <2>4 DEF Merge, StatsMerge
  <2>6. \A v \in Workers : pc[v] \in {"ending", "exited"}
    BY <1>6 DEF GateInv, Stopped, Merge
  <2> QED
    BY <1>6, <2>5, <2>6 DEF Merge
<1>7. CASE Report
  <2>1. cursor = NThreads /\ 0 \in Workers
    BY <1>7 DEF PhaseInv, Report, Workers
  <2>2. stats[0].done = Num
    BY <1>7, <2>1 DEF MergedShares, Report
  <2>3. reported' = Num
    BY <1>7, <2>2, WorkAssumption DEF Report
  <2>4. \A v \in Workers \ {0} : stats'[v] = stats[v]
    BY <1>7 DEF Report
  <2>5. \A v \in Workers : pc[v] \in {"ending", "exited"}
    BY <1>7 DEF GateInv, Stopped, Report
  <2> QED
    BY <1>7, <2>3, <2>4, <2>5 DEF Report
<1>8. CASE Join
  BY <1>8 DEF Join, Advance, shared, main
<1>9. CASE Delete
  BY <1>9 DEF Delete, Advance, shared, main
<1>10. CASE Return
  BY <1>10 DEF Return, shared, main
<1>11. ASSUME NEW w \in Workers, WorkerLock(w) PROVE TotalInv'
  BY <1>11 DEF WorkerLock, shared, main
<1>12. ASSUME NEW w \in Workers, Register(w) PROVE TotalInv'
  BY <1>12 DEF Register, NotifyIfComplete, NotifyAll, shared, main
<1>13. ASSUME NEW w \in Workers, WaitGate(w) PROVE TotalInv'
  BY <1>13 DEF WaitGate, shared, main
<1>14. ASSUME NEW w \in Workers, PassGate(w) PROVE TotalInv'
  BY <1>14 DEF PassGate, shared, main
<1>15. ASSUME NEW w \in Workers, StartStats(w) PROVE TotalInv'
  <2>1. /\ stats'[w].done = 0
        /\ \A v \in Workers \ {w} : stats'[v] = stats[v] /\ pc'[v] = pc[v]
    BY <1>15 DEF StartStats, StatsStart
  <2>2. 0 <= Share(w)
    BY Shares
  <2>3. pc'[w] \in {"method", "run"} /\ UNCHANGED main
    BY <1>15 DEF StartStats
  <2>4. pcMain \notin Reading
    BY <1>15 DEF StartStats, GateInv, Stopped
  <2>9. 0 \in Workers
    BY DEF Workers
  <2> QED
    BY <2>9, <2>1, <2>2, <2>3, <2>4 DEF main
<1>16. ASSUME NEW w \in Workers, FinishBatch(w) PROVE TotalInv'
  <2>1. Share(w) \in 0 .. Num
    BY Shares
  <2>2. stats[w].done \in 0 .. Num
    OBVIOUS
  <2>3. /\ stats'[w].done <= Share(w)
        /\ \A v \in Workers \ {w} : stats'[v] = stats[v]
    BY <1>16, <2>1, <2>2, WorkAssumption DEF FinishBatch
  <2>4. pcMain \notin Reading /\ pc[w] = "run" /\ UNCHANGED <<pc, main>>
    BY <1>16 DEF FinishBatch, GateInv, Stopped
  <2>9. 0 \in Workers
    BY DEF Workers
  <2> QED
    BY <2>9, <2>3, <2>4 DEF main
<1>17. ASSUME NEW w \in Workers, StopStats(w) PROVE TotalInv'
  <2>1. Share(w) \in 0 .. Num /\ stats[w].done \in 0 .. Num
    BY Shares
  <2>2. /\ stats'[w].done = Share(w)
        /\ \A v \in Workers \ {w} : stats'[v] = stats[v] /\ pc'[v] = pc[v]
    <3>1. stats[w].done >= Share(w) /\ stats[w].done <= Share(w)
      BY <1>17 DEF StopStats
    <3>2. stats'[w].done = stats[w].done
      BY <1>17 DEF StopStats, StatsStop
    <3>3. stats[w].done = Share(w)
      BY <2>1, <3>1
    <3> QED
      BY <1>17, <3>2, <3>3 DEF StopStats
  <2>3. pcMain \notin Reading /\ pc'[w] = "leave" /\ UNCHANGED main
    BY <1>17 DEF StopStats, GateInv, Stopped
  <2>9. 0 \in Workers
    BY DEF Workers
  <2> QED
    BY <2>9, <2>2, <2>3 DEF main
<1>18. ASSUME NEW w \in Workers, Leave(w) PROVE TotalInv'
  BY <1>18 DEF Leave, NotifyIfComplete, NotifyAll, shared, main
<1>19. ASSUME NEW w \in Workers, Exit(w) PROVE TotalInv'
  BY <1>19 DEF Exit, shared, main
<1>20. ASSUME NEW t \in Threads, SpuriousWakeup(t) PROVE TotalInv'
  BY <1>20 DEF SpuriousWakeup, shared, main
<1>21. CASE Tick
  BY <1>21 DEF Tick, shared, main
<1>22. CASE UNCHANGED vars
  BY <1>22 DEF vars, shared, main
<1> QED
  BY <1>1, <1>2, <1>3, <1>4, <1>5, <1>6, <1>7, <1>8, <1>9, <1>10, <1>11,
     <1>12, <1>13, <1>14, <1>15, <1>16, <1>17, <1>18, <1>19, <1>20, <1>21,
     <1>22
     DEF Next, MainStep, WorkerStep, Done

------------------------------------------------------------------------------
\* Every step keeps WindowInv: intervals lie after the opening and the
\* merged one grows to cover them.
LEMMA WindowStep == IInv /\ [Next]_vars => WindowInv'
<1> SUFFICES ASSUME IInv, [Next]_vars PROVE WindowInv'
  OBVIOUS
<1> USE ThreadsAssumption
       DEF IInv, TypeOK, WindowInv, GateInv, PhaseInv, Reading, Stopped
<1>1. CASE Spawn
  BY <1>1 DEF Spawn, Advance, StatsStart, shared, main
<1>2. CASE MainLock
  BY <1>2 DEF MainLock, shared, main
<1>3. CASE MainWait
  BY <1>3 DEF MainWait, MainMustWait, shared, main
<1>4. CASE OpenGate
  BY <1>4 DEF OpenGate, MainMustWait, NotifyAll, shared, main
<1>5. CASE AllDone
  <2>1. \A w \in Workers : w < 1 => w = 0
    BY DEF Workers
  <2>2. /\ pcMain' = "merge"
        /\ cursor' = 1
        /\ UNCHANGED <<pc, stats, clock, openedAt>>
    BY <1>5 DEF AllDone
  <2>3. 0 \in Workers /\ stats[0].start \in Nat /\ stats[0].finish \in Nat
    BY DEF Workers
  <2> QED
    BY <2>1, <2>2, <2>3
<1>6. CASE Merge
  <2>1. cursor \in Workers /\ 0 \in Workers /\ cursor # 0
    BY <1>6 DEF Merge, Workers
  <2> DEFINE m == StatsMerge(stats[0], stats[cursor])
  <2>2. /\ m.start <= stats[0].start /\ m.start <= stats[cursor].start
        /\ stats[0].finish <= m.finish /\ stats[cursor].finish <= m.finish
        /\ m.start \in {stats[0].start, stats[cursor].start}
        /\ m.start \in Nat /\ m.finish \in Nat
    BY <2>1 DEF StatsMerge
  <2>3. stats'[0] = m /\ \A v \in Workers \ {0} : stats'[v] = stats[v]
    BY <1>6, <2>1 DEF Merge
  <2>4. cursor' = cursor + 1 /\ UNCHANGED <<pcMain, pc, clock, openedAt>>
    BY <1>6 DEF Merge
  <2>5. pc[0] \in {"ending", "exited"} /\ pc[cursor] \in {"ending", "exited"}
    BY <1>6, <2>1 DEF Merge
  <2> HIDE DEF m
  <2>6. m.start <= clock /\ openedAt <= m.start
    BY <2>1, <2>2, <2>5
  <2>7. ASSUME NEW v \in Workers, v < cursor + 1
        PROVE  m.start <= stats'[v].start /\ stats'[v].finish <= m.finish
    <3>1. CASE v = 0
      BY <2>2, <2>3, <3>1
    <3>2. CASE v # 0 /\ v = cursor
      BY <2>2, <2>3, <3>2
    <3>3. CASE v # 0 /\ v < cursor
      <4>1. /\ stats[0].start <= stats[v].start
            /\ stats[v].finish <= stats[0].finish
        BY <1>6, <3>3 DEF Merge
      <4> QED
        BY <2>1, <2>2, <2>3, <3>3, <4>1
    <3> QED
      BY <2>7, <3>1, <3>2, <3>3, <2>1 DEF Workers
  <2> QED
    BY <1>6, <2>1, <2>3, <2>4, <2>6, <2>7 DEF Merge
<1>7. CASE Report
  <2>1. 0 \in Workers /\ \A w \in Workers : w < cursor
    BY <1>7 DEF Report, Workers
  <2>2. \A w \in Workers : /\ stats'[w].start = stats[w].start
                            /\ stats'[w].finish = stats[w].finish
    BY <1>7, <2>1 DEF Report
  <2>3. pcMain' = "join" /\ UNCHANGED <<pc, clock, openedAt>>
    BY <1>7 DEF Report
  <2> QED
    BY <1>7, <2>1, <2>2, <2>3 DEF Report
<1>8. CASE Join
  BY <1>8 DEF Join, Advance, shared, main
<1>9. CASE Delete
  BY <1>9 DEF Delete, Advance, shared, main
<1>10. CASE Return
  BY <1>10 DEF Return, shared, main
<1>11. ASSUME NEW w \in Workers, WorkerLock(w) PROVE WindowInv'
  BY <1>11 DEF WorkerLock, shared, main
<1>12. ASSUME NEW w \in Workers, Register(w) PROVE WindowInv'
  BY <1>12 DEF Register, NotifyIfComplete, NotifyAll, shared, main
<1>13. ASSUME NEW w \in Workers, WaitGate(w) PROVE WindowInv'
  BY <1>13 DEF WaitGate, shared, main
<1>14. ASSUME NEW w \in Workers, PassGate(w) PROVE WindowInv'
  BY <1>14 DEF PassGate, shared, main
<1>15. ASSUME NEW w \in Workers, StartStats(w) PROVE WindowInv'
  <2>1. pcMain \notin Reading
    BY <1>15 DEF StartStats
  <2>2. start /\ openedAt <= clock
    BY <1>15 DEF StartStats
  <2>3. stats'[w].start = clock
    BY <1>15 DEF StartStats, StatsStart
  <2>4. \A v \in Workers \ {w} : stats'[v] = stats[v] /\ pc'[v] = pc[v]
    BY <1>15 DEF StartStats
  <2>5. UNCHANGED <<pcMain, clock, openedAt, cursor>>
    BY <1>15 DEF StartStats, main
  <2> QED
    BY <2>1, <2>2, <2>3, <2>4, <2>5
<1>16. ASSUME NEW w \in Workers, FinishBatch(w) PROVE WindowInv'
  BY <1>16 DEF FinishBatch, shared, main
<1>17. ASSUME NEW w \in Workers, StopStats(w) PROVE WindowInv'
  BY <1>17 DEF StopStats, StatsStop, shared, main
<1>18. ASSUME NEW w \in Workers, Leave(w) PROVE WindowInv'
  BY <1>18 DEF Leave, NotifyIfComplete, NotifyAll, shared, main
<1>19. ASSUME NEW w \in Workers, Exit(w) PROVE WindowInv'
  BY <1>19 DEF Exit, shared, main
<1>20. ASSUME NEW t \in Threads, SpuriousWakeup(t) PROVE WindowInv'
  BY <1>20 DEF SpuriousWakeup, shared, main
<1>21. CASE Tick
  BY <1>21 DEF Tick, shared, main
<1>22. CASE UNCHANGED vars
  BY <1>22 DEF vars, shared, main
<1> QED
  BY <1>1, <1>2, <1>3, <1>4, <1>5, <1>6, <1>7, <1>8, <1>9, <1>10, <1>11,
     <1>12, <1>13, <1>14, <1>15, <1>16, <1>17, <1>18, <1>19, <1>20, <1>21,
     <1>22
     DEF Next, MainStep, WorkerStep, Done

------------------------------------------------------------------------------
\* The invariant, and what follows from it.

\* The inductive invariant holds initially.
LEMMA InvInit == Init => IInv
<1> SUFFICES ASSUME Init PROVE IInv
  OBVIOUS
<1> USE ThreadsAssumption DEF Init
<1>1. TypeOK
  <2>1. StatsStart(0) \in [done : 0 .. Num, start : Nat, finish : Nat]
    BY WorkAssumption DEF StatsStart
  <2>2. stats \in [Workers -> [done : 0 .. Num, start : Nat, finish : Nat]]
    BY <2>1
  <2>3. cursor \in 0 .. NThreads /\ reported \in 0 .. Num
    BY WorkAssumption
  <2> QED  BY <2>2, <2>3 DEF TypeOK
<1>2. Registered = {} /\ Stopped = {}
  BY DEF Registered, Stopped
<1>3. CountInv
  BY <1>2, FS_EmptySet DEF CountInv
<1>4. GateInv /\ LockInv
  BY DEF GateInv, LockInv, Reading, Threads
<1>5. PhaseInv
  BY DEF PhaseInv, Workers
<1>6. TotalInv
  BY DEF TotalInv, Reading, Workers
<1>7. WindowInv
  BY DEF WindowInv, Reading, StatsStart
<1> QED
  BY <1>1, <1>3, <1>4, <1>5, <1>6, <1>7 DEF IInv

\* Every reachable state satisfies the inductive invariant.
THEOREM Invariance == Spec => []IInv
<1>1. Init => IInv
  BY InvInit
<1>2. IInv /\ [Next]_vars => IInv'
  BY TypeStep, CountStep, GateStep, LockStep, PhaseStep, TotalStep,
     WindowStep DEF IInv
<1> QED
  BY <1>1, <1>2, PTL DEF Spec

\* Type correctness, whatever the number of threads and keys.
THEOREM TypeCorrect == Spec => []TypeOK
<1>1. IInv => TypeOK
  BY DEF IInv
<1> QED
  BY <1>1, Invariance, PTL

\* No worker measures or writes before all have registered and start is set.
THEOREM GateIsHeld == Spec => []GateHeld
<1>1. IInv => GateHeld
  BY DEF IInv, GateInv, GateHeld, Registered
<1> QED
  BY <1>1, Invariance, PTL

\* No thread sleeps on cv while the condition it waits for is true.
THEOREM WakeupsAreKept == Spec => []NoLostWakeup
<1>1. IInv => NoLostWakeup
  BY ThreadsAssumption DEF IInv, LockInv, NoLostWakeup, TypeOK, Threads
<1> QED
  BY <1>1, Invariance, PTL

\* The main thread reads only the statistics of workers that have stopped.
THEOREM MergesFinalStats == Spec => []MergeAfterStop
<1>1. IInv => MergeAfterStop
  BY DEF IInv, GateInv, MergeAfterStop, Reading, Stopped
<1> QED
  BY <1>1, Invariance, PTL

\* Nothing is freed while a thread can still use it.
THEOREM LifetimesAreSafe == Spec => []LifetimeSafe
<1>1. ASSUME IInv PROVE LifetimeSafe
  <2> USE <1>1 DEF IInv, TypeOK
  <2>1. ASSUME NEW w \in Workers, pc[w] \notin {"unborn", "ending", "exited"}
        PROVE  w \in allocated
    <3>1. CASE pcMain = "spawn"
      <4>1. w < cursor /\ allocated = 0 .. cursor - 1
        BY <2>1, <3>1 DEF PhaseInv, Workers
      <4>2. cursor \in Nat /\ w \in Nat
        BY DEF Workers
      <4> QED  BY <4>1, <4>2
    <3>2. CASE pcMain \in {"awaitInit", "awaitDone", "merge", "join"}
      BY <3>2 DEF PhaseInv
    <3>3. CASE pcMain \in {"delete", "return", "returned"}
      BY <2>1, <3>3 DEF PhaseInv
    <3> QED  BY <3>1, <3>2, <3>3
  <2>2. pcMain \in {"delete", "return", "returned"} =>
            \A w \in Workers : pc[w] = "exited"
    BY DEF PhaseInv
  <2> QED  BY <2>1, <2>2 DEF LifetimeSafe
<1> QED
  BY <1>1, Invariance, PTL

\* The report counts --num operations, for any division among the workers.
THEOREM ReportIsComplete == Spec => []ReportedTotal
<1>1. IInv => ReportedTotal
  BY DEF IInv, TotalInv, ReportedTotal
<1> QED
  BY <1>1, Invariance, PTL

\* The reported interval covers every worker's, and starts after the opening.
THEOREM WindowIsComplete == Spec => []WindowCovers
<1>1. ASSUME IInv, reported # 0
      PROVE  /\ openedAt <= stats[0].start
             /\ \A w \in Workers : /\ stats[0].start <= stats[w].start
                                   /\ stats[w].finish <= stats[0].finish
  <2> USE <1>1 DEF IInv
  <2>1. pcMain \in Reading \ {"merge"}
    BY DEF TotalInv
  <2>2. 0 \in Workers /\ pc[0] \in {"ending", "exited"}
    BY <2>1, ThreadsAssumption DEF GateInv, Stopped, Workers
  <2> QED  BY <2>1, <2>2 DEF WindowInv
<1>2. IInv => WindowCovers
  BY <1>1 DEF WindowCovers
<1> QED
  BY <1>2, Invariance, PTL

------------------------------------------------------------------------------
\* The handshake implements the start gate.

\* An initial state of the run is one of the abstract run.
LEMMA GateInit == Init => Gate!Init
BY DEF Init, Gate!Init, StageOf

\* A step of a worker that changes pc changes at most its own stage.
LEMMA StageStep ==
    ASSUME TypeOK, NEW w \in Workers, NEW p,
           pc' = [pc EXCEPT ![w] = p],
           NEW s, StageOf(w)' = s
    PROVE  [v \in Workers |-> StageOf(v)]' =
               [[v \in Workers |-> StageOf(v)] EXCEPT ![w] = s]
<1>1. \A v \in Workers : v # w => StageOf(v)' = StageOf(v)
  BY DEF StageOf, TypeOK
<1> QED  BY <1>1

\* Each step of the run is a step of the abstract run, or invisible to it.
LEMMA GateSimulation == IInv /\ [Next]_vars => [Gate!Next]_(Gate!vars)
<1> SUFFICES ASSUME IInv, [Next]_vars PROVE [Gate!Next]_(Gate!vars)
  OBVIOUS
<1> DEFINE stage == [v \in Workers |-> StageOf(v)]
<1>a. TypeOK
  BY DEF IInv
<1>b. (UNCHANGED <<pc, start, reported>>) => UNCHANGED Gate!vars
  BY DEF Gate!vars, StageOf
<1>c. ASSUME NEW w \in Workers, NEW p, pc' = [pc EXCEPT ![w] = p],
             UNCHANGED <<start, reported>>, StageOf(w)' = StageOf(w)
      PROVE  UNCHANGED Gate!vars
  <2>1. stage' = [stage EXCEPT ![w] = StageOf(w)]
    BY <1>a, <1>c, StageStep
  <2> QED  BY <1>c, <2>1 DEF Gate!vars
<1>1. CASE Spawn
  <2>1. PICK w \in Workers : w = cursor
    BY <1>1 DEF Spawn, IInv, PhaseInv
  <2>2. pc[w] = "unborn"
    BY <1>1, <2>1 DEF Spawn, IInv, PhaseInv, Workers
  <2>3. pc' = [pc EXCEPT ![w] = "enter"] /\ UNCHANGED <<start, reported>>
    BY <1>1, <2>1 DEF Spawn, shared
  <2>4. StageOf(w)' = StageOf(w)
    BY <1>a, <2>2, <2>3 DEF StageOf, TypeOK
  <2> QED  BY <1>c, <2>3, <2>4
<1>2. CASE MainLock
  BY <1>b, <1>2 DEF MainLock, main
<1>3. CASE MainWait
  BY <1>b, <1>3 DEF MainWait, main
<1>4. CASE OpenGate
  <2>1. Registered = Workers
    BY <1>4, AllCounted, ThreadsAssumption
       DEF OpenGate, MainMustWait, IInv, TypeOK, CountInv, Registered
  <2>2. ~start
    BY <1>4 DEF OpenGate, IInv, GateInv
  <2>3. \A w \in Workers : StageOf(w) = "ready"
    <3>1. \A w \in Workers : pc[w] = "gate"
      BY <1>a, <2>1, <2>2 DEF IInv, GateInv, Registered
    <3> QED  BY <3>1 DEF StageOf
  <2>4. Gate!Open
    BY <1>4, <2>2, <2>3 DEF OpenGate, Gate!Open, StageOf
  <2> QED  BY <2>4 DEF Gate!Next
<1>5. CASE AllDone
  BY <1>b, <1>5 DEF AllDone, shared
<1>6. CASE Merge
  BY <1>b, <1>6 DEF Merge, shared
<1>7. CASE Report
  <2>1. reported' = Num
    <3>1. TotalInv'
      BY <1>7, TotalStep DEF Next, MainStep
    <3> QED  BY <1>7, <3>1 DEF Report, TotalInv, Reading
  <2>2. reported = 0 /\ Stopped = Workers
    BY <1>7 DEF Report, IInv, TotalInv, GateInv, Reading
  <2>3. \A w \in Workers : StageOf(w) = "stopped"
    BY <2>2 DEF StageOf, Stopped
  <2>4. UNCHANGED <<pc, start>>
    BY <1>7 DEF Report, shared
  <2>5. Gate!Report
    BY <2>1, <2>2, <2>3, <2>4 DEF Gate!Report, StageOf
  <2> QED  BY <2>5 DEF Gate!Next
<1>8. CASE Join
  BY <1>b, <1>8 DEF Join, shared
<1>9. CASE Delete
  BY <1>b, <1>9 DEF Delete, shared
<1>10. CASE Return
  BY <1>b, <1>10 DEF Return
<1>11. ASSUME NEW w \in Workers, WorkerLock(w)
       PROVE  [Gate!Next]_(Gate!vars)
  BY <1>b, <1>11 DEF WorkerLock, main
<1>12. ASSUME NEW w \in Workers, Register(w)
       PROVE  [Gate!Next]_(Gate!vars)
  <2>1. StageOf(w) = "absent" /\ StageOf(w)' = "ready"
    BY <1>a, <1>12 DEF Register, StageOf, TypeOK
  <2>2. stage' = [stage EXCEPT ![w] = "ready"]
    BY <1>a, <1>12, <2>1, StageStep DEF Register
  <2>3. Gate!Arrive(w)
    BY <1>12, <2>1, <2>2 DEF Register, main, Gate!Arrive
  <2> QED  BY <2>3 DEF Gate!Next
<1>13. ASSUME NEW w \in Workers, WaitGate(w)
       PROVE  [Gate!Next]_(Gate!vars)
  BY <1>b, <1>13 DEF WaitGate, main
<1>14. ASSUME NEW w \in Workers, PassGate(w)
       PROVE  [Gate!Next]_(Gate!vars)
  <2>1. StageOf(w)' = StageOf(w)
    BY <1>a, <1>14 DEF PassGate, StageOf, TypeOK
  <2> QED  BY <1>c, <1>14, <2>1 DEF PassGate, main
<1>15. ASSUME NEW w \in Workers, StartStats(w)
       PROVE  [Gate!Next]_(Gate!vars)
  <2>1. CASE pc[w] = "begin"
    <3>1. pc' = [pc EXCEPT ![w] = "method"] /\ start
          /\ UNCHANGED <<start, reported>>
      BY <1>15, <2>1 DEF StartStats, shared, main, IInv, GateInv
    <3>2. StageOf(w) = "ready" /\ StageOf(w)' = "working"
      BY <1>a, <2>1, <3>1 DEF StageOf, TypeOK
    <3>3. stage' = [stage EXCEPT ![w] = "working"]
      BY <1>a, <3>1, <3>2, StageStep
    <3>4. Gate!Begin(w)
      BY <3>1, <3>2, <3>3 DEF Gate!Begin
    <3> QED  BY <3>4 DEF Gate!Next
  <2>2. CASE pc[w] = "method"
    <3>1. pc' = [pc EXCEPT ![w] = "run"] /\ UNCHANGED <<start, reported>>
      BY <1>15, <2>2 DEF StartStats, shared, main
    <3>2. StageOf(w)' = StageOf(w)
      BY <1>a, <2>2, <3>1 DEF StageOf, TypeOK
    <3> QED  BY <1>c, <3>1, <3>2
  <2> QED  BY <1>15, <2>1, <2>2 DEF StartStats
<1>16. ASSUME NEW w \in Workers, FinishBatch(w)
       PROVE  [Gate!Next]_(Gate!vars)
  BY <1>b, <1>16 DEF FinishBatch, shared, main
<1>17. ASSUME NEW w \in Workers, StopStats(w)
       PROVE  [Gate!Next]_(Gate!vars)
  <2>1. StageOf(w) = "working" /\ StageOf(w)' = "stopped"
    BY <1>a, <1>17 DEF StopStats, StageOf, TypeOK
  <2>2. stage' = [stage EXCEPT ![w] = "stopped"]
    BY <1>a, <1>17, <2>1, StageStep DEF StopStats
  <2>3. Gate!Finish(w)
    BY <1>17, <2>1, <2>2 DEF StopStats, shared, main, Gate!Finish
  <2> QED  BY <2>3 DEF Gate!Next
<1>18. ASSUME NEW w \in Workers, Leave(w)
       PROVE  [Gate!Next]_(Gate!vars)
  <2>1. StageOf(w)' = StageOf(w)
    BY <1>a, <1>18 DEF Leave, StageOf, TypeOK
  <2> QED  BY <1>c, <1>18, <2>1 DEF Leave, main
<1>19. ASSUME NEW w \in Workers, Exit(w)
       PROVE  [Gate!Next]_(Gate!vars)
  <2>1. StageOf(w)' = StageOf(w)
    BY <1>a, <1>19 DEF Exit, StageOf, TypeOK
  <2> QED  BY <1>c, <1>19, <2>1 DEF Exit, shared, main
<1>20. ASSUME NEW t \in Threads, SpuriousWakeup(t)
       PROVE  [Gate!Next]_(Gate!vars)
  BY <1>b, <1>20 DEF SpuriousWakeup, main
<1>21. CASE Tick
  BY <1>b, <1>21 DEF Tick, shared, main
<1>22. CASE UNCHANGED vars
  BY <1>b, <1>22 DEF vars, shared, main
<1> QED
  BY <1>1, <1>2, <1>3, <1>4, <1>5, <1>6, <1>7, <1>8, <1>9, <1>10, <1>11,
     <1>12, <1>13, <1>14, <1>15, <1>16, <1>17, <1>18, <1>19, <1>20, <1>21,
     <1>22 DEF Next, MainStep, WorkerStep, Done

\* The run implements the start gate, up to fairness: it starts as the
\* abstract run does and each of its steps is a step of the abstract run.
THEOREM StartGateRefinement == Spec => Gate!Init /\ [][Gate!Next]_(Gate!vars)
<1>1. Init => Gate!Init
  BY GateInit
<1>2. IInv /\ [Next]_vars => [Gate!Next]_(Gate!vars)
  BY GateSimulation
<1> QED
  BY <1>1, <1>2, Invariance, PTL DEF Spec

------------------------------------------------------------------------------
\* Nobody waits for ever: somebody can go on, and not without end.

\* While the main thread sleeps or waits for the mutex, a worker can go on.
LEMMA WorkerRuns ==
    ASSUME IInv, pcMain \in {"awaitInit", "awaitDone"}, Blocked(Main)
    PROVE  \E w \in Workers : ~Blocked(w)
<1>1. TypeOK /\ Main \notin Workers /\ NoOne \notin Threads
  BY ThreadsAssumption DEF IInv
<1>5. Cardinality(Workers) = NThreads /\ NThreads \in Nat
  BY FS_Interval, ThreadsAssumption DEF Workers
<1>2. CASE mu \in Workers
  <2>1. ~Blocked(mu)
    BY <1>1, <1>2 DEF IInv, LockInv, Blocked
  <2> QED  BY <1>2, <2>1
<1>3. CASE mu = NoOne
  <2>1. MainMustWait
    BY <1>1, <1>3 DEF Blocked, IInv, LockInv
  <2>2. CASE pcMain = "awaitInit"
    <3>1. Registered # Workers
      BY <2>1, <2>2, <1>5 DEF MainMustWait, IInv, CountInv
    <3>2. PICK w \in Workers : pc[w] = "enter"
      BY <2>2, <3>1 DEF Registered, IInv, PhaseInv
    <3>3. w \notin waiting
      BY <3>2 DEF IInv, LockInv
    <3> QED  BY <1>1, <1>3, <3>2, <3>3 DEF Blocked
  <2>3. CASE pcMain = "awaitDone"
    <3>1. Stopped # Workers
      BY <2>1, <2>3, <1>5 DEF MainMustWait, IInv, CountInv
    <3>2. PICK w \in Workers : pc[w] \notin {"ending", "exited"}
      BY <3>1 DEF Stopped
    <3>3. start /\ pc[w] \notin {"unborn", "enter"}
      BY <2>3 DEF IInv, GateInv, Registered
    <3>4. w \notin waiting
      BY <3>3 DEF IInv, LockInv
    <3> QED  BY <1>1, <1>3, <3>2, <3>3, <3>4 DEF Blocked
  <2> QED  BY <2>1, <2>2, <2>3 DEF MainMustWait
<1>4. CASE mu = Main
  BY <1>1, <1>4 DEF Blocked, IInv, LockInv
<1> QED  BY <1>1, <1>2, <1>3, <1>4 DEF TypeOK, Threads

\* RunBenchmark never comes to a state in which every thread waits for another,
\* for any number of workers and whenever the wakeups come.
THEOREM SomebodyAlwaysRuns == Spec => []SomebodyRuns
<1>1. IInv => SomebodyRuns
  <2> SUFFICES ASSUME IInv, pcMain # "returned" PROVE \E t \in Threads : ~Blocked(t)
    BY DEF SomebodyRuns
  <2>1. TypeOK /\ Main \notin Workers /\ Main \in Threads /\ Workers \subseteq Threads
    BY ThreadsAssumption DEF IInv, Threads
  <2>2. CASE pcMain \in {"awaitInit", "awaitDone"}
    BY <2>1, <2>2, WorkerRuns
  <2>3. CASE pcMain \in {"spawn", "merge", "delete", "return"}
    <3>1. Main \notin waiting
      BY <2>3 DEF IInv, LockInv, MainMustWait
    <3> QED  BY <2>1, <2>3, <3>1 DEF Blocked
  <2>4. CASE pcMain = "join"
    <3>1. Main \notin waiting /\ waiting \cap Workers = {}
      BY <2>4 DEF IInv, LockInv, GateInv, MainMustWait
    <3>2. cursor \in Workers /\ pc[cursor] \in {"ending", "exited"}
      BY <2>4 DEF IInv, PhaseInv, GateInv, Reading, Stopped
    <3>3. CASE pc[cursor] = "exited"
      BY <2>1, <2>4, <3>1, <3>3 DEF Blocked
    <3>4. CASE pc[cursor] = "ending"
      BY <2>1, <3>1, <3>2, <3>4 DEF Blocked
    <3> QED  BY <3>2, <3>3, <3>4
  <2> QED  BY <2>1, <2>2, <2>3, <2>4 DEF TypeOK
<1> QED  BY <1>1, Invariance, PTL

\* The places of the threads.
Places == (0 .. 8) \X (0 .. Num + NThreads)

LEMMA PlaceTypes == TypeOK => \A t \in Threads : At(t) \in Places
<1> SUFFICES ASSUME TypeOK, NEW t \in Threads PROVE At(t) \in Places
  OBVIOUS
<1>1. Num \in Nat /\ NThreads \in Nat
  BY WorkAssumption, ThreadsAssumption
<1>2. CASE t = Main
  <2>1. MainStage \in 0 .. 8 /\ cursor \in 0 .. Num + NThreads
    BY <1>1 DEF TypeOK, MainStage
  <2> QED  BY <1>2, <2>1 DEF At, Places
<1>3. CASE t # Main
  <2>1. t \in Workers
    BY <1>3 DEF Threads
  <2>2. WorkerStage(t) \in 0 .. 8
    BY <2>1 DEF WorkerStage
  <2>3. stats[t].done \in 0 .. Num
    BY <2>1 DEF TypeOK
  <2> QED  BY <1>1, <1>3, <2>2, <2>3 DEF At, Places
<1> QED  BY <1>2, <1>3

LEMMA PlaceTypesNext == TypeOK' => \A t \in Threads : At(t)' \in Places
<1>1. (TypeOK => \A t \in Threads : At(t) \in Places)'
  BY PlaceTypes, PTL
<1> QED  BY <1>1 DEF Places, Threads, Workers

\* The order of the places is transitive and irreflexive.
LEMMA PlaceOrder ==
    ASSUME NEW a \in Places, NEW b \in Places, NEW c \in Places
    PROVE  /\ ~Ahead(a, a)
           /\ Ahead(a, b) /\ Ahead(b, c) => Ahead(a, c)
<1>1. \A p \in Places : p[1] \in Int /\ p[2] \in Int
  BY WorkAssumption, ThreadsAssumption DEF Places
<1> QED  BY <1>1 DEF Ahead

\* When some thread goes ahead and none goes back, less is left to do.
LEMMA GoingAhead ==
    ASSUME TypeOK, TypeOK', NEW t \in Threads, Ahead(At(t)', At(t)),
           \A u \in Threads : At(u)' = At(u) \/ Ahead(At(u)', At(u))
    PROVE  ToDo' \subseteq ToDo /\ ToDo' # ToDo
<1>1. \A u \in Threads : At(u) \in Places /\ At(u)' \in Places
  <2>1. \A u \in Threads : At(u) \in Places
    BY PlaceTypes
  <2>2. \A u \in Threads : At(u)' \in Places
    BY PlaceTypesNext
  <2> QED  BY <2>1, <2>2 DEF Threads, Workers, Places
<1>2. \A u : \A p : <<u, p>> \in ToDo <=> u \in Threads /\ p \in Places /\ Ahead(p, At(u))
  BY DEF ToDo, Places
<1>3. \A u : \A p : <<u, p>> \in ToDo' <=> u \in Threads /\ p \in Places /\ Ahead(p, At(u)')
  BY DEF ToDo, Places, Threads, Workers
<1>4. \A u \in Threads, p \in Places : Ahead(p, At(u)') => Ahead(p, At(u))
  BY <1>1, PlaceOrder
<1>5. ToDo' \subseteq ToDo
  <2>1. \A x \in ToDo' : x = <<x[1], x[2]>>
    BY DEF ToDo
  <2> QED  BY <1>2, <1>3, <1>4, <2>1
<1>6. <<t, At(t)'>> \in ToDo /\ <<t, At(t)'>> \notin ToDo'
  BY <1>1, <1>2, <1>3, PlaceOrder
<1> QED  BY <1>5, <1>6

\* A step of a worker that goes ahead.
LEMMA WorkerAhead ==
    ASSUME TypeOK, TypeOK', NEW w \in Workers, UNCHANGED <<pcMain, cursor>>,
           \A u \in Workers \ {w} : pc'[u] = pc[u] /\ stats'[u] = stats[u],
           Ahead(At(w)', At(w))
    PROVE  ToDo' \subseteq ToDo /\ ToDo' # ToDo
<1>1. At(Main)' = At(Main)
  BY DEF At, MainStage
<1>2. \A u \in Workers \ {w} : At(u)' = At(u)
  BY ThreadsAssumption DEF At, WorkerStage
<1>3. \A u \in Threads : At(u)' = At(u) \/ Ahead(At(u)', At(u))
  BY <1>1, <1>2 DEF Threads
<1> QED  BY <1>3, GoingAhead DEF Threads

\* A step of the main thread that goes ahead.
LEMMA MainAhead ==
    ASSUME TypeOK, TypeOK', UNCHANGED pc, Ahead(At(Main)', At(Main)),
           \A u \in Workers : pc[u] = "run" => stats'[u] = stats[u]
    PROVE  ToDo' \subseteq ToDo /\ ToDo' # ToDo
<1>1. \A u \in Workers : At(u)' = At(u)
  BY ThreadsAssumption DEF At, WorkerStage
<1>2. \A u \in Threads : At(u)' = At(u) \/ Ahead(At(u)', At(u))
  BY <1>1 DEF Threads
<1> QED  BY <1>2, GoingAhead DEF Threads

\* A step that moves nobody.
LEMMA SamePlaces ==
    ASSUME UNCHANGED <<pcMain, cursor, pc, stats>>
    PROVE  ToDo' = ToDo
<1>1. \A u \in Threads : At(u)' = At(u)
  BY DEF At, MainStage, WorkerStage
<1> QED  BY <1>1 DEF ToDo, Threads, Workers

\* A turn of a loop of the main thread, or the end of it.
LEMMA AdvanceAhead ==
    ASSUME TypeOK, NEW next,
           \/ pcMain = "spawn" /\ next = "awaitInit"
           \/ pcMain = "join" /\ next = "delete"
           \/ pcMain = "delete" /\ next = "return",
           Advance(next)
    PROVE  Ahead(At(Main)', At(Main))
BY DEF Advance, At, Ahead, MainStage, TypeOK

LEMMA WindingDown ==
    IInv /\ IInv' /\ [Next]_vars =>
        \/ UNCHANGED vars
        \/ ToDo' \subseteq ToDo /\ ToDo' # ToDo
        \/ /\ ToDo' = ToDo
           /\ Awake' \subseteq Awake /\ Contending' \subseteq Contending
           /\ <<Awake, Contending>>' # <<Awake, Contending>>
        \/ ToDo' = ToDo /\ spurious' > spurious
        \/ UNCHANGED <<ToDo, Awake, Contending>> /\ clock' > clock
<1> DEFINE Less == ToDo' \subseteq ToDo /\ ToDo' # ToDo
           Calmer == /\ ToDo' = ToDo
                     /\ Awake' \subseteq Awake /\ Contending' \subseteq Contending
                     /\ <<Awake, Contending>>' # <<Awake, Contending>>
<1> SUFFICES ASSUME IInv, IInv', [Next]_vars
             PROVE  \/ UNCHANGED vars \/ Less \/ Calmer
                    \/ ToDo' = ToDo /\ spurious' > spurious
                    \/ UNCHANGED <<ToDo, Awake, Contending>> /\ clock' > clock
  OBVIOUS
<1>a. TypeOK /\ TypeOK'
  BY DEF IInv
<1>b. Main \notin Workers /\ Main \in Threads /\ NoOne \notin Threads
  BY ThreadsAssumption DEF Threads
<1>c. \A w \in Workers : w \in Threads
  BY DEF Threads
<1>1. CASE Spawn
  <2>1. PICK w \in Workers : w = cursor
    BY <1>1 DEF Spawn, IInv, PhaseInv
  <2>2. pc[w] = "unborn" /\ pc'[w] = "enter" /\ w # Main
    BY <1>1, <1>a, <1>b, <2>1 DEF Spawn, IInv, PhaseInv, TypeOK, Workers
  <2>3. Ahead(At(w)', At(w))
    BY <2>2 DEF At, WorkerStage, Ahead
  <2>4. \A u \in Workers \ {w} : At(u)' = At(u)
    BY <1>1, <1>a, <2>1, <1>b DEF Spawn, At, WorkerStage, TypeOK
  <2>5. Ahead(At(Main)', At(Main))
    BY <1>1, <1>a, AdvanceAhead DEF Spawn
  <2>6. \A u \in Threads : At(u)' = At(u) \/ Ahead(At(u)', At(u))
    BY <2>3, <2>4, <2>5 DEF Threads
  <2> QED  BY <1>a, <1>c, <2>3, <2>6, GoingAhead
<1>2. CASE MainLock
  <2>1. ToDo' = ToDo
    BY <1>2, SamePlaces DEF MainLock, main
  <2>2. Awake' = Awake /\ Contending' = Contending \ {Main} /\ Main \in Contending
    BY <1>2, <1>b DEF MainLock, Awake, Contending, Threads, Workers
  <2> QED  BY <2>1, <2>2
<1>3. CASE MainWait
  <2>1. ToDo' = ToDo
    BY <1>3, SamePlaces DEF MainWait, main
  <2>2. Main \in Awake /\ Awake' = Awake \ {Main}
    BY <1>3, <1>b DEF MainWait, Awake, IInv, LockInv, Threads, Workers
  <2>3. Contending' \subseteq Contending
    BY <1>3, <1>b, <2>2 DEF MainWait, Contending
  <2> QED  BY <2>1, <2>2, <2>3
<1>4. CASE OpenGate
  <2>1. Ahead(At(Main)', At(Main))
    BY <1>4, <1>a DEF OpenGate, At, Ahead, MainStage, TypeOK
  <2> QED  BY <1>4, <1>a, <2>1, MainAhead DEF OpenGate
<1>5. CASE AllDone
  <2>1. Ahead(At(Main)', At(Main))
    BY <1>5, <1>a DEF AllDone, At, Ahead, MainStage, TypeOK
  <2> QED  BY <1>5, <1>a, <2>1, MainAhead DEF AllDone
<1>6. CASE Merge
  <2>1. Ahead(At(Main)', At(Main))
    BY <1>6, <1>a DEF Merge, At, Ahead, MainStage, TypeOK
  <2>2. \A u \in Workers : pc[u] # "run"
    BY <1>6 DEF Merge, IInv, GateInv, Reading, Stopped
  <2> QED  BY <1>6, <1>a, <2>1, <2>2, MainAhead DEF Merge
<1>7. CASE Report
  <2>1. Ahead(At(Main)', At(Main))
    BY <1>7, <1>a DEF Report, At, Ahead, MainStage, TypeOK
  <2>2. \A u \in Workers : pc[u] # "run"
    BY <1>7 DEF Report, IInv, GateInv, Reading, Stopped
  <2> QED  BY <1>7, <1>a, <2>1, <2>2, MainAhead DEF Report
<1>8. CASE Join
  <2>1. Ahead(At(Main)', At(Main))
    BY <1>8, <1>a, AdvanceAhead DEF Join
  <2> QED  BY <1>8, <1>a, <2>1, MainAhead DEF Join
<1>9. CASE Delete
  <2>1. Ahead(At(Main)', At(Main))
    BY <1>9, <1>a, AdvanceAhead DEF Delete
  <2> QED  BY <1>9, <1>a, <2>1, MainAhead DEF Delete
<1>10. CASE Return
  <2>1. Ahead(At(Main)', At(Main))
    BY <1>10, <1>a DEF Return, At, Ahead, MainStage, TypeOK
  <2> QED  BY <1>10, <1>a, <2>1, MainAhead DEF Return
<1>11. ASSUME NEW w \in Workers, WorkerLock(w) PROVE Calmer
  <2>1. ToDo' = ToDo
    BY <1>11, SamePlaces DEF WorkerLock, main
  <2>2. Awake' = Awake /\ Contending' = Contending \ {w} /\ w \in Contending
    BY <1>11, <1>b, <1>c DEF WorkerLock, Awake, Contending, Threads, Workers
  <2> QED  BY <2>1, <2>2
<1>12. ASSUME NEW w \in Workers, Register(w) PROVE Less
  <2>1. Ahead(At(w)', At(w)) /\ \A u \in Workers \ {w} : pc'[u] = pc[u]
    BY <1>12, <1>a, <1>b DEF Register, At, WorkerStage, Ahead, TypeOK
  <2> QED  BY <1>12, <1>a, <2>1, WorkerAhead DEF Register, main
<1>13. ASSUME NEW w \in Workers, WaitGate(w) PROVE Calmer
  <2>1. ToDo' = ToDo
    BY <1>13, SamePlaces DEF WaitGate, main
  <2>2. w \in Awake /\ Awake' = Awake \ {w}
    BY <1>13, <1>c DEF WaitGate, Awake, IInv, LockInv, Threads, Workers
  <2>3. Contending' \subseteq Contending
    BY <1>13, <1>b, <2>2 DEF WaitGate, Contending
  <2> QED  BY <2>1, <2>2, <2>3
<1>14. ASSUME NEW w \in Workers, PassGate(w) PROVE Less
  <2>1. Ahead(At(w)', At(w)) /\ \A u \in Workers \ {w} : pc'[u] = pc[u]
    BY <1>14, <1>a, <1>b DEF PassGate, At, WorkerStage, Ahead, TypeOK
  <2> QED  BY <1>14, <1>a, <2>1, WorkerAhead DEF PassGate, main
<1>15. ASSUME NEW w \in Workers, StartStats(w) PROVE Less
  <2>1. Ahead(At(w)', At(w))
    BY <1>15, <1>a, <1>b DEF StartStats, At, WorkerStage, Ahead, TypeOK
  <2>2. \A u \in Workers \ {w} : pc'[u] = pc[u] /\ stats'[u] = stats[u]
    BY <1>15, <1>a DEF StartStats, TypeOK
  <2> QED  BY <1>15, <1>a, <2>1, <2>2, WorkerAhead DEF StartStats, main
<1>16. ASSUME NEW w \in Workers, FinishBatch(w) PROVE Less
  <2>1. stats'[w].done > stats[w].done
    <3>1. stats[w].done \in Nat /\ Share(w) \in Nat /\ Batch \in Nat \ {0}
      BY <1>a, Shares, WorkAssumption DEF TypeOK
    <3>2. stats'[w].done = stats[w].done
             + (IF Share(w) - stats[w].done < Batch THEN Share(w) - stats[w].done ELSE Batch)
      BY <1>16, <1>a DEF FinishBatch, TypeOK
    <3> QED  BY <1>16, <3>1, <3>2 DEF FinishBatch
  <2>2. Ahead(At(w)', At(w))
    BY <1>16, <1>a, <1>b, <2>1 DEF FinishBatch, At, WorkerStage, Ahead
  <2>3. \A u \in Workers \ {w} : pc'[u] = pc[u] /\ stats'[u] = stats[u]
    BY <1>16, <1>a DEF FinishBatch, TypeOK
  <2> QED  BY <1>16, <1>a, <2>2, <2>3, WorkerAhead DEF FinishBatch, main
<1>17. ASSUME NEW w \in Workers, StopStats(w) PROVE Less
  <2>1. Ahead(At(w)', At(w))
    BY <1>17, <1>a, <1>b DEF StopStats, At, WorkerStage, Ahead, TypeOK
  <2>2. \A u \in Workers \ {w} : pc'[u] = pc[u] /\ stats'[u] = stats[u]
    BY <1>17, <1>a DEF StopStats, TypeOK
  <2> QED  BY <1>17, <1>a, <2>1, <2>2, WorkerAhead DEF StopStats, main
<1>18. ASSUME NEW w \in Workers, Leave(w) PROVE Less
  <2>1. Ahead(At(w)', At(w)) /\ \A u \in Workers \ {w} : pc'[u] = pc[u]
    BY <1>18, <1>a, <1>b DEF Leave, At, WorkerStage, Ahead, TypeOK
  <2> QED  BY <1>18, <1>a, <2>1, WorkerAhead DEF Leave, main
<1>19. ASSUME NEW w \in Workers, Exit(w) PROVE Less
  <2>1. Ahead(At(w)', At(w)) /\ \A u \in Workers \ {w} : pc'[u] = pc[u]
    BY <1>19, <1>a, <1>b DEF Exit, At, WorkerStage, Ahead, TypeOK
  <2> QED  BY <1>19, <1>a, <2>1, WorkerAhead DEF Exit, main
<1>20. ASSUME NEW t \in Threads, SpuriousWakeup(t)
       PROVE  ToDo' = ToDo /\ spurious' > spurious
  BY <1>20, <1>a, SamePlaces DEF SpuriousWakeup, main, TypeOK
<1>21. ASSUME Tick PROVE UNCHANGED <<ToDo, Awake, Contending>> /\ clock' > clock
  <2>1. ToDo' = ToDo
    BY <1>21, SamePlaces DEF Tick, main
  <2>2. UNCHANGED <<Awake, Contending>>
    BY <1>21 DEF Tick, shared, Awake, Contending, Threads, Workers
  <2> QED  BY <1>21, <1>a, <2>1, <2>2 DEF Tick, TypeOK
<1> QED
  BY <1>1, <1>2, <1>3, <1>4, <1>5, <1>6, <1>7, <1>8, <1>9, <1>10, <1>11,
     <1>12, <1>13, <1>14, <1>15, <1>16, <1>17, <1>18, <1>19, <1>20, <1>21
     DEF Next, MainStep, WorkerStep, Done

\* The threads and the places they have still to reach are finitely many.
LEMMA WorkIsFinite == IsFiniteSet(ToDo) /\ IsFiniteSet(Threads)
<1>1. Num \in Nat /\ NThreads \in Nat
  BY WorkAssumption, ThreadsAssumption
<1>2. IsFiniteSet(Threads)
  <2>1. IsFiniteSet(Workers)
    BY <1>1, FS_Interval DEF Workers
  <2> QED  BY <2>1, FS_AddElement DEF Threads
<1>3. IsFiniteSet(Places)
  <2>1. 0 \in Int /\ 8 \in Int /\ Num + NThreads \in Int
    BY <1>1
  <2>2. IsFiniteSet(0 .. 8)
    BY <2>1, FS_Interval
  <2>3. IsFiniteSet(0 .. Num + NThreads)
    BY <2>1, FS_Interval
  <2> QED  BY <2>2, <2>3, FS_Product DEF Places
<1>4. IsFiniteSet(Threads \X Places)
  BY <1>2, <1>3, FS_Product
<1>5. ToDo \subseteq Threads \X Places
  BY DEF ToDo, Places
<1> QED  BY <1>2, <1>4, <1>5, FS_Subset

\* RunBenchmark does not go round for ever: each step of a thread takes away
\* from a finite set of places or brings a thread nearer to sleep.  With
\* SomebodyAlwaysRuns this is why it returns.
THEOREM RunWindsDown == Spec => WindsDown /\ [](IsFiniteSet(ToDo) /\ IsFiniteSet(Threads))
<1>1. IInv /\ IInv' /\ [Next]_vars =>
          [\/ ToDo' \subseteq ToDo /\ ToDo' # ToDo
           \/ /\ ToDo' = ToDo
              /\ Awake' \subseteq Awake /\ Contending' \subseteq Contending
              /\ <<Awake, Contending>>' # <<Awake, Contending>>
           \/ ToDo' = ToDo /\ spurious' > spurious
           \/ UNCHANGED <<ToDo, Awake, Contending>> /\ clock' > clock]_vars
  BY WindingDown
<1>2. IsFiniteSet(ToDo) /\ IsFiniteSet(Threads)
  BY WorkIsFinite
<1> QED  BY <1>1, <1>2, Invariance, PTL DEF Spec, WindsDown
==============================================================================
