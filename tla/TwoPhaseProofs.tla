--------------------------- MODULE TwoPhaseProofs ---------------------------
(***************************************************************************)
(* Proofs about TwoPhase, for any modes, counts, number of workers, sizes  *)
(* of writes and number of runs: what a run is accepted for and what it    *)
(* leaves behind, and that the script takes the steps of Acceptance.       *)
(***************************************************************************)
EXTENDS TwoPhase, FiniteSetTheorems, TLAPS

------------------------------------------------------------------------------
\* The shares of the workers.

LEMMA ShareType ==
    ASSUME NEW p \in 1 .. 2
    PROVE  Share(p) \in [Tids -> Nat]
<1>1. \A n \in Nat : n \div Threads \in Nat /\ n % Threads \in Nat
  BY ThreadsAssumption
<1>2. Num[p] \in Nat
  BY NumAssumption
<1> QED
  BY <1>1, <1>2 DEF Share, Tids

\* A worker whose share is the whole count leaves nothing to the others.
LEMMA WholeShare ==
    ASSUME NEW p \in 1 .. 2, NEW t \in Tids, Num[p] <= Share(p)[t],
           NEW u \in Tids, u # t
    PROVE  Share(p)[u] = 0
<1> DEFINE n == Num[p]  q == n \div Threads  r == n % Threads
<1>1. n \in Nat \ {0} /\ Threads \in Nat \ {0} /\ Threads # 1
  BY NumAssumption, ThreadsAssumption DEF Tids
<1>2. q \in Nat /\ r \in Nat /\ n = Threads * q + r
  <2>1. \A a \in Nat, b \in Nat \ {0} :
           a \div b \in Nat /\ a % b \in Nat /\ a = b * (a \div b) + (a % b)
    OBVIOUS
  <2> QED
    BY <1>1, <2>1
<1>3. Share(p)[t] = q + (IF t = Threads - 1 THEN r ELSE 0)
      /\ Share(p)[u] = q + (IF u = Threads - 1 THEN r ELSE 0)
  BY DEF Share
<1> HIDE DEF n, q, r
<1>4. Threads * q + r <= q + (IF t = Threads - 1 THEN r ELSE 0)
  BY <1>2, <1>3 DEF n
<1>5. Threads * q >= q + q
  BY <1>1, <1>2
<1>6. q = 0
  BY <1>2, <1>4, <1>5, <1>1
<1>7. t = Threads - 1
  <2>1. SUFFICES ASSUME t # Threads - 1 PROVE FALSE
    OBVIOUS
  <2>2. n = r /\ n <= 0
    BY <1>1, <1>2, <1>3, <1>6, <2>1 DEF n
  <2> QED
    BY <2>2, <1>1
<1> QED
  BY <1>3, <1>6, <1>7

\* The keys of one worker.
Own(p, t) == {t} \X (1 .. Share(p)[t])

LEMMA OwnCardinality ==
    ASSUME NEW p \in 1 .. 2, NEW t \in Tids, NEW S \in SUBSET Own(p, t)
    PROVE  /\ IsFiniteSet(S) /\ Cardinality(S) \in Nat
           /\ Cardinality(S) <= Share(p)[t]
           /\ Cardinality(S) = Share(p)[t] => S = Own(p, t)
<1>1. Share(p)[t] \in Nat
  BY ShareType
<1>2. IsFiniteSet({t}) /\ Cardinality({t}) = 1
  BY FS_Singleton
<1>3. IsFiniteSet(1 .. Share(p)[t]) /\ Cardinality(1 .. Share(p)[t]) = Share(p)[t]
  <2>1. \A n \in Nat : IsFiniteSet(1 .. n) /\ Cardinality(1 .. n) = n
    BY FS_Interval
  <2> QED
    BY <1>1, <2>1
<1>4. IsFiniteSet(Own(p, t)) /\ Cardinality(Own(p, t)) = 1 * Share(p)[t]
  BY <1>2, <1>3, FS_Product DEF Own
<1>5. Cardinality(Own(p, t)) = Share(p)[t]
  BY <1>1, <1>4
<1>6. /\ IsFiniteSet(S) /\ Cardinality(S) <= Cardinality(Own(p, t))
      /\ Cardinality(Own(p, t)) = Cardinality(S) => Own(p, t) = S
  BY <1>4, FS_Subset
<1>7. Cardinality(S) \in Nat
  BY <1>6, FS_CardinalityType
<1> QED
  BY <1>5, <1>6, <1>7

\* What a worker has stored is of its own keys.
LEMMA LoadType ==
    ASSUME TypeOK, LoadInv, pc \in Loading, NEW t \in Tids
    PROVE  StoredOf(t) \in SUBSET Own(phase, t) /\ Cardinality(StoredOf(t)) \in Nat
<1>0. phase \in 1 .. 2 /\ stored \subseteq Tids \X Nat /\ tried \in [Tids -> Nat]
  BY DEF TypeOK
<1>1. ASSUME NEW k \in StoredOf(t) PROVE k \in Own(phase, t)
  <2>1. k \in stored /\ k[1] = t /\ k \in Tids \X Nat /\ k[2] \in 1 .. tried[t]
    BY <1>0, <1>1 DEF StoredOf, LoadInv
  <2>2. tried[t] <= Share(phase)[t] /\ tried[t] \in Nat /\ Share(phase)[t] \in Nat
    BY <1>0, ShareType DEF LoadInv
  <2> QED
    BY <2>1, <2>2 DEF Own
<1> QED
  BY <1>0, <1>1, OwnCardinality

\* A worker that has stored as many keys as the phase has, has stored all of
\* them, and the others have none to store.
LEMMA WholeLoad ==
    ASSUME TypeOK, LoadInv, pc = "total", Num[phase] \in logs[mode][phase].totals
    PROVE  stored = AllKeys(phase)
<1>0. phase \in 1 .. 2 /\ pc \in Loading /\ stored \subseteq Tids \X Nat
      /\ tried \in [Tids -> Nat]
  BY DEF TypeOK, Loading
<1>1. PICK t \in Tids : announced[t] # -1 /\ announced[t] = Num[phase]
  BY <1>0 DEF LoadInv
<1>2. \A u \in Tids : StoredOf(u) \in SUBSET Own(phase, u)
  BY <1>0, LoadType
<1>3. Cardinality(StoredOf(t)) = Num[phase]
  BY <1>0, <1>1 DEF LoadInv
<1>4. Num[phase] <= Share(phase)[t]
  BY <1>0, <1>2, <1>3, OwnCardinality
<1>5. \A u \in Tids : u # t => Share(phase)[u] = 0
  BY <1>0, <1>4, WholeShare
<1>6. Share(phase)[t] <= Num[phase]
  <2>1. Num[phase] \in Nat /\ Threads \in Nat \ {0} /\ t \in 0 .. Threads - 1
    BY <1>0, NumAssumption, ThreadsAssumption DEF Tids
  <2>2. \A a \in Nat, b \in Nat \ {0} :
           (a \div b) \in Nat /\ (a % b) \in Nat /\ (a \div b) + (a % b) <= a
    <3>1. SUFFICES ASSUME NEW a \in Nat, NEW b \in Nat \ {0}
                   PROVE (a \div b) \in Nat /\ (a % b) \in Nat /\ (a \div b) + (a % b) <= a
      OBVIOUS
    <3>2. (a \div b) \in Nat /\ (a % b) \in Nat /\ a = b * (a \div b) + (a % b)
      OBVIOUS
    <3>3. \A q \in Nat : b * q >= q
      OBVIOUS
    <3> QED
      BY <3>2, <3>3
  <2> QED
    BY <2>1, <2>2 DEF Share
<1>7. StoredOf(t) = Own(phase, t)
  <2>1. Num[phase] \in Nat /\ Share(phase)[t] \in Nat
    BY <1>0, NumAssumption, ShareType
  <2>2. Share(phase)[t] = Num[phase]
    BY <1>4, <1>6, <2>1
  <2> QED
    BY <1>0, <1>2, <1>3, <2>2, OwnCardinality
<1>8. \A u \in Tids : u # t => Own(phase, u) = {}
  BY <1>5 DEF Own
<1>9. \A u \in Tids : StoredOf(u) = Own(phase, u)
  BY <1>2, <1>7, <1>8
<1>10. stored = UNION {StoredOf(u) : u \in Tids}
  BY <1>0 DEF StoredOf
<1>11. AllKeys(phase) = UNION {Own(phase, u) : u \in Tids}
  BY DEF AllKeys, Own
<1> QED
  BY <1>9, <1>10, <1>11

------------------------------------------------------------------------------
\* Type correctness.

LEMMA TypeInit == Init => TypeOK
BY ModesAssumption, BoundsAssumption DEF Init, TypeOK, Load1!Init, NoLOG, NoLog, NoSave

LEMMA TypeStep == TypeOK /\ PhaseInv /\ LoadInv /\ [Next]_vars => TypeOK'
<1> SUFFICES ASSUME TypeOK, PhaseInv, LoadInv, [Next]_vars PROVE TypeOK'
  OBVIOUS
<1> USE DEF TypeOK
<1>1. CASE \E m \in Modes : Begin(m)
  BY <1>1, BoundsAssumption DEF Begin, bench, disk
<1>2. CASE \E ok \in BOOLEAN : Guards(ok)
  BY <1>2 DEF Guards, Exit, bench, disk
<1>3. CASE \E ok \in BOOLEAN : Erase(ok)
  <2>1. [p \in 1 .. 2 |-> {}] \in [1 .. 2 -> SUBSET (Tids \X Nat)]
    OBVIOUS
  <2>2. NoLOG \in [run : 0 .. MaxRuns, phase : 0 .. 2]
    BY BoundsAssumption DEF NoLOG
  <2>3. db' \in [1 .. 2 -> SUBSET (Tids \X Nat)]
    BY <1>3, <2>1 DEF Erase
  <2>4. dbLog' \in [run : 0 .. MaxRuns, phase : 0 .. 2]
    BY <1>3, <2>2 DEF Erase
  <2> QED
    BY <1>3, <2>3, <2>4 DEF Erase, Exit, bench
<1>4. CASE \E ok \in BOOLEAN : StartPhase(ok)
  <2>1. NewLog \in [run : 0 .. MaxRuns, totals : SUBSET Nat, errors : BOOLEAN]
    BY DEF NewLog
  <2>2. logs' \in [Modes -> [1 .. 2 -> [run : 0 .. MaxRuns, totals : SUBSET Nat,
                                       errors : BOOLEAN]]]
    <3>1. mode \in Modes /\ phase \in 1 .. 2
      BY <1>4 DEF StartPhase
    <3>2. CASE logs' = logs
      BY <3>2
    <3>3. CASE logs' = [logs EXCEPT ![mode][phase] = NewLog]
      BY <2>1, <3>1, <3>3
    <3> QED
      BY <1>4, <3>2, <3>3 DEF StartPhase
  <2> QED
    BY <1>4, <2>2 DEF StartPhase, Exit, bench
<1>5. CASE \E ok \in BOOLEAN : Open(ok)
  BY <1>5 DEF Open, Exit
<1>6. CASE \E t \in Tids : \E n \in 1 .. MaxGroup : Try(t, n)
  <2>1. PICK t \in Tids, n \in 1 .. MaxGroup : Try(t, n)
    BY <1>6
  <2>2. /\ n \in Nat /\ mode \in Modes /\ stored' \subseteq Tids \X Nat
        /\ tried' \in [Tids -> Nat] /\ announced' = announced
    BY <2>1, BoundsAssumption DEF Try, Load1!Try, Load2!Try
  <2>3. db' \in [1 .. 2 -> SUBSET (Tids \X Nat)]
    BY <2>1, <2>2 DEF Try
  <2>4. [logs[mode][phase] EXCEPT !.errors = TRUE]
        \in [run : 0 .. MaxRuns, totals : SUBSET Nat, errors : BOOLEAN]
    <3>1. logs[mode][phase] \in [run : 0 .. MaxRuns, totals : SUBSET Nat, errors : BOOLEAN]
      BY <2>2
    <3>2. \A r \in [run : 0 .. MaxRuns, totals : SUBSET Nat, errors : BOOLEAN] :
             [r EXCEPT !.errors = TRUE]
                \in [run : 0 .. MaxRuns, totals : SUBSET Nat, errors : BOOLEAN]
      OBVIOUS
    <3> QED
      BY <3>1, <3>2
  <2>5. logs' \in [Modes -> [1 .. 2 -> [run : 0 .. MaxRuns, totals : SUBSET Nat,
                                       errors : BOOLEAN]]]
    BY <2>1, <2>2, <2>4 DEF Try
  <2> QED
    BY <2>1, <2>2, <2>3, <2>5 DEF Try
<1>7. CASE \E t \in Tids : Announce(t)
  <2>1. PICK t \in Tids : Announce(t)
    BY <1>7
  <2>2. announced' = [announced EXCEPT ![t] = Cardinality(StoredOf(t))]
        /\ tried' = tried /\ stored' = stored /\ mode \in Modes
    <3>1. mode \in Modes
      BY <2>1 DEF Announce
    <3>2. Load1!Announce(t) \/ Load2!Announce(t)
      BY <2>1 DEF Announce
    <3> QED
      BY <3>1, <3>2, Zenon DEF Load1!Announce, Load2!Announce, Load1!Cardinality, Load2!Cardinality, Cardinality, StoredOf
  <2>3. Cardinality(StoredOf(t)) \in Nat
    BY <2>1, LoadType DEF Announce, Loading
  <2>4. [logs[mode][phase] EXCEPT !.totals = @ \cup {announced'[t]}]
        \in [run : 0 .. MaxRuns, totals : SUBSET Nat, errors : BOOLEAN]
    BY <2>2, <2>3
  <2>5. logs' \in [Modes -> [1 .. 2 -> [run : 0 .. MaxRuns, totals : SUBSET Nat,
                                       errors : BOOLEAN]]]
    BY <2>1, <2>2, <2>4 DEF Announce
  <2> QED
    BY <2>1, <2>2, <2>3, <2>5 DEF Announce
<1>8. CASE \E ok \in BOOLEAN : PipelineEnds(ok)
  BY <1>8 DEF PipelineEnds, Exit, bench, disk, PhaseInv
<1>9. CASE GrepTotal
  BY <1>9 DEF GrepTotal, Exit, bench, disk
<1>10. CASE GrepErrors
  BY <1>10 DEF GrepErrors, Exit, bench, disk
<1>11. CASE \E ok \in BOOLEAN : CopyLog(ok)
  BY <1>11 DEF CopyLog, Exit, bench
<1>12. CASE Finish
  BY <1>12 DEF Finish, Exit, bench, disk
<1>13. CASE Kill
  BY <1>13 DEF Kill, Exit, bench, disk
<1>14. CASE UNCHANGED vars
  BY <1>14 DEF vars, bench, disk
<1> QED
  BY <1>1, <1>2, <1>3, <1>4, <1>5, <1>6, <1>7, <1>8, <1>9, <1>10, <1>11, <1>12, <1>13, <1>14
     DEF Next

------------------------------------------------------------------------------
\* The inductive invariant, action by action.

Rest == /\ PhaseInv /\ LoadInv /\ LogInv
        /\ AcceptedIsLoaded /\ AcceptedIsTogether /\ SavedIsComplete

\* A run that ends badly leaves nothing to show but what is saved.
LEMMA Leaves ==
    ASSUME SavedIsComplete, pc' = "idle", verdict' # "ok", saved' = saved,
           complete \subseteq complete'
    PROVE  Rest'
BY DEF Rest, SavedIsComplete, PhaseInv, LoadInv, LogInv, Loading, AcceptedIsLoaded,
       AcceptedIsTogether

\* A run in progress has not been accepted.
LEMMA Continues ==
    ASSUME PhaseInv', LoadInv', LogInv', SavedIsComplete', pc' # "idle"
    PROVE  Rest'
BY DEF Rest, PhaseInv, AcceptedIsLoaded, AcceptedIsTogether

LEMMA BeginStep == ASSUME IInv, NEW m \in Modes, Begin(m) PROVE Rest'
<1>1. pc' = "guards" /\ verdict' = "none" /\ run' > 0 /\ saved' = saved /\ complete' = complete
  BY DEF IInv, TypeOK, Begin, disk
<1>2. PhaseInv' /\ LoadInv' /\ LogInv'
  BY <1>1 DEF PhaseInv, LoadInv, LogInv, Loading
<1>3. SavedIsComplete'
  BY <1>1 DEF IInv, SavedIsComplete
<1> QED
  BY <1>1, <1>2, <1>3, Continues

LEMMA GuardsStep == ASSUME IInv, NEW ok \in BOOLEAN, Guards(ok) PROVE Rest'
<1>1. saved' = saved /\ complete' = complete /\ run' = run
  BY DEF Guards, disk
<1>2. CASE pc' = "idle"
  BY <1>1, <1>2, Leaves DEF IInv, Guards, Exit
<1>3. CASE pc' = "erase"
  <2>1. verdict' = "none" /\ run' > 0
    BY <1>1, <1>3 DEF IInv, PhaseInv, Guards, Exit
  <2>2. PhaseInv' /\ LoadInv' /\ LogInv'
    BY <1>3, <2>1 DEF PhaseInv, LoadInv, LogInv, Loading
  <2>3. SavedIsComplete'
    BY <1>1 DEF IInv, SavedIsComplete
  <2> QED
    BY <1>3, <2>2, <2>3, Continues
<1> QED
  BY <1>2, <1>3 DEF Guards, Exit

LEMMA EraseStep == ASSUME IInv, NEW ok \in BOOLEAN, Erase(ok) PROVE Rest'
<1>1. saved' = saved /\ complete' = complete /\ run' = run
  BY DEF Erase
<1>2. CASE pc' = "idle"
  BY <1>1, <1>2, Leaves DEF IInv, Erase, Exit
<1>3. CASE pc' = "start"
  <2>1. verdict' = "none" /\ run' > 0 /\ phase' = 1 /\ db' = [p \in 1 .. 2 |-> {}]
    BY <1>1, <1>3 DEF IInv, PhaseInv, Erase, Exit
  <2>2. PhaseInv' /\ LoadInv' /\ LogInv'
    BY <1>3, <2>1 DEF PhaseInv, LoadInv, LogInv, Loading
  <2>3. SavedIsComplete'
    BY <1>1 DEF IInv, SavedIsComplete
  <2> QED
    BY <1>3, <2>2, <2>3, Continues
<1> QED
  BY <1>2, <1>3 DEF Erase, Exit

LEMMA StartPhaseStep == ASSUME IInv, NEW ok \in BOOLEAN, StartPhase(ok) PROVE Rest'
<1>1. /\ saved' = saved /\ complete' = complete /\ run' = run /\ db' = db
      /\ mode' = mode /\ phase' = phase /\ pc = "start"
  BY DEF StartPhase
<1>2. CASE pc' = "idle"
  BY <1>1, <1>2, Leaves DEF IInv, StartPhase, Exit
<1>3. CASE pc' = "open"
  <2>1. verdict' = "none" /\ run > 0 /\ logs' = [logs EXCEPT ![mode][phase] = NewLog]
    BY <1>1, <1>3 DEF IInv, PhaseInv, StartPhase, Exit
  <2>2. mode \in Modes /\ phase \in 1 .. 2 /\ logs'[mode][phase] = NewLog
        /\ (phase = 2 => logs'[mode][1] = logs[mode][1])
    BY <1>1, <2>1 DEF IInv, TypeOK
  <2>3. NewLog' = NewLog
    BY <1>1 DEF NewLog
  <2>4. phase = 2 => Passed(1)'
    BY <1>1, <2>2 DEF IInv, PhaseInv, Passed
  <2>5. PhaseInv'
    BY <1>1, <1>3, <2>1, <2>2, <2>3, <2>4 DEF IInv, PhaseInv, Loading
  <2>6. LoadInv' /\ LogInv'
    BY <1>3 DEF LoadInv, LogInv, Loading
  <2>7. SavedIsComplete'
    BY <1>1 DEF IInv, SavedIsComplete
  <2> QED
    BY <1>3, <2>5, <2>6, <2>7, Continues
<1> QED
  BY <1>2, <1>3 DEF StartPhase, Exit

LEMMA OpenStep == ASSUME IInv, NEW ok \in BOOLEAN, Open(ok) PROVE Rest'
<1>1. /\ saved' = saved /\ complete' = complete /\ run' = run /\ db' = db /\ logs' = logs
      /\ mode' = mode /\ phase' = phase /\ pc = "open"
  BY DEF Open
<1>2. CASE pc' = "idle"
  BY <1>1, <1>2, Leaves DEF IInv, Open, Exit
<1>3. CASE pc' = "load"
  <2>1. /\ verdict' = "none" /\ run > 0 /\ phase \in 1 .. 2
        /\ dbLog' = [run |-> run, phase |-> phase]
        /\ tried' = [t \in Tids |-> 0] /\ stored' = {}
        /\ announced' = [t \in Tids |-> -1]
    BY <1>1, <1>3 DEF IInv, TypeOK, PhaseInv, Open, Exit
  <2>2. db[phase] = {} /\ logs[mode][phase].run = run /\ logs[mode][phase].totals = {}
    BY <1>1 DEF IInv, PhaseInv, NewLog
  <2>3. phase = 2 => Passed(1)'
    BY <1>1 DEF IInv, PhaseInv, Passed
  <2>4. PhaseInv'
    BY <1>1, <1>3, <2>1, <2>3 DEF IInv, PhaseInv, Loading
  <2>5. \A t \in Tids : 0 <= Share(phase)[t]
    BY <2>1, ShareType
  <2>6. {announced'[t] : t \in {u \in Tids : announced'[u] # -1}} = {}
    BY <2>1
  <2>7. LoadInv'
    BY <1>1, <1>3, <2>1, <2>2, <2>5, <2>6 DEF LoadInv
  <2>8. LogInv'
    BY <1>1, <1>3, <2>1 DEF LogInv, Loading
  <2>9. SavedIsComplete'
    BY <1>1 DEF IInv, SavedIsComplete
  <2> QED
    BY <1>3, <2>4, <2>7, <2>8, <2>9, Continues
<1> QED
  BY <1>2, <1>3 DEF Open, Exit
\* The load is the one of the phase in progress.
LEMMA TryIs ==
    ASSUME IInv, NEW t \in Tids, NEW n \in 1 .. MaxGroup, Try(t, n)
    PROVE  /\ tried[t] + n <= Share(phase)[t]
           /\ tried' = [tried EXCEPT ![t] = @ + n]
           /\ \/ stored' = stored \cup ({t} \X (tried[t] + 1 .. tried[t] + n))
              \/ stored' = stored
           /\ announced' = announced
<1>1. phase = 1 \/ phase = 2
  BY DEF IInv, TypeOK
<1> QED
  BY <1>1 DEF Try, Load1!Try, Load2!Try

LEMMA AnnounceIs ==
    ASSUME IInv, NEW t \in Tids, Announce(t)
    PROVE  /\ tried[t] = Share(phase)[t] /\ announced[t] = -1
           /\ announced' = [announced EXCEPT ![t] = Cardinality(StoredOf(t))]
           /\ tried' = tried /\ stored' = stored
<1>1. phase = 1 \/ phase = 2
  BY DEF IInv, TypeOK
<1>2. Load1!Cardinality(StoredOf(t)) = Cardinality(StoredOf(t))
      /\ Load2!Cardinality(StoredOf(t)) = Cardinality(StoredOf(t))
  BY DEF Load1!Cardinality, Load2!Cardinality, Cardinality
<1> QED
  BY <1>1, <1>2, Zenon DEF Announce, Load1!Announce, Load2!Announce, StoredOf

LEMMA TryStep ==
    ASSUME IInv, NEW t \in Tids, NEW n \in 1 .. MaxGroup, Try(t, n)
    PROVE  Rest'
<1>1. /\ pc = "load" /\ pc' = "load" /\ mode' = mode /\ phase' = phase /\ run' = run
      /\ verdict' = verdict /\ dbLog' = dbLog /\ saved' = saved /\ complete' = complete
      /\ db' = [db EXCEPT ![phase] = @ \cup stored']
  BY DEF Try
<1>2. /\ mode \in Modes /\ phase \in 1 .. 2 /\ n \in Nat /\ n > 0
      /\ tried \in [Tids -> Nat] /\ announced \in [Tids -> Nat \cup {-1}]
      /\ stored \subseteq Tids \X Nat /\ verdict = "none" /\ run > 0
  BY <1>1, BoundsAssumption DEF IInv, TypeOK, PhaseInv
<1>3. /\ logs'[mode][phase].run = logs[mode][phase].run
      /\ logs'[mode][phase].totals = logs[mode][phase].totals
      /\ phase = 2 => logs'[mode][1] = logs[mode][1]
  <2>1. CASE logs' = logs
    BY <2>1
  <2>2. CASE logs' = [logs EXCEPT ![mode][phase].errors = TRUE]
    <3> DEFINE log == [logs[mode][phase] EXCEPT !.errors = TRUE]
    <3>0. logs' = [logs EXCEPT ![mode][phase] = log]
      BY <2>2
    <3> HIDE DEF log
    <3>1. logs'[mode][phase] = log /\ (phase = 2 => logs'[mode][1] = logs[mode][1])
      BY <1>2, <3>0 DEF IInv, TypeOK
    <3>2. logs[mode][phase] \in [run : 0 .. MaxRuns, totals : SUBSET Nat, errors : BOOLEAN]
      BY <1>2 DEF IInv, TypeOK
    <3>3. \A r \in [run : 0 .. MaxRuns, totals : SUBSET Nat, errors : BOOLEAN] :
             LET q == [r EXCEPT !.errors = TRUE] IN q.run = r.run /\ q.totals = r.totals
      OBVIOUS
    <3> QED
      BY <3>1, <3>2, <3>3 DEF log
  <2> QED
    BY <2>1, <2>2 DEF Try
<1>4. db[phase] = stored /\ stored \subseteq stored' /\ db'[phase] = stored'
  <2>1. db[phase] = stored
    BY <1>1 DEF IInv, LoadInv, Loading
  <2>2. stored \subseteq stored'
    BY TryIs
  <2> QED
    BY <1>1, <1>2, <2>1, <2>2 DEF IInv, TypeOK
<1>5. PhaseInv'
  <2>1. phase = 2 => Passed(1)'
    BY <1>1, <1>2, <1>3 DEF IInv, TypeOK, PhaseInv, Passed, Loading
  <2>2. phase = 1 => db'[2] = {}
    BY <1>1, <1>2 DEF IInv, TypeOK, PhaseInv, Loading
  <2> QED
    BY <1>1, <1>2, <2>1, <2>2 DEF PhaseInv, Loading
<1>6. LoadInv'
  <2>1. /\ logs[mode][phase].run = run
        /\ logs[mode][phase].totals = {announced[u] : u \in {v \in Tids : announced[v] # -1}}
    BY <1>1 DEF IInv, LoadInv, Loading
  <2>2. ASSUME NEW k \in stored' PROVE k[2] \in 1 .. tried'[k[1]]
    <3>1. tried[t] \in Nat /\ tried'[t] = tried[t] + n
      BY <1>2, TryIs
    <3>2. CASE k \in stored
      <4>1. k[1] \in Tids /\ k[2] \in 1 .. tried[k[1]]
        BY <1>1, <1>2, <3>2 DEF IInv, LoadInv, Loading
      <4>2. tried'[k[1]] \in Nat /\ tried[k[1]] \in Nat /\ tried[k[1]] <= tried'[k[1]]
        BY <1>2, <3>1, <4>1, TryIs
      <4> QED
        BY <4>1, <4>2
    <3>3. CASE k \in {t} \X (tried[t] + 1 .. tried[t] + n)
      <4>1. k[1] = t /\ k[2] \in tried[t] + 1 .. tried[t] + n
        BY <3>3
      <4> QED
        BY <3>1, <4>1
    <3> QED
      BY <2>2, <3>2, <3>3, TryIs
  <2>3. ASSUME NEW u \in Tids
        PROVE  /\ tried'[u] <= Share(phase)[u]
               /\ announced[u] # -1 =>
                    /\ tried'[u] = Share(phase)[u]
                    /\ announced[u] = Cardinality(StoredOf(u)')
    <3>1. Share(phase)[u] \in Nat /\ tried[u] \in Nat
      BY <1>2, ShareType
    <3>2. /\ tried[u] <= Share(phase)[u]
          /\ announced[u] # -1 =>
                tried[u] = Share(phase)[u] /\ announced[u] = Cardinality(StoredOf(u))
      BY <1>1 DEF IInv, LoadInv, Loading
    <3>3. CASE u = t
      BY <1>2, <3>1, <3>2, <3>3, TryIs
    <3>4. CASE u # t
      <4>1. tried'[u] = tried[u]
        BY <1>2, <3>4, TryIs
      <4>2. \A k \in {t} \X (tried[t] + 1 .. tried[t] + n) : k[1] # u
        BY <3>4
      <4>3. StoredOf(u)' = StoredOf(u)
        BY <4>2, TryIs DEF StoredOf
      <4> QED
        BY <3>2, <4>1, <4>3
    <3> QED
      BY <3>3, <3>4
  <2>4. announced' = announced
    BY TryIs
  <2>5. \A k \in stored' : k[2] \in 1 .. tried'[k[1]]
    BY <2>2
  <2> QED
    BY <1>1, <1>3, <1>4, <2>1, <2>3, <2>4, <2>5 DEF LoadInv, Loading
<1>7. LogInv'
  BY <1>1 DEF IInv, LogInv, Loading
<1>8. SavedIsComplete'
  BY <1>1 DEF IInv, SavedIsComplete
<1> QED
  BY <1>1, <1>5, <1>6, <1>7, <1>8, Continues

LEMMA AnnounceStep == ASSUME IInv, NEW t \in Tids, Announce(t) PROVE Rest'
<1> DEFINE own == Cardinality(StoredOf(t))
<1>1. /\ pc = "load" /\ pc' = "load" /\ mode' = mode /\ phase' = phase /\ run' = run
      /\ verdict' = verdict /\ db' = db /\ dbLog' = dbLog /\ saved' = saved
      /\ complete' = complete
      /\ logs' = [logs EXCEPT ![mode][phase].totals = @ \cup {announced'[t]}]
  BY DEF Announce
<1>2. /\ mode \in Modes /\ phase \in 1 .. 2 /\ announced \in [Tids -> Nat \cup {-1}]
      /\ verdict = "none" /\ run > 0
  BY <1>1 DEF IInv, TypeOK, PhaseInv
<1>3. own \in Nat /\ announced'[t] = own
  <2>1. own \in Nat
    BY <1>1, LoadType DEF IInv, Loading
  <2> QED
    BY <1>2, <2>1, AnnounceIs
<1> HIDE DEF own
<1>4. /\ logs'[mode][phase].run = logs[mode][phase].run
      /\ logs'[mode][phase].totals = logs[mode][phase].totals \cup {own}
      /\ phase = 2 => logs'[mode][1] = logs[mode][1]
  <2> DEFINE log == [logs[mode][phase] EXCEPT !.totals = @ \cup {own}]
  <2>0. logs' = [logs EXCEPT ![mode][phase] = log]
    BY <1>1, <1>3
  <2> HIDE DEF log
  <2>1. logs'[mode][phase] = log /\ (phase = 2 => logs'[mode][1] = logs[mode][1])
    BY <1>2, <2>0 DEF IInv, TypeOK
  <2>2. logs[mode][phase] \in [run : 0 .. MaxRuns, totals : SUBSET Nat, errors : BOOLEAN]
    BY <1>2 DEF IInv, TypeOK
  <2>3. \A r \in [run : 0 .. MaxRuns, totals : SUBSET Nat, errors : BOOLEAN] :
           LET q == [r EXCEPT !.totals = @ \cup {own}]
           IN  q.run = r.run /\ q.totals = r.totals \cup {own}
    OBVIOUS
  <2> QED
    BY <2>1, <2>2, <2>3 DEF log
<1>5. PhaseInv'
  <2>1. phase = 2 => Passed(1)'
    BY <1>1, <1>2, <1>4 DEF IInv, PhaseInv, Passed, Loading
  <2> QED
    BY <1>1, <1>2, <2>1 DEF IInv, PhaseInv, Loading
<1>6. LoadInv'
  <2>1. /\ db[phase] = stored /\ logs[mode][phase].run = run
        /\ logs[mode][phase].totals = {announced[u] : u \in {v \in Tids : announced[v] # -1}}
        /\ \A k \in stored : k[2] \in 1 .. tried[k[1]]
    BY <1>1 DEF IInv, LoadInv, Loading
  <2>2. {announced'[u] : u \in {v \in Tids : announced'[v] # -1}}
        = {announced[u] : u \in {v \in Tids : announced[v] # -1}} \cup {own}
    BY <1>2, <1>3, AnnounceIs DEF own
  <2>3. \A u \in Tids : StoredOf(u)' = StoredOf(u)
    BY AnnounceIs DEF StoredOf
  <2>4. \A u \in Tids :
           /\ tried[u] <= Share(phase)[u]
           /\ announced'[u] # -1 =>
                 tried[u] = Share(phase)[u] /\ announced'[u] = Cardinality(StoredOf(u))
    <3>1. SUFFICES ASSUME NEW u \in Tids
                   PROVE  /\ tried[u] <= Share(phase)[u]
                          /\ announced'[u] # -1 =>
                               /\ tried[u] = Share(phase)[u]
                               /\ announced'[u] = Cardinality(StoredOf(u))
      OBVIOUS
    <3>2. /\ tried[u] <= Share(phase)[u]
          /\ announced[u] # -1 =>
                tried[u] = Share(phase)[u] /\ announced[u] = Cardinality(StoredOf(u))
      BY <1>1 DEF IInv, LoadInv, Loading
    <3> QED
      BY <1>2, <1>3, <3>2, AnnounceIs DEF own
  <2> QED
    BY <1>1, <1>4, <2>1, <2>2, <2>3, <2>4, AnnounceIs DEF LoadInv, Loading
<1>7. LogInv'
  BY <1>1 DEF IInv, LogInv, Loading
<1>8. SavedIsComplete'
  BY <1>1 DEF IInv, SavedIsComplete
<1> QED
  BY <1>1, <1>5, <1>6, <1>7, <1>8, Continues
LEMMA PipelineEndsStep == ASSUME IInv, NEW ok \in BOOLEAN, PipelineEnds(ok) PROVE Rest'
<1>1. /\ pc = "load" /\ mode' = mode /\ phase' = phase /\ run' = run /\ db' = db
      /\ dbLog' = dbLog /\ logs' = logs /\ saved' = saved /\ tried' = tried
      /\ stored' = stored /\ announced' = announced /\ complete \subseteq complete'
      /\ (\A p \in 1 .. 2 : db[p] = AllKeys(p)) => run \in complete'
  BY DEF PipelineEnds, bench, disk
<1>2. CASE pc' = "idle"
  BY <1>1, <1>2, Leaves DEF IInv, PipelineEnds, Exit
<1>3. CASE pc' = "total"
  <2>1. verdict' = "none" /\ run > 0 /\ \A t \in Tids : announced[t] # -1
    BY <1>1, <1>3 DEF IInv, PhaseInv, PipelineEnds, Exit
  <2>2. phase = 2 => Passed(1)'
    BY <1>1 DEF IInv, PhaseInv, Passed, Loading
  <2>3. PhaseInv'
    BY <1>1, <1>3, <2>1, <2>2 DEF IInv, TypeOK, PhaseInv, Loading
  <2>4. LoadInv'
    BY <1>1, <1>3, <2>1 DEF IInv, LoadInv, Loading, StoredOf
  <2>5. LogInv'
    BY <1>1, <1>3 DEF IInv, LogInv, Loading
  <2>6. SavedIsComplete'
    BY <1>1 DEF IInv, SavedIsComplete
  <2> QED
    BY <1>3, <2>3, <2>4, <2>5, <2>6, Continues
<1> QED
  BY <1>2, <1>3 DEF PipelineEnds, Exit

LEMMA GrepTotalStep == ASSUME IInv, GrepTotal PROVE Rest'
<1>1. /\ pc = "total" /\ mode' = mode /\ phase' = phase /\ run' = run /\ db' = db
      /\ dbLog' = dbLog /\ logs' = logs /\ saved' = saved /\ tried' = tried
      /\ stored' = stored /\ announced' = announced /\ complete' = complete
  BY DEF GrepTotal, bench, disk
<1>2. CASE pc' = "idle"
  BY <1>1, <1>2, Leaves DEF IInv, GrepTotal, Exit
<1>3. CASE pc' = "errors"
  <2>1. verdict' = "none" /\ run > 0 /\ Num[phase] \in logs[mode][phase].totals
    BY <1>1, <1>3 DEF IInv, PhaseInv, GrepTotal, Exit
  <2>2. phase = 2 => Passed(1)'
    BY <1>1 DEF IInv, PhaseInv, Passed, Loading
  <2>3. db[phase] = AllKeys(phase)
    BY <1>1, <2>1, WholeLoad DEF IInv, LoadInv, Loading
  <2>4. PhaseInv'
    BY <1>1, <1>3, <2>1, <2>2, <2>3 DEF IInv, TypeOK, PhaseInv, Loading
  <2>5. LoadInv'
    BY <1>1, <1>3 DEF IInv, LoadInv, Loading, StoredOf
  <2>6. LogInv'
    BY <1>1, <1>3 DEF IInv, LogInv, Loading
  <2>7. SavedIsComplete'
    BY <1>1 DEF IInv, SavedIsComplete
  <2> QED
    BY <1>3, <2>4, <2>5, <2>6, <2>7, Continues
<1> QED
  BY <1>2, <1>3 DEF GrepTotal, Exit

LEMMA GrepErrorsStep == ASSUME IInv, GrepErrors PROVE Rest'
<1>1. /\ pc = "errors" /\ mode' = mode /\ run' = run /\ db' = db
      /\ dbLog' = dbLog /\ logs' = logs /\ saved' = saved /\ complete' = complete
  BY DEF GrepErrors, bench, disk
<1>2. /\ phase \in 1 .. 2 /\ verdict = "none" /\ run > 0
      /\ db[phase] = AllKeys(phase) /\ logs[mode][phase].run = run
      /\ Num[phase] \in logs[mode][phase].totals
      /\ IF phase = 1 THEN db[2] = {} ELSE Passed(1)
      /\ dbLog = [run |-> run, phase |-> phase]
      /\ (\A p \in 1 .. 2 : db[p] = AllKeys(p)) => run \in complete
  BY <1>1 DEF IInv, TypeOK, PhaseInv, LoadInv, LogInv, Loading
<1>3. SavedIsComplete'
  BY <1>1 DEF IInv, SavedIsComplete
<1>4. CASE pc' = "idle"
  BY <1>1, <1>4, Leaves DEF IInv, GrepErrors, Exit
<1>5. CASE pc' # "idle"
  <2>1. verdict' = "none" /\ ~logs[mode][phase].errors
    BY <1>2, <1>5 DEF GrepErrors, Exit
  <2>2. Passed(phase)
    BY <1>2, <2>1 DEF Passed
  <2>3. \A p \in 1 .. 2 : Passed(p) => Passed(p)'
    BY <1>1 DEF Passed
  <2>4. CASE phase = 1
    <3>1. pc' = "start" /\ phase' = 2 /\ Passed(1)' /\ db'[2] = {}
      BY <1>1, <1>2, <1>5, <2>2, <2>3, <2>4 DEF GrepErrors, Exit
    <3>2. PhaseInv' /\ LoadInv' /\ LogInv'
      BY <1>1, <1>2, <2>1, <3>1 DEF PhaseInv, LoadInv, LogInv, Loading
    <3> QED
      BY <1>3, <1>5, <3>2, Continues
  <2>5. CASE phase = 2
    <3>1. pc' = "copy" /\ phase' = 2 /\ Passed(1)' /\ Passed(2)'
      BY <1>1, <1>2, <1>5, <2>2, <2>3, <2>5 DEF GrepErrors, Exit
    <3>2. PhaseInv' /\ LoadInv'
      BY <1>1, <1>2, <2>1, <3>1 DEF PhaseInv, LoadInv, Loading
    <3>3. LogInv'
      BY <1>1, <1>2, <2>5, <3>1 DEF LogInv, Loading
    <3> QED
      BY <1>3, <1>5, <3>2, <3>3, Continues
  <2> QED
    BY <1>2, <2>4, <2>5
<1> QED
  BY <1>4, <1>5

LEMMA CopyLogStep == ASSUME IInv, NEW ok \in BOOLEAN, CopyLog(ok) PROVE Rest'
<1>1. /\ pc = "copy" /\ mode' = mode /\ phase' = phase /\ run' = run /\ db' = db
      /\ dbLog' = dbLog /\ logs' = logs /\ complete' = complete
  BY DEF CopyLog, bench
<1>2. /\ phase = 2 /\ verdict = "none" /\ run > 0 /\ run \in Nat /\ mode \in Modes
      /\ Passed(1) /\ Passed(2) /\ dbLog = [run |-> run, phase |-> 2]
  BY <1>1 DEF IInv, TypeOK, PhaseInv, LogInv
<1>3. run \in complete
  <2>1. \A p \in 1 .. 2 : db[p] = AllKeys(p)
    BY <1>2 DEF Passed
  <2> QED
    BY <1>1, <2>1 DEF IInv, LogInv
<1>4. dbLog # NoLOG
  BY <1>2 DEF NoLOG
<1>5. /\ saved' = [saved EXCEPT ![mode] =
                      [run |-> dbLog.run, phase |-> dbLog.phase, whole |-> ok]]
      /\ pc' = "copied" /\ verdict' = verdict
  BY <1>4 DEF CopyLog
<1>6. saved'[mode].run = run /\ saved'[mode].phase = 2
      /\ \A m \in Modes : m # mode => saved'[m] = saved[m]
  BY <1>2, <1>5 DEF IInv, TypeOK
<1>7. SavedIsComplete'
  BY <1>1, <1>3, <1>6 DEF IInv, SavedIsComplete, NoSave
<1>8. Passed(1)' /\ Passed(2)'
  BY <1>1, <1>2 DEF Passed
<1>9. PhaseInv' /\ LoadInv'
  BY <1>1, <1>2, <1>5, <1>8 DEF PhaseInv, LoadInv, Loading
<1>10. LogInv'
  BY <1>1, <1>2, <1>3, <1>5, <1>6 DEF LogInv, Loading
<1> QED
  BY <1>5, <1>7, <1>9, <1>10, Continues

LEMMA FinishStep == ASSUME IInv, Finish PROVE Rest'
<1>1. /\ pc = "copied" /\ pc' = "idle" /\ mode' = mode /\ phase' = phase /\ run' = run
      /\ db' = db /\ logs' = logs /\ saved' = saved /\ complete' = complete
  BY DEF Finish, Exit, bench, disk
<1>2. CASE verdict' # "ok"
  BY <1>1, <1>2, Leaves DEF IInv
<1>3. CASE verdict' = "ok"
  <2>1. /\ saved[mode].whole /\ mode \in Modes /\ Passed(1) /\ Passed(2)
        /\ saved[mode].run = run /\ saved[mode].phase = 2
    BY <1>1, <1>3 DEF IInv, TypeOK, PhaseInv, LogInv, Finish, Exit
  <2>2. AcceptedIsLoaded'
    BY <1>1, <2>1 DEF AcceptedIsLoaded, Passed
  <2>3. saved[mode] = [run |-> run, phase |-> 2, whole |-> TRUE]
    <3>1. saved[mode] \in [run : 0 .. MaxRuns, phase : 0 .. 2, whole : BOOLEAN]
      BY <2>1 DEF IInv, TypeOK
    <3> QED
      BY <2>1, <3>1
  <2>4. AcceptedIsTogether'
    BY <1>1, <2>1, <2>3 DEF AcceptedIsTogether, Passed
  <2>5. PhaseInv' /\ LoadInv' /\ LogInv'
    BY <1>1 DEF PhaseInv, LoadInv, LogInv, Loading
  <2>6. SavedIsComplete'
    BY <1>1 DEF IInv, SavedIsComplete
  <2> QED
    BY <2>2, <2>4, <2>5, <2>6 DEF Rest
<1> QED
  BY <1>2, <1>3

LEMMA KillStep == ASSUME IInv, Kill PROVE Rest'
BY Leaves DEF IInv, Kill, Exit, bench, disk

LEMMA StutterStep == ASSUME IInv, UNCHANGED vars PROVE Rest'
BY DEF IInv, Rest, PhaseInv, Passed, LoadInv, StoredOf, NewLog, LogInv, Loading,
       AcceptedIsLoaded, AcceptedIsTogether, SavedIsComplete, vars, bench, disk

------------------------------------------------------------------------------
\* The theorems.

LEMMA RestInit == Init => Rest
BY DEF Init, Rest, PhaseInv, LoadInv, LogInv, Loading, AcceptedIsLoaded,
       AcceptedIsTogether, SavedIsComplete, NoSave

\* The invariant that the others follow from: what the database, the logs and
\* the copies hold at each point of the script, whatever was there before.
THEOREM TwoPhaseInvariance == Spec => []IInv
<1>1. Init => IInv
  BY TypeInit, RestInit DEF IInv, Rest
<1>2. IInv /\ [Next]_vars => IInv'
  <2> SUFFICES ASSUME IInv, [Next]_vars PROVE IInv'
    OBVIOUS
  <2>1. TypeOK'
    BY TypeStep DEF IInv
  <2>2. Rest'
    BY BeginStep, GuardsStep, EraseStep, StartPhaseStep, OpenStep, TryStep, AnnounceStep,
       PipelineEndsStep, GrepTotalStep, GrepErrorsStep, CopyLogStep, FinishStep, KillStep,
       StutterStep, Zenon DEF Next
  <2> QED
    BY <2>1, <2>2 DEF IInv, Rest
<1> QED
  BY <1>1, <1>2, PTL DEF Spec

\* Every variable keeps its type.
THEOREM TwoPhaseTypeCorrect == Spec => []TypeOK
BY TwoPhaseInvariance, PTL DEF IInv

\* run_two_phase.sh ends well only when every write of both phases is in the
\* database.
THEOREM AcceptedRunsAreLoaded == Spec => []AcceptedIsLoaded
BY TwoPhaseInvariance, PTL DEF IInv

\* run_two_phase.sh ends well only when the two logs and rocksdb.LOG of its
\* directory are of this run.
THEOREM AcceptedFilesAreTogether == Spec => []AcceptedIsTogether
BY TwoPhaseInvariance, PTL DEF IInv

\* A rocksdb.LOG is only copied from a run that stored both phases.
THEOREM SavedLogsAreComplete == Spec => []SavedIsComplete
BY TwoPhaseInvariance, PTL DEF IInv
------------------------------------------------------------------------------
\* One worker.

LEMMA OneWorker ==
    ASSUME Threads = 1, NEW p \in 1 .. 2
    PROVE  AllKeys(p) = Own(p, 0) /\ Tids = {0} /\ Share(p)[0] = Num[p]
<1>1. Tids = {0}
  BY DEF Tids
<1>2. AllKeys(p) = Own(p, 0)
  BY <1>1 DEF AllKeys, Own
<1>3. Share(p)[0] = (Num[p] \div Threads) + (Num[p] % Threads)
  <2>1. 0 \in Tids /\ 0 = Threads - 1
    BY <1>1
  <2>2. Share(p)[0] = Num[p] \div Threads
                          + (IF 0 = Threads - 1 THEN Num[p] % Threads ELSE 0)
    BY <2>1, Zenon DEF Share
  <2> QED
    BY <2>1, <2>2
<1>4. Num[p] \in Nat
  BY NumAssumption
<1>5. (Num[p] \div Threads) + (Num[p] % Threads) = Num[p]
  <2>1. \A a \in Nat, b \in Nat \ {0} :
           a \div b \in Nat /\ a % b \in Nat /\ a = b * (a \div b) + (a % b)
    OBVIOUS
  <2>2. /\ Num[p] \div Threads \in Nat /\ Num[p] % Threads \in Nat
        /\ Num[p] = Threads * (Num[p] \div Threads) + (Num[p] % Threads)
    BY <1>4, <2>1, ThreadsAssumption
  <2>3. \A q \in Nat : 1 * q = q
    OBVIOUS
  <2> QED
    BY <2>2, <2>3
<1> QED
  BY <1>1, <1>2, <1>3, <1>5

\* A total line of one worker that has stored everything is the one looked for.
LEMMA WholeTotal ==
    ASSUME IInv, Threads = 1, pc = "total", db[phase] = AllKeys(phase)
    PROVE  Num[phase] \in logs[mode][phase].totals
<1>1. phase \in 1 .. 2 /\ pc \in Loading
  BY DEF IInv, TypeOK, Loading
<1>2. /\ stored = Own(phase, 0) /\ Tids = {0} /\ announced[0] # -1
      /\ logs[mode][phase].totals = {announced[t] : t \in {u \in Tids : announced[u] # -1}}
      /\ announced[0] = Cardinality(StoredOf(0))
  BY <1>1, OneWorker DEF IInv, LoadInv
<1>3. StoredOf(0) = Own(phase, 0)
  BY <1>2 DEF StoredOf, Own
<1>4. Cardinality(Own(phase, 0)) = Num[phase]
  <2>1. Share(phase)[0] = Num[phase] /\ Num[phase] \in Nat
    BY <1>1, OneWorker, NumAssumption
  <2>2. IsFiniteSet({0}) /\ Cardinality({0}) = 1
    BY FS_Singleton
  <2>3. IsFiniteSet(1 .. Num[phase]) /\ Cardinality(1 .. Num[phase]) = Num[phase]
    <3>1. \A n \in Nat : IsFiniteSet(1 .. n) /\ Cardinality(1 .. n) = n
      BY FS_Interval
    <3> QED
      BY <2>1, <3>1
  <2>4. Cardinality(Own(phase, 0)) = 1 * Num[phase]
    BY <2>1, <2>2, <2>3, FS_Product DEF Own
  <2> QED
    BY <2>1, <2>4
<1> QED
  BY <1>2, <1>3, <1>4

\* With one worker, "did not complete" is only printed of a phase that did not.
THEOREM RejectionsAreRight ==
    ASSUME Threads = 1
    PROVE  Spec => []RejectionIsRight
<1>1. Init => RejectionIsRight
  BY DEF Init, RejectionIsRight
<1>2. IInv /\ RejectionIsRight /\ [Next]_vars => RejectionIsRight'
  <2> SUFFICES ASSUME IInv, RejectionIsRight, [Next]_vars, verdict' = "incomplete"
               PROVE  db'[phase'] # AllKeys(phase)'
    BY DEF RejectionIsRight
  <2>1. CASE GrepTotal
    <3>1. pc = "total" /\ db' = db /\ phase' = phase /\ verdict = "none"
          /\ Num[phase] \notin logs[mode][phase].totals
      BY <2>1 DEF IInv, PhaseInv, GrepTotal, Exit, disk
    <3>2. db[phase] # AllKeys(phase)
      BY <3>1, WholeTotal
    <3> QED
      BY <3>1, <3>2
  <2>2. CASE UNCHANGED vars
    BY <2>2 DEF RejectionIsRight, vars, disk
  <2>3. CASE Next /\ ~GrepTotal
    <3>1. pc # "idle" => verdict = "none"
      BY DEF IInv, PhaseInv
    <3> QED
      BY <2>3, <3>1 DEF Next, Begin, Guards, Erase, StartPhase, Open, Try, Announce,
         PipelineEnds, GrepErrors, CopyLog, Finish, Kill, Exit
  <2> QED
    BY <2>1, <2>2, <2>3
<1> QED
  BY <1>1, <1>2, TwoPhaseInvariance, PTL DEF Spec
------------------------------------------------------------------------------
\* The script takes the steps of Acceptance.

Current == IF pc = "idle" THEN NoMode ELSE mode
Files == [m \in Modes |-> [f \in 1 .. 3 |-> FileOf(m, f)]]
Outcome == IF verdict \in {"none", "ok"} THEN verdict ELSE "fail"

LEMMA AcceptanceInit == Init => Wrapper!Init
<1> SUFFICES ASSUME Init PROVE Wrapper!Init
  OBVIOUS
<1>1. Current = NoMode /\ run = 0 /\ Outcome = "none"
  BY DEF Init, Current, Outcome
<1>2. \A m \in Modes, f \in 1 .. 2 : logs[m][f] = NoLog
  BY DEF Init
<1>3. \A m \in Modes : saved[m] = NoSave
  BY DEF Init
<1>4. NoLog.run = 0 /\ NoLog.totals = {} /\ NoSave.run = 0 /\ NoSave.whole = FALSE
  BY DEF NoLog, NoSave
<1>5. ASSUME NEW m \in Modes, NEW f \in 1 .. 3
      PROVE  FileOf(m, f) = [run |-> 0, whole |-> FALSE]
  <2>1. CASE f = 3
    BY <1>3, <1>4, <2>1, Zenon DEF FileOf
  <2>2. CASE f # 3
    <3>1. f \in 1 .. 2
      BY <2>2
    <3>2. logs[m][f].run = 0 /\ logs[m][f].totals = {}
      BY <1>2, <1>4, <3>1
    <3>3. (Num[f] \in logs[m][f].totals /\ ~logs[m][f].errors) = FALSE
      BY <3>2
    <3> QED
      BY <2>2, <3>2, <3>3, Zenon DEF FileOf
  <2> QED
    BY <2>1, <2>2
<1>6. Files = [m \in Modes |-> [f \in 1 .. 3 |-> [run |-> 0, whole |-> FALSE]]]
  BY <1>5, Zenon DEF Files
<1> QED
  BY <1>1, <1>6, Zenon DEF Wrapper!Init, Wrapper!Missing, Files, Current, Outcome

\* Nothing that Acceptance sees changes.
LEMMA SameFiles ==
    ASSUME logs' = logs, saved' = saved
    PROVE  Files' = Files /\ \A m, f : FileOf(m, f)' = FileOf(m, f)
BY DEF Files, FileOf

LEMMA Unseen ==
    ASSUME pc # "idle", pc' # "idle", mode' = mode, run' = run, verdict' = verdict,
           logs' = logs, saved' = saved
    PROVE  UNCHANGED Wrapper!vars
BY SameFiles DEF Wrapper!vars, Files

\* A run in progress ends badly, and leaves the files.
LEMMA Rejected ==
    ASSUME IInv, pc # "idle", pc' = "idle", mode' = mode, run' = run,
           verdict' \notin {"none", "ok"}, logs' = logs, saved' = saved
    PROVE  Wrapper!Next
<1>1. mode \in Modes /\ mode # NoMode
  BY ModesAssumption DEF IInv, TypeOK
<1>2. Wrapper!Reject
  BY <1>1, SameFiles DEF Wrapper!Reject, Files
<1> QED
  BY <1>2 DEF Wrapper!Next, Wrapper!Proceed

\* A run in progress replaces one file, and those ahead of it are whole.
LEMMA Replaced ==
    ASSUME IInv, pc # "idle", pc' # "idle", mode' = mode, run' = run, verdict' = verdict,
           NEW f \in 1 .. 3, NEW whole \in BOOLEAN,
           FileOf(mode, f)' = [run |-> run, whole |-> whole],
           \A m \in Modes, g \in 1 .. 3 :
               (m # mode \/ g # f) => FileOf(m, g)' = FileOf(m, g),
           \A g \in 1 .. f - 1 : FileOf(mode, g) = [run |-> run, whole |-> TRUE]
    PROVE  Wrapper!Next
<1>1. mode \in Modes /\ mode # NoMode
  BY ModesAssumption DEF IInv, TypeOK
<1>2. \A g \in 1 .. f - 1 : g \in 1 .. 3
  OBVIOUS
<1>3. \A g \in 1 .. f - 1 : Files[mode][g] = [run |-> run, whole |-> TRUE]
  BY <1>1, <1>2 DEF Files
<1>4. Files' = [Files EXCEPT ![mode][f] = [run |-> run, whole |-> whole]]
  BY <1>1 DEF Files
<1>5. Wrapper!Replace(f, whole)
  BY <1>1, <1>3, <1>4 DEF Wrapper!Replace, Wrapper!Fresh, Files
<1> QED
  BY <1>5 DEF Wrapper!Next, Wrapper!Proceed

\* The log of a phase that passed is whole.
LEMMA PassedIsWhole ==
    ASSUME NEW p \in 1 .. 2, Passed(p)
    PROVE  FileOf(mode, p) = [run |-> run, whole |-> TRUE]
<1>1. p # 3
  OBVIOUS
<1>2. (Num[p] \in logs[mode][p].totals /\ ~logs[mode][p].errors) = TRUE
  BY DEF Passed
<1>3. logs[mode][p].run = run
  BY DEF Passed
<1> QED
  BY <1>1, <1>2, <1>3, Zenon DEF FileOf

\* The log of the phase in progress is the file that grows.
LEMMA LogReplaced ==
    ASSUME IInv, pc \in {"start", "load"}, pc' # "idle", mode' = mode, run' = run,
           verdict' = verdict, saved' = saved, NEW log, log.run = run,
           logs' = [logs EXCEPT ![mode][phase] = log]
    PROVE  Wrapper!Next
<1>0. PICK p \in 1 .. 2 : p = phase
  BY DEF IInv, TypeOK
<1> DEFINE whole == Num[p] \in log.totals /\ ~log.errors
<1>1. /\ mode \in Modes /\ phase \in 1 .. 2 /\ pc # "idle"
      /\ logs \in [Modes -> [1 .. 2 -> [run : 0 .. MaxRuns, totals : SUBSET Nat,
                                        errors : BOOLEAN]]]
  BY DEF IInv, TypeOK
<1>2. logs'[mode][phase] = log
      /\ \A m \in Modes, g \in 1 .. 2 :
            (m # mode \/ g # phase) => logs'[m][g] = logs[m][g]
  BY <1>1
<1>3. FileOf(mode, p)' = [run |-> run, whole |-> whole]
  <2>1. p # 3 /\ mode' = mode /\ logs'[mode][p] = log
    BY <1>0, <1>1, <1>2
  <2> QED
    BY <2>1, Zenon DEF FileOf
<1>4. \A m \in Modes, g \in 1 .. 3 :
         (m # mode \/ g # p) => FileOf(m, g)' = FileOf(m, g)
  BY <1>0, <1>2 DEF FileOf
<1>5. \A g \in 1 .. p - 1 : FileOf(mode, g) = [run |-> run, whole |-> TRUE]
  <2>1. phase = 2 => Passed(1)
    BY DEF IInv, PhaseInv, Loading
  <2>2. CASE p = 1
    BY <2>2
  <2>3. CASE p = 2
    <3>1. FileOf(mode, 1) = [run |-> run, whole |-> TRUE]
      BY <1>0, <2>1, <2>3, PassedIsWhole
    <3>2. \A g \in 1 .. p - 1 : g = 1
      BY <2>3
    <3> QED
      BY <3>1, <3>2
  <2> QED
    BY <1>1, <2>2, <2>3
<1>6. whole \in BOOLEAN /\ p \in 1 .. 3
  BY <1>1
<1> HIDE DEF whole
<1> QED
  BY <1>1, <1>3, <1>4, <1>5, <1>6, Replaced, Zenon

LEMMA AcceptanceStep == IInv /\ [Next]_vars => [Wrapper!Next]_(Wrapper!vars)
<1> SUFFICES ASSUME IInv, [Next]_vars PROVE [Wrapper!Next]_(Wrapper!vars)
  OBVIOUS
<1>0. pc # "idle" => verdict = "none"
  BY DEF IInv, PhaseInv
<1>1. CASE \E m \in Modes : Begin(m)
  <2>1. PICK m \in Modes : Begin(m)
    BY <1>1
  <2>2. Wrapper!Begin(m)
    BY <2>1, SameFiles DEF Begin, disk, Wrapper!Begin, Files
  <2> QED
    BY <2>2 DEF Wrapper!Next
<1>2. CASE \E ok \in BOOLEAN : Guards(ok)
  BY <1>2, Unseen, Rejected DEF Guards, Exit, disk
<1>3. CASE \E ok \in BOOLEAN : Erase(ok)
  BY <1>3, Unseen, Rejected DEF Erase, Exit
<1>4. CASE \E ok \in BOOLEAN : StartPhase(ok)
  <2>1. CASE pc' = "idle"
    BY <1>4, <2>1, Rejected DEF StartPhase, Exit
  <2>2. CASE pc' = "open"
    <3>1. NewLog.run = run
      BY DEF NewLog
    <3>2. logs' = [logs EXCEPT ![mode][phase] = NewLog]
      BY <1>4, <2>2 DEF StartPhase, Exit
    <3> QED
      BY <1>4, <2>2, <3>1, <3>2, LogReplaced DEF StartPhase, Exit
  <2> QED
    BY <1>4, <2>1, <2>2 DEF StartPhase, Exit
<1>5. CASE \E ok \in BOOLEAN : Open(ok)
  BY <1>5, Unseen, Rejected DEF Open, Exit
<1>6. CASE \E t \in Tids : \E n \in 1 .. MaxGroup : Try(t, n)
  <2> DEFINE log == [logs[mode][phase] EXCEPT !.errors = TRUE]
  <2>1. pc = "load" /\ pc' = "load" /\ mode' = mode /\ run' = run /\ verdict' = verdict
        /\ saved' = saved /\ (logs' = logs \/ logs' = [logs EXCEPT ![mode][phase] = log])
    BY <1>6, Zenon DEF Try
  <2>2. log.run = run
    <3>1. logs[mode][phase] \in [run : 0 .. MaxRuns, totals : SUBSET Nat, errors : BOOLEAN]
          /\ logs[mode][phase].run = run
      BY <2>1 DEF IInv, TypeOK, LoadInv, Loading
    <3>2. \A r \in [run : 0 .. MaxRuns, totals : SUBSET Nat, errors : BOOLEAN] :
             [r EXCEPT !.errors = TRUE].run = r.run
      OBVIOUS
    <3> QED
      BY <3>1, <3>2
  <2> HIDE DEF log
  <2> QED
    BY <2>1, <2>2, Unseen, LogReplaced
<1>7. CASE \E t \in Tids : Announce(t)
  <2>1. PICK t \in Tids : Announce(t)
    BY <1>7
  <2> DEFINE log == [logs[mode][phase] EXCEPT !.totals = @ \cup {announced'[t]}]
  <2>2. pc = "load" /\ pc' = "load" /\ mode' = mode /\ run' = run /\ verdict' = verdict
        /\ saved' = saved /\ logs' = [logs EXCEPT ![mode][phase] = log]
    BY <2>1, Zenon DEF Announce
  <2>3. log.run = run
    <3>1. logs[mode][phase] \in [run : 0 .. MaxRuns, totals : SUBSET Nat, errors : BOOLEAN]
          /\ logs[mode][phase].run = run
      BY <2>2 DEF IInv, TypeOK, LoadInv, Loading
    <3>2. \A x : \A r \in [run : 0 .. MaxRuns, totals : SUBSET Nat, errors : BOOLEAN] :
             [r EXCEPT !.totals = @ \cup {x}].run = r.run
      OBVIOUS
    <3> QED
      BY <3>1, <3>2
  <2> HIDE DEF log
  <2> QED
    BY <2>2, <2>3, LogReplaced
<1>8. CASE \E ok \in BOOLEAN : PipelineEnds(ok)
  BY <1>8, Unseen, Rejected DEF PipelineEnds, Exit, disk
<1>9. CASE GrepTotal
  BY <1>9, Unseen, Rejected DEF GrepTotal, Exit, disk
<1>10. CASE GrepErrors
  BY <1>10, Unseen, Rejected DEF GrepErrors, Exit, disk
<1>11. CASE \E ok \in BOOLEAN : CopyLog(ok)
  <2>1. PICK ok \in BOOLEAN : CopyLog(ok)
    BY <1>11
  <2>2. /\ pc = "copy" /\ mode' = mode /\ run' = run /\ logs' = logs
        /\ mode \in Modes /\ Passed(1) /\ Passed(2)
        /\ dbLog = [run |-> run, phase |-> 2]
    BY <2>1 DEF CopyLog, IInv, TypeOK, PhaseInv, LogInv
  <2>3. dbLog # NoLOG
    BY <2>2 DEF NoLOG
  <2>4. pc' = "copied" /\ verdict' = verdict
        /\ saved' = [saved EXCEPT ![mode] = [run |-> run, phase |-> 2, whole |-> ok]]
    BY <2>1, <2>2, <2>3 DEF CopyLog
  <2>5. saved'[mode] = [run |-> run, phase |-> 2, whole |-> ok]
        /\ \A m \in Modes : m # mode => saved'[m] = saved[m]
    BY <2>2, <2>4 DEF IInv, TypeOK
  <2>6. FileOf(mode, 3)' = [run |-> run, whole |-> ok]
    BY <2>2, <2>5 DEF FileOf
  <2>7. \A m \in Modes, g \in 1 .. 3 :
           (m # mode \/ g # 3) => FileOf(m, g)' = FileOf(m, g)
    BY <2>2, <2>5 DEF FileOf
  <2>8. \A g \in 1 .. 3 - 1 : FileOf(mode, g) = [run |-> run, whole |-> TRUE]
    BY <2>2, PassedIsWhole
  <2>9. 3 \in 1 .. 3
    OBVIOUS
  <2> QED
    BY <2>2, <2>4, <2>6, <2>7, <2>8, <2>9, Replaced
<1>12. CASE Finish
  <2>1. /\ pc = "copied" /\ pc' = "idle" /\ mode' = mode /\ run' = run /\ logs' = logs
        /\ saved' = saved /\ verdict' = IF saved[mode].whole THEN "ok" ELSE "failed"
    BY <1>12 DEF Finish, Exit, disk
  <2>2. CASE ~saved[mode].whole
    BY <2>1, <2>2, Rejected
  <2>3. CASE saved[mode].whole
    <3>1. mode \in Modes /\ mode # NoMode /\ Passed(1) /\ Passed(2)
          /\ saved[mode].run = run
      BY <2>1, ModesAssumption DEF IInv, TypeOK, PhaseInv, LogInv
    <3>2. FileOf(mode, 3) = [run |-> run, whole |-> TRUE]
      BY <2>3, <3>1 DEF FileOf
    <3>3. \A f \in 1 .. 3 : FileOf(mode, f) = [run |-> run, whole |-> TRUE]
      BY <3>1, <3>2, PassedIsWhole
    <3>4. \A f \in 1 .. 3 : Files[mode][f] = [run |-> run, whole |-> TRUE]
      BY <3>1, <3>3 DEF Files
    <3>5. Wrapper!Accept
      BY <2>1, <2>3, <3>1, <3>4, SameFiles DEF Wrapper!Accept, Wrapper!Fresh, Files
    <3> QED
      BY <3>5 DEF Wrapper!Next, Wrapper!Proceed
  <2> QED
    BY <2>2, <2>3
<1>13. CASE Kill
  BY <1>13, Rejected DEF Kill, Exit, disk
<1>14. CASE UNCHANGED vars
  BY <1>14, SameFiles DEF vars, disk, Wrapper!vars, Files
<1> QED
  BY <1>1, <1>2, <1>3, <1>4, <1>5, <1>6, <1>7, <1>8, <1>9, <1>10, <1>11, <1>12, <1>13, <1>14
     DEF Next

\* run_two_phase.sh replaces the files of a results directory in order, none
\* before those ahead of it are whole, and accepts a run whose three are.
THEOREM AcceptanceRefinement == Spec => ImplementsAcceptance
BY AcceptanceInit, AcceptanceStep, TwoPhaseInvariance, PTL
   DEF Spec, ImplementsAcceptance, Wrapper!Spec

------------------------------------------------------------------------------
\* Why a run ends.

LEMMA StageIs ==
    ASSUME TypeOK
    PROVE  /\ Stage \in 0 .. 14 /\ (Stage = 0 <=> pc = "idle")
           /\ pc \in {"idle", "copied", "copy", "erase", "guards"} => Stage = StagesAfter[pc]
           /\ phase = 2 => Stage = StagesAfter[pc]
           /\ phase = 1 /\ pc \in {"start", "open", "load", "total", "errors"} =>
                Stage = StagesAfter[pc] + 5
<1>1. /\ pc \in {"idle", "guards", "erase", "start", "open", "load", "total",
                 "errors", "copy", "copied"}
      /\ phase \in 1 .. 2
  BY DEF TypeOK
<1>2. /\ StagesAfter["idle"] = 0 /\ StagesAfter["copied"] = 1 /\ StagesAfter["copy"] = 2
      /\ StagesAfter["errors"] = 3 /\ StagesAfter["total"] = 4 /\ StagesAfter["load"] = 5
      /\ StagesAfter["open"] = 6 /\ StagesAfter["start"] = 7 /\ StagesAfter["erase"] = 13
      /\ StagesAfter["guards"] = 14
  BY DEF StagesAfter
<1> QED
  BY <1>1, <1>2 DEF Stage, Loading

LEMMA StageIsNext ==
    (TypeOK => /\ Stage \in 0 .. 14
               /\ pc \in {"idle", "copied", "copy", "erase", "guards"} => Stage = StagesAfter[pc]
               /\ phase = 2 => Stage = StagesAfter[pc]
               /\ phase = 1 /\ pc \in {"start", "open", "load", "total", "errors"} =>
                    Stage = StagesAfter[pc] + 5)'
<1>1. TypeOK =>
        /\ Stage \in 0 .. 14
        /\ pc \in {"idle", "copied", "copy", "erase", "guards"} => Stage = StagesAfter[pc]
        /\ phase = 2 => Stage = StagesAfter[pc]
        /\ phase = 1 /\ pc \in {"start", "open", "load", "total", "errors"} =>
             Stage = StagesAfter[pc] + 5
  BY StageIs
<1> QED
  BY <1>1, PTL

\* What a worker has left of the load in progress is a number.
LEMMA KeysLeftType ==
    ASSUME TypeOK, LoadInv, pc \in Loading, NEW t \in Tids
    PROVE  KeysLeft(t) \in Nat
<1>1. /\ phase \in 1 .. 2 /\ tried[t] \in Nat /\ tried[t] <= Share(phase)[t]
  BY DEF TypeOK, LoadInv
<1>2. Share(phase)[t] \in Nat
  BY <1>1, ShareType
<1> QED
  BY <1>1, <1>2 DEF KeysLeft

\* The script leaves, from wherever it is.
LEMMA ExitForward ==
    ASSUME TypeOK, TypeOK', pc # "idle", pc' = "idle"
    PROVE  Stage' < Stage
<1>1. Stage' = 0
  BY StageIsNext DEF StagesAfter
<1> QED
  BY <1>1, StageIs

LEMMA StageForward ==
    ASSUME TypeOK, TypeOK', phase' = phase,
           \/ pc = "guards" /\ pc' = "erase"
           \/ pc = "start" /\ pc' = "open"
           \/ pc = "open" /\ pc' = "load"
           \/ pc = "load" /\ pc' = "total"
           \/ pc = "total" /\ pc' = "errors"
           \/ phase = 2 /\ pc = "errors" /\ pc' = "copy"
           \/ pc = "copy" /\ pc' = "copied"
    PROVE  Stage' < Stage
<1>1. phase \in 1 .. 2
  BY DEF TypeOK
<1>2. /\ StagesAfter["copied"] = 1 /\ StagesAfter["copy"] = 2
      /\ StagesAfter["errors"] = 3 /\ StagesAfter["total"] = 4 /\ StagesAfter["load"] = 5
      /\ StagesAfter["open"] = 6 /\ StagesAfter["start"] = 7 /\ StagesAfter["erase"] = 13
      /\ StagesAfter["guards"] = 14
  BY DEF StagesAfter
<1> QED
  BY <1>1, <1>2, StageIs, StageIsNext

\* In a load nobody is given more to do, and who takes a step has less.
LEMMA LoadForward ==
    ASSUME IInv, NEW t \in Tids,
           \/ \E n \in 1 .. MaxGroup : Try(t, n)
           \/ Announce(t)
    PROVE  /\ pc = "load" /\ Stage' = Stage
           /\ \A u \in Tids : KeysLeft(u)' <= KeysLeft(u)
           /\ KeysLeft(t)' < KeysLeft(t)
<1>1. pc = "load" /\ pc' = "load" /\ phase' = phase
  BY DEF Try, Announce
<1>2. Stage' = Stage
  BY <1>1 DEF Stage
<1>3. /\ phase \in 1 .. 2 /\ tried \in [Tids -> Nat] /\ announced \in [Tids -> Nat \cup {-1}]
      /\ Share(phase) \in [Tids -> Nat] /\ Share(phase)' = Share(phase)
      /\ \A u \in Tids : Cardinality(StoredOf(u)) \in Nat
  BY <1>1, ShareType, LoadType DEF IInv, TypeOK, Loading, Share
<1>4. ASSUME NEW n \in 1 .. MaxGroup, Try(t, n)
      PROVE  /\ \A u \in Tids : KeysLeft(u)' <= KeysLeft(u)
             /\ KeysLeft(t)' < KeysLeft(t)
  <2>1. tried' = [tried EXCEPT ![t] = @ + n] /\ announced' = announced
    BY <1>4, TryIs
  <2>2. n \in Nat /\ n > 0
    BY BoundsAssumption
  <2>3. KeysLeft(t)' < KeysLeft(t)
    BY <1>3, <2>1, <2>2 DEF KeysLeft
  <2>4. \A u \in Tids \ {t} : KeysLeft(u)' <= KeysLeft(u)
    BY <1>3, <2>1, <2>2 DEF KeysLeft
  <2>5. KeysLeft(t) \in Int /\ KeysLeft(t)' \in Int
    BY <1>3, <2>1, <2>2 DEF KeysLeft
  <2>6. KeysLeft(t)' <= KeysLeft(t)
    BY <2>3, <2>5
  <2>7. \A u \in Tids : KeysLeft(u)' <= KeysLeft(u)
    <3>1. TAKE u \in Tids
    <3>2. CASE u = t
      BY <3>2, <2>6
    <3>3. CASE u # t
      BY <3>3, <2>4
    <3> QED
      BY <3>2, <3>3
  <2> QED
    BY <2>3, <2>7
<1>5. ASSUME Announce(t)
      PROVE  /\ \A u \in Tids : KeysLeft(u)' <= KeysLeft(u)
             /\ KeysLeft(t)' < KeysLeft(t)
  <2>1. /\ announced[t] = -1 /\ tried' = tried
        /\ announced' = [announced EXCEPT ![t] = Cardinality(StoredOf(t))]
    BY <1>5, AnnounceIs
  <2>2. announced'[t] # -1 /\ \A u \in Tids \ {t} : announced'[u] = announced[u]
    BY <1>3, <2>1
  <2>3. KeysLeft(t)' < KeysLeft(t)
    BY <1>3, <2>1, <2>2 DEF KeysLeft
  <2>4. \A u \in Tids \ {t} : KeysLeft(u)' <= KeysLeft(u)
    BY <1>3, <2>1, <2>2 DEF KeysLeft
  <2>5. KeysLeft(t) \in Int /\ KeysLeft(t)' \in Int
    BY <1>3, <2>1, <2>2 DEF KeysLeft
  <2>6. KeysLeft(t)' <= KeysLeft(t)
    BY <2>3, <2>5
  <2>7. \A u \in Tids : KeysLeft(u)' <= KeysLeft(u)
    <3>1. TAKE u \in Tids
    <3>2. CASE u = t
      BY <3>2, <2>6
    <3>3. CASE u # t
      BY <3>3, <2>4
    <3> QED
      BY <3>2, <3>3
  <2> QED
    BY <2>3, <2>7
<1> QED
  BY <1>1, <1>2, <1>4, <1>5

LEMMA RunForward ==
    IInv /\ IInv' /\ [Next]_vars /\ ~UNCHANGED vars =>
        (pc # "idle" =>
          \/ Stage' < Stage
          \/ /\ pc = "load" /\ Stage' = Stage
             /\ \A t \in Tids : KeysLeft(t)' <= KeysLeft(t)
             /\ \E t \in Tids : KeysLeft(t)' < KeysLeft(t))
<1> SUFFICES ASSUME IInv, IInv', Next, pc # "idle"
             PROVE  \/ Stage' < Stage
                    \/ /\ pc = "load" /\ Stage' = Stage
                       /\ \A t \in Tids : KeysLeft(t)' <= KeysLeft(t)
                       /\ \E t \in Tids : KeysLeft(t)' < KeysLeft(t)
  OBVIOUS
<1>1. TypeOK /\ TypeOK' /\ phase \in 1 .. 2
  BY DEF IInv, TypeOK
<1>2. CASE \E t \in Tids : Announce(t) \/ \E n \in 1 .. MaxGroup : Try(t, n)
  BY <1>2, LoadForward
<1>3. CASE pc' = "idle"
  BY <1>1, <1>3, ExitForward
<1>4. CASE GrepErrors /\ pc' # "idle"
  <2>1. CASE phase = 1
    <3>1. pc = "errors" /\ pc' = "start" /\ phase' = 2
      BY <1>4, <2>1 DEF GrepErrors, Exit
    <3>2. StagesAfter["errors"] = 3 /\ StagesAfter["start"] = 7
      BY DEF StagesAfter
    <3> QED
      BY <1>1, <2>1, <3>1, <3>2, StageIs, StageIsNext
  <2>2. CASE phase = 2
    <3>1. pc = "errors" /\ pc' = "copy" /\ phase' = phase
      BY <1>4, <2>2 DEF GrepErrors, Exit
    <3> QED
      BY <1>1, <2>2, <3>1, StageForward
  <2> QED
    BY <1>1, <2>1, <2>2
<1>5. CASE (\E ok \in BOOLEAN : Erase(ok)) /\ pc' # "idle"
  <2>1. pc = "erase" /\ pc' = "start" /\ phase' = 1
    BY <1>5 DEF Erase, Exit
  <2>2. StagesAfter["erase"] = 13 /\ StagesAfter["start"] = 7
    BY DEF StagesAfter
  <2> QED
    BY <1>1, <2>1, <2>2, StageIs, StageIsNext
<1>6. CASE (\E ok \in BOOLEAN : Guards(ok) \/ StartPhase(ok) \/ Open(ok)) /\ pc' # "idle"
  <2>1. /\ phase' = phase
        /\ \/ pc = "guards" /\ pc' = "erase"
           \/ pc = "start" /\ pc' = "open"
           \/ pc = "open" /\ pc' = "load"
    BY <1>6 DEF Guards, StartPhase, Open, Exit
  <2> QED
    BY <1>1, <2>1, StageForward
<1>7. CASE /\ GrepTotal \/ \E ok \in BOOLEAN : PipelineEnds(ok) \/ CopyLog(ok)
           /\ pc' # "idle"
  <2>1. /\ phase' = phase
        /\ \/ pc = "load" /\ pc' = "total"
           \/ pc = "total" /\ pc' = "errors"
           \/ pc = "copy" /\ pc' = "copied"
    BY <1>7 DEF PipelineEnds, GrepTotal, CopyLog, Exit
  <2> QED
    BY <1>1, <2>1, StageForward
<1>8. CASE Finish \/ Kill \/ \E m \in Modes : Begin(m)
  BY <1>1, <1>3, <1>8 DEF Finish, Kill, Begin, Exit
<1> QED
  BY <1>2, <1>3, <1>4, <1>5, <1>6, <1>7, <1>8, Zenon DEF Next

\* A run of run_two_phase.sh has at most fourteen stages, and a load at most a
\* step for each key and one for each worker: nothing is ever done again.
THEOREM TwoPhaseGoesForward ==
    Spec => /\ RunsComeToAnEnd
            /\ [](/\ Stage \in 0 .. 14 /\ (Stage = 0 <=> pc = "idle")
                  /\ pc = "load" => \A t \in Tids : KeysLeft(t) \in Nat)
<1>1. IInv /\ IInv' /\ [Next]_vars =>
        [pc # "idle" =>
          \/ Stage' < Stage
          \/ /\ pc = "load" /\ Stage' = Stage
             /\ \A t \in Tids : KeysLeft(t)' <= KeysLeft(t)
             /\ \E t \in Tids : KeysLeft(t)' < KeysLeft(t)]_vars
  BY RunForward
<1>2. IInv => /\ Stage \in 0 .. 14 /\ (Stage = 0 <=> pc = "idle")
              /\ pc = "load" => \A t \in Tids : KeysLeft(t) \in Nat
  BY StageIs, KeysLeftType DEF IInv, Loading
<1> QED
  BY <1>1, <1>2, TwoPhaseInvariance, PTL DEF Spec, RunsComeToAnEnd

------------------------------------------------------------------------------
\* Several workers.

\* With a key for each of several workers, no total line is the whole count.
LEMMA NoWholeTotal ==
    ASSUME IInv, Threads > 1, phase = 1, Num[1] >= Threads, pc = "total"
    PROVE  Num[phase] \notin logs[mode][phase].totals
<1> SUFFICES ASSUME Num[phase] \in logs[mode][phase].totals PROVE FALSE
  OBVIOUS
<1>1. PICK t \in Tids : announced[t] # -1 /\ announced[t] = Num[phase]
  BY DEF IInv, LoadInv, Loading
<1>2. Num[phase] <= Share(phase)[t]
  <2>1. /\ announced[t] = Cardinality(StoredOf(t))
        /\ StoredOf(t) \in SUBSET Own(phase, t)
    BY <1>1, LoadType DEF IInv, LoadInv, Loading
  <2> QED
    BY <1>1, <2>1, OwnCardinality
<1>3. PICK u \in Tids : u # t
  <2>1. 0 \in Tids /\ 1 \in Tids
    BY ThreadsAssumption DEF Tids
  <2> QED
    BY <2>1
<1>4. Share(1)[u] = 0
  BY <1>2, <1>3, WholeShare
<1>5. Share(1)[u] >= Num[1] \div Threads
  <2>1. Num[1] \div Threads \in Nat /\ Num[1] % Threads \in Nat
    BY NumAssumption, ThreadsAssumption
  <2> QED
    BY <1>3, <2>1 DEF Share
<1>6. Num[1] \div Threads >= 1
  <2>1. \A a \in Nat, b \in Nat \ {0} : a >= b => a \div b >= 1
    OBVIOUS
  <2> QED
    BY <2>1, NumAssumption, ThreadsAssumption
<1> QED
  BY <1>4, <1>5, <1>6, NumAssumption, ThreadsAssumption

\* With several workers, and a key for each, run_two_phase.sh refuses every
\* run after its first phase, whatever the benchmark has stored.
THEOREM SeveralWorkersAreRefused ==
    ASSUME Threads > 1, Num[1] >= Threads
    PROVE  Spec => []NeverAccepted
<1>1. Init => BeforePhase2
  BY DEF Init, BeforePhase2, NeverAccepted
<1>2. IInv /\ BeforePhase2 /\ [Next]_vars => BeforePhase2'
  <2> SUFFICES ASSUME IInv, BeforePhase2, [Next]_vars PROVE BeforePhase2'
    OBVIOUS
  <2> USE DEF BeforePhase2, NeverAccepted, Exit
  <2>1. CASE GrepTotal
    BY <2>1, NoWholeTotal DEF GrepTotal
  <2>2. CASE GrepErrors \/ Finish \/ Kill \/ \E m \in Modes : Begin(m)
    BY <2>2 DEF GrepErrors, Finish, Kill, Begin
  <2>3. CASE \E ok \in BOOLEAN : Guards(ok) \/ Erase(ok) \/ StartPhase(ok) \/ Open(ok)
    BY <2>3 DEF Guards, Erase, StartPhase, Open
  <2>4. CASE \E ok \in BOOLEAN : PipelineEnds(ok) \/ CopyLog(ok)
    BY <2>4 DEF PipelineEnds, CopyLog
  <2>5. CASE \E t \in Tids : Announce(t) \/ \E n \in 1 .. MaxGroup : Try(t, n)
    BY <2>5 DEF Announce, Try
  <2>6. CASE UNCHANGED vars
    BY <2>6 DEF vars
  <2> QED
    BY <2>1, <2>2, <2>3, <2>4, <2>5, <2>6, Zenon DEF Next
<1>3. BeforePhase2 => NeverAccepted
  BY DEF BeforePhase2
<1> QED
  BY <1>1, <1>2, <1>3, TwoPhaseInvariance, PTL DEF Spec
==============================================================================
