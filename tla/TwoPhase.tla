------------------------------ MODULE TwoPhase ------------------------------
(***************************************************************************)
(* ae/run_two_phase.sh, run again and again: the guards, the erasure of    *)
(* the database, two phases of the benchmark with the output of each in a  *)
(* log of its own, the tests of that log, and the copy of the log of the   *)
(* database.  The write loop is its abstract specification BulkLoad.  Any  *)
(* command may fail and the script may be killed at any time; what is then *)
(* in the files is what the next run finds.  Each mode has an OUTPUT_DIR,  *)
(* as run_figure6.sh and run_gear.sh arrange.                              *)
(***************************************************************************)
EXTENDS Integers, FiniteSets

CONSTANTS Modes,    \* the modes that are run
          Num,      \* --num of phase 1 and of phase 2
          Threads,  \* WORKER_THREADS
          MaxGroup, \* the most keys in one write
          MaxRuns,  \* bound on the number of runs
          NoMode    \* no run

ASSUME NumAssumption == Num \in [1 .. 2 -> Nat \ {0}]
ASSUME ThreadsAssumption == Threads \in Nat \ {0}
ASSUME BoundsAssumption == MaxGroup \in Nat \ {0} /\ MaxRuns \in Nat
ASSUME ModesAssumption == NoMode \notin Modes

Tids == 0 .. Threads - 1

\* The keys of each worker: the last one takes the remainder.
Share(p) ==
    [t \in Tids |-> Num[p] \div Threads
                        + (IF t = Threads - 1 THEN Num[p] % Threads ELSE 0)]

VARIABLES pc,        \* where the script is
          mode,      \* $1, NoMode before the first run
          phase,     \* the phase of run_phase
          run,       \* the number of runs begun
          verdict,   \* how the last run ended, "none" during a run
          tried, stored, announced,  \* the benchmark's load, as in BulkLoad
          db,        \* the keys the database has accepted, per phase
          dbLog,     \* the run and the phase that wrote LOG in the database
          logs,      \* the log of each phase in each OUTPUT_DIR
          saved,     \* rocksdb.LOG in each OUTPUT_DIR
          complete   \* history: the runs that stored every key of both phases

bench == <<tried, stored, announced>>
disk == <<db, dbLog, logs, saved>>
vars == <<pc, mode, phase, run, verdict, bench, disk, complete>>

Load1 == INSTANCE BulkLoad WITH Workers <- Tids, Quota <- Share(1)
Load2 == INSTANCE BulkLoad WITH Workers <- Tids, Quota <- Share(2)

NoLOG == [run |-> 0, phase |-> 0]
NoSave == [run |-> 0, phase |-> 0, whole |-> FALSE]

\* What the tests look for in a log: whose it is, the counts of its total
\* lines, and whether there is an error line.
NewLog == [run |-> run, totals |-> {}, errors |-> FALSE]
NoLog == [run |-> 0, totals |-> {}, errors |-> FALSE]

AllKeys(p) == UNION {{t} \X (1 .. Share(p)[t]) : t \in Tids}

\* The script leaves by fail, by set -e or by its last line.
Exit(how) == pc' = "idle" /\ verdict' = how

------------------------------------------------------------------------------
Init ==
    /\ pc = "idle" /\ mode = NoMode /\ phase = 1 /\ run = 0 /\ verdict = "none"
    /\ Load1!Init
    /\ db = [p \in 1 .. 2 |-> {}] /\ dbLog = NoLOG
    /\ logs = [m \in Modes |-> [p \in 1 .. 2 |-> NoLog]]
    /\ saved = [m \in Modes |-> NoSave]
    /\ complete = {}

Begin(m) ==
    /\ pc = "idle" /\ run < MaxRuns
    /\ pc' = "guards" /\ mode' = m /\ run' = run + 1 /\ verdict' = "none"
    /\ UNCHANGED <<phase, bench, disk, complete>>

\* The thresholds, the benchmark, the key files, CONFIRM_ERASE_DB, preflight.
Guards(ok) ==
    /\ pc = "guards"
    /\ IF ok THEN pc' = "erase" /\ UNCHANGED verdict ELSE Exit("refused")
    /\ UNCHANGED <<mode, phase, run, bench, disk, complete>>

\* Mutant of Erase: go on with the phase in which the last run stopped.
EraseResume(ok) ==
    /\ pc = "erase"
    /\ IF ok THEN /\ db' = [db EXCEPT ![phase] = {}] /\ dbLog' = NoLOG
                  /\ pc' = "start" /\ UNCHANGED <<verdict, phase>>
             ELSE Exit("failed") /\ UNCHANGED <<phase, db, dbLog>>
    /\ UNCHANGED <<mode, run, bench, logs, saved, complete>>

\* mkdir -p "${OUTPUT_DIR}"; rm -rf "${FDP_DB_DIR:?}/"*, under set -e.  An
\* erasure that fails leaves nothing a later run could see: it erases again.
Erase(ok) ==
    /\ pc = "erase"
    /\ IF ok THEN /\ db' = [p \in 1 .. 2 |-> {}] /\ dbLog' = NoLOG
                  /\ pc' = "start" /\ phase' = 1 /\ UNCHANGED verdict
             ELSE Exit("failed") /\ UNCHANGED <<phase, db, dbLog>>
    /\ UNCHANGED <<mode, run, bench, logs, saved, complete>>

\* Mutant of StartPhase: each phase erases the database.
StartPhaseErase(ok) ==
    /\ pc = "start"
    /\ IF ok THEN /\ logs' = [logs EXCEPT ![mode][phase] = NewLog]
                  /\ pc' = "open" /\ UNCHANGED verdict
             ELSE Exit("failed") /\ UNCHANGED logs
    /\ db' = [p \in 1 .. 2 |-> {}]
    /\ UNCHANGED <<mode, phase, run, bench, dbLog, saved, complete>>

\* The pipeline starts: tee empties the log.  When tee cannot open it the
\* benchmark runs for nothing: pipefail ends the script after it.
StartPhase(ok) ==
    /\ pc = "start"
    /\ IF ok THEN /\ logs' = [logs EXCEPT ![mode][phase] = NewLog]
                  /\ pc' = "open" /\ UNCHANGED verdict
             ELSE Exit("failed") /\ UNCHANGED logs
    /\ UNCHANGED <<mode, phase, run, bench, db, dbLog, saved, complete>>

\* DB::Open writes a LOG; the benchmark exits with 1 when it fails, and the
\* pipeline with it.
Open(ok) ==
    /\ pc = "open"
    /\ dbLog' = [run |-> run, phase |-> phase] \/ (~ok /\ UNCHANGED dbLog)
    /\ IF ok THEN pc' = "load" /\ UNCHANGED verdict ELSE Exit("failed")
    /\ tried' = [t \in Tids |-> 0] /\ stored' = {}
    /\ announced' = [t \in Tids |-> -1]
    /\ UNCHANGED <<mode, phase, run, db, logs, saved, complete>>

\* A group of keys of worker t is stored, or lost with an error line.
Try(t, n) ==
    /\ pc = "load"
    /\ IF phase = 1 THEN Load1!Try(t, n) ELSE Load2!Try(t, n)
    /\ db' = [db EXCEPT ![phase] = @ \cup stored']
    /\ logs' = IF stored' = stored THEN [logs EXCEPT ![mode][phase].errors = TRUE] ELSE logs
    /\ UNCHANGED <<pc, mode, phase, run, verdict, dbLog, saved, complete>>

\* The total line of worker t.
Announce(t) ==
    /\ pc = "load"
    /\ IF phase = 1 THEN Load1!Announce(t) ELSE Load2!Announce(t)
    /\ logs' = [logs EXCEPT ![mode][phase].totals = @ \cup {announced'[t]}]
    /\ UNCHANGED <<pc, mode, phase, run, verdict, db, dbLog, saved, complete>>

\* The benchmark ends after its last total line, or is killed before; tee may
\* have failed to write.  pipefail and set -e take either for a failure.
PipelineEnds(ok) ==
    /\ pc = "load"
    /\ IF ok THEN /\ \A t \in Tids : announced[t] # -1
                  /\ pc' = "total" /\ UNCHANGED verdict
             ELSE Exit("failed")
    /\ complete' = IF \A p \in 1 .. 2 : db[p] = AllKeys(p)
                   THEN complete \cup {run} ELSE complete
    /\ UNCHANGED <<mode, phase, run, bench, disk>>

\* Mutant of GrepTotal: phase 2 is tested for the keys of both phases, which
\* its progress lines count.
GrepTotalWithBase ==
    /\ pc = "total"
    /\ IF (IF phase = 1 THEN Num[1] ELSE Num[1] + Num[2]) \in logs[mode][phase].totals
       THEN pc' = "errors" /\ UNCHANGED verdict
       ELSE Exit("incomplete")
    /\ UNCHANGED <<mode, phase, run, bench, disk, complete>>

\* grep -q "Total ${count} writes completed" "${log}" || fail
GrepTotal ==
    /\ pc = "total"
    /\ IF Num[phase] \in logs[mode][phase].totals
       THEN pc' = "errors" /\ UNCHANGED verdict
       ELSE Exit("incomplete")
    /\ UNCHANGED <<mode, phase, run, bench, disk, complete>>

\* Mutant of GrepErrors: the copy is not reached after phase 2.
GrepErrorsOneMore ==
    /\ pc = "errors"
    /\ IF logs[mode][phase].errors
       THEN Exit("erroneous") /\ UNCHANGED phase
       ELSE pc' = "start" /\ phase' = phase + 1 /\ UNCHANGED verdict
    /\ UNCHANGED <<mode, run, bench, disk, complete>>

\* The test for error lines, then phase 2 or the copy.
GrepErrors ==
    /\ pc = "errors"
    /\ IF logs[mode][phase].errors
       THEN Exit("erroneous") /\ UNCHANGED phase
       ELSE /\ IF phase = 1 THEN pc' = "start" /\ phase' = 2
                            ELSE pc' = "copy" /\ UNCHANGED phase
            /\ UNCHANGED verdict
    /\ UNCHANGED <<mode, run, bench, disk, complete>>

\* The LOG of the database is copied if it is there; cp may fail half-way.
CopyLog(ok) ==
    /\ pc = "copy"
    /\ IF dbLog = NoLOG
       THEN Exit("failed") /\ UNCHANGED saved
       ELSE /\ saved' = [saved EXCEPT ![mode] =
                            [run |-> dbLog.run, phase |-> dbLog.phase, whole |-> ok]]
            /\ pc' = "copied" /\ UNCHANGED verdict
    /\ UNCHANGED <<mode, phase, run, bench, db, dbLog, logs, complete>>

\* Mutant of Finish: cp without set -e.
FinishAnyway ==
    /\ pc = "copied"
    /\ Exit("ok")
    /\ UNCHANGED <<mode, phase, run, bench, disk, complete>>

\* The last line, or set -e when cp failed.
Finish ==
    /\ pc = "copied"
    /\ Exit(IF saved[mode].whole THEN "ok" ELSE "failed")
    /\ UNCHANGED <<mode, phase, run, bench, disk, complete>>

\* Mutant of Kill: the copy is made by a trap on EXIT.
KillSaves ==
    /\ pc # "idle"
    /\ Exit("killed")
    /\ saved' = IF dbLog = NoLOG THEN saved
                ELSE [saved EXCEPT ![mode] =
                         [run |-> dbLog.run, phase |-> dbLog.phase, whole |-> TRUE]]
    /\ UNCHANGED <<mode, phase, run, bench, db, dbLog, logs, complete>>

\* A signal ends the script and the benchmark.
Kill ==
    /\ pc # "idle"
    /\ Exit("killed")
    /\ UNCHANGED <<mode, phase, run, bench, disk, complete>>

Next ==
    \/ \E m \in Modes : Begin(m)
    \/ GrepTotal \/ GrepErrors \/ Finish \/ Kill
    \/ \E ok \in BOOLEAN :
        Guards(ok) \/ Erase(ok) \/ StartPhase(ok) \/ Open(ok) \/ PipelineEnds(ok)
            \/ CopyLog(ok)
    \/ \E t \in Tids : Announce(t) \/ \E n \in 1 .. MaxGroup : Try(t, n)

Spec == Init /\ [][Next]_vars

------------------------------------------------------------------------------
\* Properties.

TypeOK ==
    /\ pc \in {"idle", "guards", "erase", "start", "open", "load", "total",
               "errors", "copy", "copied"}
    /\ mode \in Modes \cup {NoMode} /\ (pc # "idle" => mode \in Modes)
    /\ phase \in 1 .. 2 /\ run \in 0 .. MaxRuns
    /\ verdict \in {"none", "ok", "refused", "failed", "incomplete", "erroneous",
                    "killed"}
    /\ db \in [1 .. 2 -> SUBSET (Tids \X Nat)]
    /\ stored \subseteq Tids \X Nat
    /\ tried \in [Tids -> Nat] /\ announced \in [Tids -> Nat \cup {-1}]
    /\ dbLog \in [run : 0 .. MaxRuns, phase : 0 .. 2]
    /\ logs \in [Modes -> [1 .. 2 -> [run : 0 .. MaxRuns, totals : SUBSET Nat,
                                      errors : BOOLEAN]]]
    /\ saved \in [Modes -> [run : 0 .. MaxRuns, phase : 0 .. 2, whole : BOOLEAN]]
    /\ complete \subseteq 1 .. MaxRuns

\* When the script ends well, the database has accepted every key of both
\* phases, whatever earlier runs left in the logs and in the directories.
AcceptedIsLoaded ==
    verdict = "ok" => \A p \in 1 .. 2 : db[p] = AllKeys(p)

\* When the script ends well, the three files of its results directory are
\* its own, and the LOG is the one of phase 2.
AcceptedIsTogether ==
    verdict = "ok" =>
        /\ \A p \in 1 .. 2 : logs[mode][p].run = run
        /\ saved[mode] = [run |-> run, phase |-> 2, whole |-> TRUE]

\* A rocksdb.LOG in a results directory, also one that an earlier run left
\* there, is the LOG of phase 2 of a run that stored everything: what the
\* lifetime thresholds are computed from.
SavedIsComplete ==
    \A m \in Modes :
        saved[m] # NoSave => saved[m].run \in complete /\ saved[m].phase = 2

\* "phase did not complete count writes" is printed only when that is so.
\* One worker: the total line of several is never the whole count.
RejectionIsRight ==
    verdict = "incomplete" => db[phase] # AllKeys(phase)

\* A file of a results directory, as Acceptance sees it: a log is whole when
\* it passes the tests.
FileOf(m, f) ==
    IF f = 3 THEN [run |-> saved[m].run, whole |-> saved[m].whole]
    ELSE [run   |-> logs[m][f].run,
          whole |-> Num[f] \in logs[m][f].totals /\ ~logs[m][f].errors]

\* The wrapper does what its callers rely on.
Wrapper == INSTANCE Acceptance WITH
    current <- IF pc = "idle" THEN NoMode ELSE mode,
    files   <- [m \in Modes |-> [f \in 1 .. 3 |-> FileOf(m, f)]],
    verdict <- IF verdict \in {"none", "ok"} THEN verdict ELSE "fail"

ImplementsAcceptance == Wrapper!Spec

------------------------------------------------------------------------------
\* The inductive invariant.

Loading == {"load", "total", "errors"}

\* Phase p of the run in progress is over, and passed the tests.
Passed(p) ==
    /\ db[p] = AllKeys(p)
    /\ logs[mode][p].run = run
    /\ Num[p] \in logs[mode][p].totals /\ ~logs[mode][p].errors

PhaseInv ==
    /\ pc # "idle" => verdict = "none" /\ run > 0
    /\ pc \in {"start", "open"} => db[phase] = {}
    /\ pc = "open" => logs[mode][phase] = NewLog
    /\ pc \in {"start", "open"} \cup Loading =>
        IF phase = 1 THEN db[2] = {} ELSE Passed(1)
    /\ pc = "errors" => db[phase] = AllKeys(phase) /\ Num[phase] \in logs[mode][phase].totals
    /\ pc \in {"copy", "copied"} => phase = 2 /\ Passed(1) /\ Passed(2)

StoredOf(t) == {k \in stored : k[1] = t}

\* The database, the log and the load of the phase in progress agree.
LoadInv ==
    pc \in Loading =>
        /\ db[phase] = stored
        /\ logs[mode][phase].run = run
        /\ logs[mode][phase].totals = {announced[t] : t \in {u \in Tids : announced[u] # -1}}
        /\ \A k \in stored : k[2] \in 1 .. tried[k[1]]
        /\ \A t \in Tids :
            /\ tried[t] <= Share(phase)[t]
            /\ announced[t] # -1 =>
                tried[t] = Share(phase)[t] /\ announced[t] = Cardinality(StoredOf(t))
            /\ pc # "load" => announced[t] # -1

LogInv ==
    /\ pc \in Loading => dbLog = [run |-> run, phase |-> phase]
    /\ pc \in {"copy", "copied"} => dbLog = [run |-> run, phase |-> 2]
    /\ pc = "copied" => saved[mode].run = run /\ saved[mode].phase = 2
    /\ pc \in {"total", "errors", "copy", "copied"} =>
        ((\A p \in 1 .. 2 : db[p] = AllKeys(p)) => run \in complete)

IInv ==
    /\ TypeOK /\ PhaseInv /\ LoadInv /\ LogInv
    /\ AcceptedIsLoaded /\ AcceptedIsTogether /\ SavedIsComplete
------------------------------------------------------------------------------
\* Why a run ends, and which runs can end well.

\* The stages from each place to the end of the script, when it is in phase 2.
StagesAfter == [idle |-> 0, copied |-> 1, copy |-> 2, errors |-> 3, total |-> 4,
                load |-> 5, open |-> 6, start |-> 7, erase |-> 13, guards |-> 14]
Stage ==
    StagesAfter[pc]
        + (IF pc \in {"start", "open"} \cup Loading /\ phase = 1 THEN 5 ELSE 0)

\* The keys that worker t has not tried, and its total line.
KeysLeft(t) == Share(phase)[t] - tried[t] + (IF announced[t] = -1 THEN 1 ELSE 0)

\* A run leaves its stages behind, and in a load each step leaves some worker
\* less to do, whatever is lost.
RunsComeToAnEnd ==
    [][pc # "idle" =>
        \/ Stage' < Stage
        \/ /\ pc = "load" /\ Stage' = Stage
           /\ \A t \in Tids : KeysLeft(t)' <= KeysLeft(t)
           /\ \E t \in Tids : KeysLeft(t)' < KeysLeft(t)]_vars

\* No run ends well: the first phase is as far as any gets.
NeverAccepted == verdict # "ok"
BeforePhase2 ==
    /\ NeverAccepted
    /\ pc \in {"idle", "guards", "erase"}
         \/ (phase = 1 /\ pc \in {"start", "open", "load", "total"})
==============================================================================
