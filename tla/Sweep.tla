-------------------------------- MODULE Sweep --------------------------------
(***************************************************************************)
(* ae/run_figure6.sh, run again and again on one OUTPUT_ROOT: for each     *)
(* workload a baseline run, the thresholds taken from its LOG, a model run *)
(* with them and a run without placement, each beside a process of         *)
(* ae/sample_fdp_stats.sh; then the figures.  The two-phase wrapper is its *)
(* abstract specification Acceptance, with a results directory for each    *)
(* workload and mode.  Any command may fail, a signal may reach the script *)
(* between two commands, and everything may be killed at any time.         *)
(***************************************************************************)
EXTENDS Integers, Sequences, FiniteSets

CONSTANTS Workloads,  \* the keys of FILES
          WithDlwa,   \* those with a figure of write amplification
          Selections, \* values of WORKLOADS, as sequences
          Collect,    \* COLLECT_FDP_STATS = 1
          MaxSweeps,  \* bound on the number of sweeps
          MaxRuns     \* bound on the number of runs of the wrapper

ASSUME WorkloadsAssumption == WithDlwa \subseteq Workloads /\ IsFiniteSet(WithDlwa)
ASSUME SelectionsAssumption == \A s \in Selections : s \in Seq(Workloads) /\ s # <<>>
ASSUME CollectAssumption == Collect \in BOOLEAN
ASSUME BoundsAssumption == MaxSweeps \in Nat /\ MaxRuns \in Nat

Modes == {"baseline", "model", "nofdp"}
Dirs == Workloads \X Modes
NoDir == <<"none", "none">>

VARIABLES pc,         \* where the script is
          sweep,      \* the number of sweeps begun
          outcome,    \* of the last sweep: "none" before its end, "ok" or "fail"
          selected,   \* SELECTED
          at,         \* the workload of the loop
          mode,       \* $2 of run_mode
          before,     \* the runs of the wrapper before this sweep
          current, run, files, verdict,   \* the wrapper, as in Acceptance
          p25,        \* p25.txt of each workload: the run it was made from, or 0
          thresholds, \* ROCKSDB_TOO_FAR_THRESHOLDS_SEC, as the run it comes from
          sampling,   \* is the sampler of run_mode alive?
          stats,      \* fdp_stats.log in each directory: the number of samples with
                      \* counters, and the sweep that took the last of them
          throughput, \* figure6a: the runs that it was made from
          dlwa,       \* figures 6b and 6c: the sweep that made each
          used,       \* history: the thresholds of the last run in each directory
          covered     \* history: did the sampler get counters during the whole of each
                      \* reported run of this sweep?

wrapper == <<current, run, files, verdict>>
script == <<sweep, selected, before>>
results == <<p25, stats, throughput, dlwa>>
history == <<used, covered>>
vars == <<pc, outcome, at, mode, thresholds, sampling, script, wrapper, results, history>>

TwoPhase == INSTANCE Acceptance WITH Modes <- Dirs, NoMode <- NoDir

Workload == selected[at]
Dir == <<Workload, mode>>

\* The directories of which a figure shows the write amplification.
ReportedDirs == WithDlwa \X {"baseline", "model"}

NoStats == [samples |-> 0, last |-> 0]
\* Nothing tells more samples than these apart.
Enough(d) == IF d \in ReportedDirs THEN 2 ELSE 1
More(d) == IF stats[d].samples < Enough(d) THEN stats[d].samples + 1 ELSE Enough(d)

\* What nvme does: it fails, prints something without counters, or prints them.
\* A sample that has no counters is as good as none to all who read the log.
Answers == {"error", "nothing", "counters"}
AddSample == stats' = [stats EXCEPT ![Dir] = [samples |-> More(Dir), last |-> sweep]]

\* A part of the run in d is not sampled.
Gap(d) == covered' = (covered /\ d \notin ReportedDirs)

\* fail, set -e, or the last line.
Exit(how) == pc' = "idle" /\ outcome' = how

------------------------------------------------------------------------------
Init ==
    /\ pc = "idle" /\ sweep = 0 /\ outcome = "none" /\ selected = <<>> /\ at = 1
    /\ mode = "baseline" /\ before = 0
    /\ TwoPhase!Init
    /\ p25 = [w \in Workloads |-> 0] /\ thresholds = 0
    /\ sampling = FALSE /\ stats = [d \in Dirs |-> NoStats]
    /\ throughput = [d \in Dirs |-> 0] /\ dlwa = [w \in WithDlwa |-> 0]
    /\ used = [d \in Dirs |-> 0] /\ covered = TRUE

Begin(s) ==
    /\ pc = "idle" /\ sweep < MaxSweeps /\ run + 3 * Len(s) <= MaxRuns
    /\ pc' = "loop" /\ sweep' = sweep + 1 /\ outcome' = "none"
    /\ selected' = s /\ at' = 1 /\ mode' = "baseline" /\ before' = run
    /\ thresholds' = 0
    /\ used' = [d \in Dirs |-> 0] /\ covered' = TRUE
    /\ UNCHANGED <<sampling, wrapper, results>>

\* The next workload of SELECTED, if its files are there, or the figures.
Loop(ok) ==
    /\ pc = "loop"
    /\ IF at > Len(selected) THEN pc' = "csv" /\ UNCHANGED outcome
       ELSE IF ok THEN pc' = "sampler" /\ UNCHANGED outcome
       ELSE Exit("fail")
    /\ UNCHANGED <<at, mode, thresholds, sampling, script, wrapper, results, history>>

StartSampler ==
    /\ pc = "sampler"
    /\ pc' = "start" /\ sampling' = Collect
    /\ UNCHANGED <<outcome, at, mode, thresholds, script, wrapper, results, history>>

\* run_two_phase.sh starts, with what is in the environment.
StartRun ==
    /\ pc = "start"
    /\ TwoPhase!Begin(Dir)
    /\ pc' = "run" /\ used' = [used EXCEPT ![Dir] = thresholds]
    /\ IF sampling THEN UNCHANGED covered ELSE Gap(Dir)
    /\ UNCHANGED <<outcome, at, mode, thresholds, sampling, script, results>>

Run ==
    /\ pc = "run"
    /\ TwoPhase!Proceed
    /\ UNCHANGED <<pc, outcome, at, mode, thresholds, sampling, script, results, history>>

\* Mutant of StopSampler: it waits for a sampler that nobody killed.
StopSamplerNoKill ==
    /\ pc = "run" /\ current = NoDir /\ ~sampling
    /\ pc' = (IF Collect THEN "final" ELSE "status")
    /\ UNCHANGED <<outcome, at, mode, thresholds, sampling, script, wrapper, results, history>>

\* The run has ended; its status is looked at after the sampler is stopped.
StopSampler ==
    /\ pc = "run" /\ current = NoDir
    /\ pc' = (IF Collect THEN "final" ELSE "status") /\ sampling' = FALSE
    /\ UNCHANGED <<outcome, at, mode, thresholds, script, wrapper, results, history>>

\* One more sample, under set -e.
FinalSample(answer) ==
    /\ pc = "final"
    /\ \/ answer = "error" /\ Exit("fail") /\ UNCHANGED stats
       \/ answer = "nothing" /\ pc' = "grep" /\ UNCHANGED <<outcome, stats>>
       \/ answer = "counters" /\ pc' = "grep" /\ AddSample /\ UNCHANGED outcome
    /\ UNCHANGED <<at, mode, thresholds, sampling, script, wrapper, p25, throughput, dlwa,
                   history>>

\* Mutant of Grep: nobody looks for the counters.
GrepSkipped ==
    /\ pc = "grep"
    /\ pc' = "status" /\ UNCHANGED outcome
    /\ UNCHANGED <<at, mode, thresholds, sampling, script, wrapper, results, history>>

\* grep -q "Media Bytes with Metadata Written", in all that was ever appended.
Grep ==
    /\ pc = "grep"
    /\ IF stats[Dir].samples > 0 THEN pc' = "status" /\ UNCHANGED outcome ELSE Exit("fail")
    /\ UNCHANGED <<at, mode, thresholds, sampling, script, wrapper, results, history>>

\* Mutant of AfterMode: the loop skips a workload.
AfterModeSkips ==
    \/ mode = "baseline" /\ pc' = "extract" /\ UNCHANGED <<mode, at>>
    \/ mode = "model" /\ pc' = "sampler" /\ mode' = "nofdp" /\ UNCHANGED at
    \/ mode = "nofdp" /\ pc' = "loop" /\ at' = at + 2 /\ mode' = "baseline"

\* Where the loop goes after run_mode.
AfterMode ==
    \/ mode = "baseline" /\ pc' = "extract" /\ UNCHANGED <<mode, at>>
    \/ mode = "model" /\ pc' = "sampler" /\ mode' = "nofdp" /\ UNCHANGED at
    \/ mode = "nofdp" /\ pc' = "loop" /\ at' = at + 1 /\ mode' = "baseline"

\* Mutant of Status: the sweep goes on with the next mode.
StatusIgnored ==
    /\ pc = "status"
    /\ AfterMode /\ UNCHANGED outcome
    /\ UNCHANGED <<thresholds, sampling, script, wrapper, results, history>>

\* test "${status}" -eq 0 || fail
Status ==
    /\ pc = "status"
    /\ IF verdict = "ok" THEN AfterMode /\ UNCHANGED outcome
                         ELSE Exit("fail") /\ UNCHANGED <<mode, at>>
    /\ UNCHANGED <<thresholds, sampling, script, wrapper, results, history>>

\* extract_p25_thresholds.py reads baseline/rocksdb.LOG; a failure may leave
\* p25.txt empty, or as it was.
Extract(ok) ==
    /\ pc = "extract"
    /\ IF ok THEN /\ p25' = [p25 EXCEPT ![Workload] = files[<<Workload, "baseline">>][3].run]
                  /\ pc' = "export" /\ UNCHANGED outcome
             ELSE /\ p25' \in {p25, [p25 EXCEPT ![Workload] = 0]}
                  /\ Exit("fail")
    /\ UNCHANGED <<at, mode, thresholds, sampling, script, wrapper, stats, throughput, dlwa,
                   history>>

\* Mutant of Export: thresholds that are set already are kept, as run_gear.sh
\* does.
ExportOnce(ok) ==
    /\ pc = "export"
    /\ IF ok THEN /\ thresholds' = (IF thresholds = 0 THEN p25[Workload] ELSE thresholds)
                  /\ pc' = "sampler" /\ mode' = "model" /\ UNCHANGED outcome
             ELSE Exit("fail") /\ UNCHANGED <<thresholds, mode>>
    /\ UNCHANGED <<at, sampling, script, wrapper, results, history>>

Export(ok) ==
    /\ pc = "export"
    /\ IF ok THEN /\ thresholds' = p25[Workload]
                  /\ pc' = "sampler" /\ mode' = "model" /\ UNCHANGED outcome
             ELSE Exit("fail") /\ UNCHANGED <<thresholds, mode>>
    /\ UNCHANGED <<at, sampling, script, wrapper, results, history>>

IsSelected(w) == \E i \in 1 .. Len(selected) : selected[i] = w

\* results_to_csv.py and its plot, of the selected workloads and no other.
Csv(ok) ==
    /\ pc = "csv"
    /\ IF ok THEN /\ throughput' = [d \in Dirs |-> IF IsSelected(d[1]) THEN files[d][2].run ELSE 0]
                  /\ pc' = "dlwa" /\ UNCHANGED outcome
             ELSE /\ throughput' \in {throughput, [d \in Dirs |-> 0]}
                  /\ Exit("fail")
    /\ UNCHANGED <<at, mode, thresholds, sampling, script, wrapper, p25, stats, dlwa, history>>

\* The workloads whose figure of write amplification is still to be made.
ToReport == IF Collect THEN {w \in WithDlwa : IsSelected(w) /\ dlwa[w] # sweep} ELSE {}

\* results_to_wa_csv.py takes all samples of the baseline's and the model's
\* statistics, and refuses fewer than two.
Dlwa(w, ok) ==
    /\ pc = "dlwa" /\ w \in ToReport
    /\ IF ok /\ \A m \in {"baseline", "model"} : stats[<<w, m>>].samples >= 2
       THEN dlwa' = [dlwa EXCEPT ![w] = sweep] /\ UNCHANGED <<pc, outcome>>
       ELSE UNCHANGED dlwa /\ Exit("fail")
    /\ UNCHANGED <<at, mode, thresholds, sampling, script, wrapper, p25, stats, throughput,
                   history>>

Complete ==
    /\ pc = "dlwa" /\ ToReport = {}
    /\ Exit("ok")
    /\ UNCHANGED <<at, mode, thresholds, sampling, script, wrapper, results, history>>

------------------------------------------------------------------------------
\* The sampler, signals and kills.

\* The sampler takes one sample, maybe without counters.
Sample(answer) ==
    /\ sampling
    /\ \/ answer = "nothing" /\ Gap(current) /\ UNCHANGED stats
       \/ answer = "counters" /\ AddSample /\ UNCHANGED covered
    /\ UNCHANGED <<pc, outcome, at, mode, thresholds, sampling, script, wrapper, p25,
                   throughput, dlwa, used>>

\* The first nvme that fails ends the sampler: set -e.  A run that is in
\* progress is not sampled from here on.
SamplerDies ==
    /\ sampling
    /\ sampling' = FALSE /\ Gap(current)
    /\ UNCHANGED <<pc, outcome, at, mode, thresholds, script, wrapper, results, used>>

\* The trap of INT and TERM stops the sampler and lets the script go on.  It
\* runs between commands, so not before the run in progress has ended.
Trap ==
    /\ sampling /\ current = NoDir
    /\ sampling' = FALSE
    /\ UNCHANGED <<pc, outcome, at, mode, thresholds, script, wrapper, results, history>>

\* The script, the wrapper and the sampler are killed.
Kill ==
    /\ pc # "idle"
    /\ Exit("fail") /\ sampling' = FALSE
    /\ TwoPhase!Reject \/ (current = NoDir /\ UNCHANGED wrapper)
    /\ UNCHANGED <<at, mode, thresholds, script, results, history>>

Step ==
    \/ StartSampler \/ StartRun \/ StopSampler \/ Grep \/ Status \/ Complete
    \/ \E answer \in Answers : FinalSample(answer)
    \/ \E ok \in BOOLEAN :
        \/ Loop(ok) \/ Extract(ok) \/ Export(ok) \/ Csv(ok)
        \/ \E w \in WithDlwa : Dlwa(w, ok)

\* The wrapper ends its run, one way or the other.
EndRun == pc = "run" /\ Run /\ current' = NoDir

Next ==
    \/ \E s \in Selections : Begin(s)
    \/ Step \/ Run \/ SamplerDies \/ Trap \/ Kill
    \/ \E answer \in {"nothing", "counters"} : Sample(answer)

Spec == Init /\ [][Next]_vars

\* The script goes on, and a run that it waits for ends.
FairSpec == Spec /\ WF_vars(Step) /\ WF_vars(EndRun)

------------------------------------------------------------------------------
\* Properties.

TypeOK ==
    /\ pc \in {"idle", "loop", "sampler", "start", "run", "final", "grep", "status",
               "extract", "export", "csv", "dlwa"}
    /\ sweep \in 0 .. MaxSweeps /\ outcome \in {"none", "ok", "fail"}
    /\ selected \in Selections \cup {<<>>} /\ at \in 1 .. Len(selected) + 1
    /\ mode \in Modes /\ before \in 0 .. run
    /\ current \in Dirs \cup {NoDir} /\ run \in Nat
    /\ verdict \in {"none", "ok", "fail"}
    /\ files \in [Dirs -> [1 .. 3 -> [run : 0 .. run, whole : BOOLEAN]]]
    /\ p25 \in [Workloads -> 0 .. run] /\ thresholds \in 0 .. run
    /\ sampling \in BOOLEAN /\ stats \in [Dirs -> [samples : 0 .. 2, last : 0 .. sweep]]
    /\ throughput \in [Dirs -> 0 .. run] /\ dlwa \in [WithDlwa -> 0 .. sweep]
    /\ used \in [Dirs -> 0 .. run] /\ covered \in BOOLEAN

\* The directories of the selected workloads.
SelectedDirs == {d \in Dirs : IsSelected(d[1])}

\* "Figure 6 sweep completed" is printed only when each selected workload and
\* mode has the three files of one run of this sweep, whole, and figure 6a is
\* made of these runs, whatever earlier sweeps left in OUTPUT_ROOT.
CompletedIsOfThisSweep ==
    outcome = "ok" => \A d \in SelectedDirs :
        /\ files[d][1].run > before
        /\ \A f \in 1 .. 3 : files[d][f] = [run |-> files[d][1].run, whole |-> TRUE]
        /\ throughput[d] = files[d][2].run

\* docs/FULL_EXPERIMENTS.md: "Paper runs must extract p25 values from the
\* matching baseline rocksdb.LOG": a model run has the thresholds of the whole
\* LOG of a baseline run of the same workload, in the same sweep.
ThresholdsMatch ==
    \A w \in Workloads :
        LET model == <<w, "model">>
            LOG   == files[<<w, "baseline">>][3]
        IN  /\ current = model \/ (outcome = "ok" /\ IsSelected(w)) =>
                used[model] = LOG.run /\ LOG.whole /\ LOG.run > before

\* What the tests of the log ensure of a sweep that collects counters: each run
\* that it reports has some beside it, and the runs of a figure of write
\* amplification have two samples, though not always of this sweep.
CountersInLog ==
    outcome = "ok" /\ Collect =>
        /\ \A d \in SelectedDirs : stats[d].samples > 0
        /\ \A d \in SelectedDirs \cap ReportedDirs : stats[d].samples >= 2

\* docs/FULL_EXPERIMENTS.md: a "missing FDP counter is fatal": a sweep that
\* collects counters completes only if it got some in each of its runs.
CountersOfThisSweep ==
    outcome = "ok" /\ Collect => \A d \in SelectedDirs : stats[d].last = sweep

\* Every sweep comes to its end.
Ends == pc # "idle" ~> pc = "idle"

\* docs/FULL_EXPERIMENTS.md: a run is valid only when "device-statistics
\* sampling covers the complete run when DLWA is reported".
SamplesCoverRun ==
    outcome = "ok" /\ (\E w \in WithDlwa : dlwa[w] = sweep) => covered

------------------------------------------------------------------------------
\* The inductive invariant.

\* The positions of run_mode, those after the run, and those of the loop body.
AfterRun == {"final", "grep", "status"}
InMode == {"sampler", "start", "run"} \cup AfterRun
InLoop == InMode \cup {"extract", "export"}

\* The loop has been through d, and is not at its workload again.
Past(d) ==
    /\ \E i \in 1 .. at - 1 : i <= Len(selected) /\ selected[i] = d[1]
    /\ pc \in InLoop => d[1] # Workload

\* The modes of the present workload that are finished.
Before(m) ==
    \/ m = "baseline" /\ (mode # "baseline" \/ pc \in {"extract", "export"})
    \/ m = "model" /\ mode = "nofdp"

Finished(d) == Past(d) \/ (pc \in InLoop /\ d[1] = Workload /\ Before(d[2]))

\* What a run of this sweep that was accepted leaves in its directory.
Whole(d) ==
    /\ files[d][1].run > before
    /\ \A f \in 1 .. 3 : files[d][f] = [run |-> files[d][1].run, whole |-> TRUE]

PlaceInv ==
    /\ outcome = "ok" => pc = "idle"
    /\ pc \in InLoop => at <= Len(selected)
    /\ pc = "loop" => mode = "baseline"
    /\ pc \in {"extract", "export"} => mode = "baseline"
    /\ pc \in {"csv", "dlwa"} \/ outcome = "ok" => at > Len(selected)
    /\ sampling => pc \in {"start", "run"}
    /\ current = NoDir \/ (pc = "run" /\ current = Dir)

RunInv ==
    /\ pc \in {"run"} \cup AfterRun => run > before /\ used[Dir] = thresholds
    /\ pc \in {"run"} \cup AfterRun /\ verdict = "ok" =>
        /\ current = NoDir
        /\ \A f \in 1 .. 3 : files[Dir][f] = [run |-> run, whole |-> TRUE]
    /\ pc = "status" /\ Collect => stats[Dir].samples > 0

\* The thresholds in the environment are those of the baseline of the present
\* workload.
ThresholdsInv ==
    LET LOG == files[<<Workload, "baseline">>][3].run IN
        /\ pc = "export" => p25[Workload] = LOG
        /\ pc \in InMode /\ mode = "model" => thresholds = LOG

FinishedInv ==
    pc # "idle" \/ outcome = "ok" =>
        /\ \A d \in Dirs : Finished(d) =>
            Whole(d) /\ (Collect => stats[d].samples > 0)
        /\ \A w \in Workloads : Finished(<<w, "model">>) =>
            used[<<w, "model">>] = files[<<w, "baseline">>][3].run

FiguresInv ==
    pc = "dlwa" \/ outcome = "ok" => \A d \in SelectedDirs : throughput[d] = files[d][2].run

\* Logs only grow.
LogInv ==
    /\ \A d \in Dirs : stats[d].samples > 0 => stats[d].last > 0
    /\ \A w \in WithDlwa, m \in {"baseline", "model"} :
        dlwa[w] > 0 => stats[<<w, m>>].samples >= 2
    /\ outcome = "ok" /\ Collect =>
        \A w \in WithDlwa : IsSelected(w) => dlwa[w] > 0
    /\ pc # "idle" \/ outcome = "ok" => sweep > 0

IInv ==
    /\ TypeOK /\ PlaceInv /\ RunInv /\ ThresholdsInv /\ FinishedInv /\ FiguresInv
    /\ LogInv
------------------------------------------------------------------------------
\* Why a sweep ends, and when the samples do cover the runs.

\* The commands from each place to the end of the loop's body; those of
\* run_mode come before those of the modes that follow.
CommandsAfter == [loop |-> 21, sampler |-> 6, start |-> 5, run |-> 4, final |-> 3,
                  grep |-> 2, status |-> 1, extract |-> 14, export |-> 13]
ModesAfter == [baseline |-> 14, model |-> 6, nofdp |-> 0]

\* The commands that are left to the script, at most.
Left ==
    IF pc = "idle" THEN 0
    ELSE IF pc = "dlwa" THEN 1 + Cardinality(ToReport)
    ELSE IF pc = "csv" THEN 2 + Cardinality(WithDlwa)
    ELSE 3 + Cardinality(WithDlwa) + 21 * (Len(selected) - at) + CommandsAfter[pc]
           + (IF pc \in InMode THEN ModesAfter[mode] ELSE 0)

\* Each command leaves fewer, and what the wrapper, the sampler and signals do
\* adds none.
SweepsComeToAnEnd ==
    [][(pc # "idle" => Left' <= Left) /\ (Step => Left' < Left)]_vars

\* Sweeps in which each nvme of the sampler prints counters, and without a
\* signal that the script survives.
Calm == (\E s \in Selections : Begin(s)) \/ Step \/ Run \/ Sample("counters") \/ Kill
CalmSpec == Init /\ [][Calm]_vars

CoverInv ==
    /\ pc = "start" => sampling = Collect
    /\ Collect => covered
    /\ ~Collect => \A w \in WithDlwa : dlwa[w] = 0
==============================================================================
