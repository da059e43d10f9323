----------------------------- MODULE SweepProofs -----------------------------
(***************************************************************************)
(* Proofs about Sweep, for any workloads, selections of them, and numbers  *)
(* of sweeps and runs: what a completed sweep is made of.                  *)
(***************************************************************************)
EXTENDS Sweep, FiniteSetTheorems, TLAPS

------------------------------------------------------------------------------
\* Type correctness.

LEMMA DirsAre ==
    /\ \A w \in Workloads, m \in Modes : <<w, m>> \in Dirs
    /\ NoDir \notin Dirs
    /\ ReportedDirs \subseteq Dirs
BY WorkloadsAssumption DEF Dirs, Modes, NoDir, ReportedDirs

\* In the body of the loop there is a workload.
LEMMA InBody ==
    ASSUME TypeOK, at <= Len(selected)
    PROVE  Workload \in Workloads /\ Dir \in Dirs
<1>1. selected \in Seq(Workloads) /\ at \in 1 .. Len(selected) + 1
  <2>1. <<>> \in Seq(Workloads)
    OBVIOUS
  <2> QED
    BY <2>1, SelectionsAssumption DEF TypeOK
<1>2. selected[at] \in Workloads
  <2>1. at \in 1 .. Len(selected)
    BY <1>1
  <2> QED
    BY <1>1, <2>1
<1>3. mode \in Modes
  BY DEF TypeOK
<1> QED
  BY <1>2, <1>3, DirsAre DEF Workload, Dir

RunType(n) ==
    /\ files \in [Dirs -> [1 .. 3 -> [run : 0 .. n, whole : BOOLEAN]]]
    /\ p25 \in [Workloads -> 0 .. n] /\ thresholds \in 0 .. n
    /\ throughput \in [Dirs -> 0 .. n] /\ used \in [Dirs -> 0 .. n]
    /\ before \in 0 .. n

SweepType(n) ==
    /\ stats \in [Dirs -> [samples : 0 .. 2, last : 0 .. n]]
    /\ dlwa \in [WithDlwa -> 0 .. n]

\* A new run and a new sweep are larger numbers.
LEMMA Widen ==
    ASSUME NEW n \in Nat
    PROVE  (RunType(n) => RunType(n + 1)) /\ (SweepType(n) => SweepType(n + 1))
<1>1. 0 .. n \subseteq 0 .. n + 1
  OBVIOUS
<1>2. [run : 0 .. n, whole : BOOLEAN] \subseteq [run : 0 .. n + 1, whole : BOOLEAN]
  BY <1>1
<1>3. [samples : 0 .. 2, last : 0 .. n] \subseteq [samples : 0 .. 2, last : 0 .. n + 1]
  BY <1>1
<1>4. [1 .. 3 -> [run : 0 .. n, whole : BOOLEAN]]
      \subseteq [1 .. 3 -> [run : 0 .. n + 1, whole : BOOLEAN]]
  BY <1>2
<1>5. RunType(n) => RunType(n + 1)
  BY <1>1, <1>4 DEF RunType
<1>6. SweepType(n) => SweepType(n + 1)
  BY <1>1, <1>3 DEF SweepType
<1> QED
  BY <1>5, <1>6

LEMMA TypeInit == Init => TypeOK
<1> SUFFICES ASSUME Init PROVE TypeOK
  OBVIOUS
<1> USE BoundsAssumption DEF Init, TwoPhase!Init, TwoPhase!Missing
<1>1. files \in [Dirs -> [1 .. 3 -> [run : 0 .. run, whole : BOOLEAN]]]
  OBVIOUS
<1>2. stats \in [Dirs -> [samples : 0 .. 2, last : 0 .. sweep]]
  BY DEF NoStats
<1>3. selected \in Selections \cup {<<>>} /\ at \in 1 .. Len(selected) + 1
  OBVIOUS
<1>4. run = 0 /\ 0 \in 0 .. 0 /\ 0 \in 0 .. MaxSweeps
  OBVIOUS
<1>5. /\ p25 \in [Workloads -> 0 .. run] /\ thresholds \in 0 .. run
      /\ throughput \in [Dirs -> 0 .. run] /\ used \in [Dirs -> 0 .. run]
      /\ dlwa \in [WithDlwa -> 0 .. sweep] /\ before \in 0 .. run
  OBVIOUS
<1>6. sampling \in BOOLEAN /\ covered \in BOOLEAN
  BY Zenon
<1>7. /\ pc = "idle" /\ outcome = "none" /\ mode \in Modes /\ current = NoDir
      /\ verdict = "none" /\ sweep = 0
  BY DEF Modes
<1> HIDE DEF Init, TwoPhase!Init, TwoPhase!Missing
<1> QED
  BY <1>1, <1>2, <1>3, <1>4, <1>5, <1>6, <1>7 DEF TypeOK

\* The wrapper's steps keep its type.
LEMMA ProceedType ==
    ASSUME TypeOK, TwoPhase!Proceed
    PROVE  /\ current' \in {current, NoDir} /\ current # NoDir /\ run' = run
           /\ verdict' \in {verdict, "ok", "fail"}
           /\ files' \in [Dirs -> [1 .. 3 -> [run : 0 .. run, whole : BOOLEAN]]]
<1>1. CASE TwoPhase!Accept \/ TwoPhase!Reject
  BY <1>1 DEF TypeOK, TwoPhase!Accept, TwoPhase!Reject
<1>2. CASE \E f \in 1 .. 3, whole \in BOOLEAN : TwoPhase!Replace(f, whole)
  <2>1. PICK f \in 1 .. 3, whole \in BOOLEAN : TwoPhase!Replace(f, whole)
    BY <1>2
  <2>2. current \in Dirs /\ run \in Nat
    BY <2>1 DEF TypeOK, TwoPhase!Replace
  <2>3. [run |-> run, whole |-> whole] \in [run : 0 .. run, whole : BOOLEAN]
    BY <2>2
  <2> QED
    BY <2>1, <2>2, <2>3 DEF TypeOK, TwoPhase!Replace
<1> QED
  BY <1>1, <1>2 DEF TwoPhase!Proceed

\* Samples are added to the log of the run in progress; none goes away.
LEMMA AddSampleType ==
    ASSUME TypeOK, Dir \in Dirs, AddSample
    PROVE  /\ stats' \in [Dirs -> [samples : 0 .. 2, last : 0 .. sweep]]
           /\ \A d \in Dirs : d # Dir => stats'[d] = stats[d]
           /\ stats'[Dir].last = sweep /\ stats'[Dir].samples > 0
           /\ Dir \in ReportedDirs /\ stats[Dir].samples >= 2 => stats'[Dir].samples >= 2
<1>1. stats \in [Dirs -> [samples : 0 .. 2, last : 0 .. sweep]] /\ sweep \in Nat
  BY DEF TypeOK
<1>2. /\ More(Dir) \in 1 .. 2
      /\ Dir \in ReportedDirs /\ stats[Dir].samples >= 2 => More(Dir) = 2
  <2>1. stats[Dir].samples \in 0 .. 2
    BY <1>1
  <2>2. Enough(Dir) \in 1 .. 2 /\ (Dir \in ReportedDirs => Enough(Dir) = 2)
    BY DEF Enough
  <2>3. \A n \in 0 .. 2, m \in 1 .. 2 :
           LET k == IF n < m THEN n + 1 ELSE m
           IN  k \in 1 .. 2 /\ (m = 2 /\ n >= 2 => k = 2)
    OBVIOUS
  <2> QED
    BY <2>1, <2>2, <2>3 DEF More
<1> DEFINE new == [samples |-> More(Dir), last |-> sweep]
<1>3. /\ new \in [samples : 0 .. 2, last : 0 .. sweep]
      /\ new.samples = More(Dir) /\ new.last = sweep
  BY <1>1, <1>2
<1>4. stats' = [stats EXCEPT ![Dir] = new]
  BY DEF AddSample
<1> HIDE DEF new
<1>5. stats'[Dir] = new /\ \A d \in Dirs : d # Dir => stats'[d] = stats[d]
  BY <1>1, <1>4
<1> QED
  BY <1>1, <1>2, <1>3, <1>4, <1>5

LEMMA TypeStep == TypeOK /\ PlaceInv /\ [Next]_vars => TypeOK'
<1> SUFFICES ASSUME TypeOK, PlaceInv, [Next]_vars PROVE TypeOK'
  OBVIOUS
<1> USE DEF TypeOK
<1>1. CASE \E s \in Selections : Begin(s)
  <2>1. PICK s \in Selections : Begin(s)
    BY <1>1
  <2>2. s \in Seq(Workloads) /\ Len(s) \in Nat
    BY SelectionsAssumption
  <2>3. sweep' = sweep + 1 /\ sweep' \in 0 .. MaxSweeps /\ sweep \in Nat /\ run \in Nat
    BY <2>1, BoundsAssumption DEF Begin
  <2>4. stats \in [Dirs -> [samples : 0 .. 2, last : 0 .. sweep + 1]]
        /\ dlwa \in [WithDlwa -> 0 .. sweep + 1]
    BY <2>3, Widen DEF SweepType
  <2>5. used' \in [Dirs -> 0 .. run] /\ before' \in 0 .. run /\ thresholds' \in 0 .. run
        /\ "baseline" \in Modes
    BY <2>1, <2>3 DEF Begin, Modes
  <2>6. at' \in 1 .. Len(selected') + 1 /\ selected' \in Selections \cup {<<>>}
    BY <2>1, <2>2 DEF Begin
  <2> QED
    BY <2>1, <2>3, <2>4, <2>5, <2>6 DEF Begin, wrapper, results
<1>2. CASE \E ok \in BOOLEAN : Loop(ok)
  BY <1>2 DEF Loop, Exit, script, wrapper, results, history
<1>3. CASE StartSampler
  BY <1>3, CollectAssumption DEF StartSampler, script, wrapper, results, history
<1>4. CASE StartRun
  <2>1. Dir \in Dirs
    BY <1>4, InBody DEF StartRun, PlaceInv, InLoop, InMode
  <2>2. run' = run + 1 /\ run \in Nat /\ current' = Dir /\ verdict' = "none" /\ files' = files
        /\ used' = [used EXCEPT ![Dir] = thresholds]
    BY <1>4 DEF StartRun, TwoPhase!Begin
  <2>3. RunType(run + 1)
    BY <2>2, Widen DEF RunType
  <2>4. used' \in [Dirs -> 0 .. run + 1]
    BY <2>1, <2>2, <2>3 DEF RunType
  <2>5. covered' \in BOOLEAN
    BY <1>4, Zenon DEF StartRun, Gap
  <2> QED
    <3>0. /\ p25' = p25 /\ thresholds' = thresholds /\ throughput' = throughput
          /\ before' = before
      BY <1>4 DEF StartRun, script, results
    <3>1. /\ files' \in [Dirs -> [1 .. 3 -> [run : 0 .. run', whole : BOOLEAN]]]
          /\ p25' \in [Workloads -> 0 .. run'] /\ thresholds' \in 0 .. run'
          /\ throughput' \in [Dirs -> 0 .. run'] /\ used' \in [Dirs -> 0 .. run']
          /\ before' \in 0 .. run' /\ run' \in Nat
      <4>1. /\ files \in [Dirs -> [1 .. 3 -> [run : 0 .. run + 1, whole : BOOLEAN]]]
            /\ p25 \in [Workloads -> 0 .. run + 1] /\ thresholds \in 0 .. run + 1
            /\ throughput \in [Dirs -> 0 .. run + 1] /\ before \in 0 .. run + 1
        BY <2>3 DEF RunType
      <4>2. run + 1 \in Nat
        BY <2>2
      <4> HIDE DEF TypeOK
      <4> QED
        BY <2>2, <2>4, <3>0, <4>1, <4>2
    <3>2. /\ pc' = "run" /\ UNCHANGED <<outcome, at, mode, sweep, selected, sampling, stats, dlwa>>
          /\ current' \in Dirs \cup {NoDir} /\ verdict' = "none"
      BY <1>4, <2>1, <2>2 DEF StartRun, script, results
    <3> QED
      BY <2>5, <3>1, <3>2
<1>5. CASE Run
  BY <1>5, ProceedType DEF Run, script, results, history
<1>6. CASE StopSampler
  BY <1>6 DEF StopSampler, script, wrapper, results, history
<1>7. CASE \E answer \in Answers : FinalSample(answer)
  <2>1. Dir \in Dirs
    BY <1>7, InBody DEF FinalSample, PlaceInv, InLoop, InMode, AfterRun
  <2>2. stats' = stats \/ AddSample
    BY <1>7 DEF FinalSample
  <2>3. stats' \in [Dirs -> [samples : 0 .. 2, last : 0 .. sweep]]
    BY <2>1, <2>2, AddSampleType
  <2> QED
    BY <1>7, <2>3 DEF FinalSample, Exit, script, wrapper, history
<1>8. CASE Grep
  BY <1>8 DEF Grep, Exit, script, wrapper, results, history
<1>9. CASE Status
  <2>1. at <= Len(selected) /\ Len(selected) \in Nat
    <3>1. <<>> \in Seq(Workloads)
      OBVIOUS
    <3> QED
      BY <1>9, <3>1, SelectionsAssumption DEF Status, PlaceInv, InLoop, InMode, AfterRun
  <2>2. mode' \in Modes /\ at' \in 1 .. Len(selected) + 1
    BY <1>9, <2>1 DEF Status, AfterMode, Modes
  <2> QED
    BY <1>9, <2>2 DEF Status, AfterMode, Exit, script, wrapper, results, history
<1>10. CASE \E ok \in BOOLEAN : Extract(ok)
  <2>1. Workload \in Workloads /\ <<Workload, "baseline">> \in Dirs
    BY <1>10, InBody, DirsAre DEF Extract, PlaceInv, InLoop, Modes
  <2>2. files[<<Workload, "baseline">>][3].run \in 0 .. run
    BY <2>1
  <2>3. p25' \in [Workloads -> 0 .. run]
    <3>1. 0 \in 0 .. run
      OBVIOUS
    <3>2. \/ p25' = [p25 EXCEPT ![Workload] = files[<<Workload, "baseline">>][3].run]
          \/ p25' = p25 \/ p25' = [p25 EXCEPT ![Workload] = 0]
      BY <1>10 DEF Extract
    <3> HIDE DEF TypeOK
    <3>3. p25 \in [Workloads -> 0 .. run]
      BY DEF TypeOK
    <3> QED
      BY <2>1, <2>2, <3>1, <3>2, <3>3
  <2> QED
    BY <1>10, <2>3 DEF Extract, Exit, script, wrapper, history
<1>11. CASE \E ok \in BOOLEAN : Export(ok)
  <2>1. Workload \in Workloads
    BY <1>11, InBody DEF Export, PlaceInv, InLoop
  <2>2. thresholds' \in 0 .. run /\ mode' \in Modes
    BY <1>11, <2>1 DEF Export, Modes
  <2> QED
    BY <1>11, <2>2 DEF Export, Exit, script, wrapper, results, history
<1>12. CASE \E ok \in BOOLEAN : Csv(ok)
  <2>1. \A d \in Dirs : files[d][2].run \in 0 .. run
    OBVIOUS
  <2>2. throughput' \in [Dirs -> 0 .. run]
    <3>1. 0 \in 0 .. run
      OBVIOUS
    <3>2. \/ throughput' = [d \in Dirs |-> IF IsSelected(d[1]) THEN files[d][2].run ELSE 0]
          \/ throughput' = throughput \/ throughput' = [d \in Dirs |-> 0]
      BY <1>12, Zenon DEF Csv
    <3> HIDE DEF TypeOK
    <3>3. throughput \in [Dirs -> 0 .. run]
      BY DEF TypeOK
    <3> QED
      BY <2>1, <3>1, <3>2, <3>3
  <2> QED
    BY <1>12, <2>2 DEF Csv, Exit, script, wrapper, history
<1>13. CASE \E w \in WithDlwa : \E ok \in BOOLEAN : Dlwa(w, ok)
  <2>1. PICK w \in WithDlwa, ok \in BOOLEAN : Dlwa(w, ok)
    BY <1>13
  <2>2. sweep \in 0 .. sweep
    BY BoundsAssumption
  <2>3. dlwa' = dlwa \/ dlwa' = [dlwa EXCEPT ![w] = sweep]
    BY <2>1, Zenon DEF Dlwa
  <2>4. dlwa' \in [WithDlwa -> 0 .. sweep]
    BY <2>2, <2>3
  <2>5. /\ pc' \in {pc, "idle"} /\ outcome' \in {outcome, "fail"}
        /\ UNCHANGED <<at, mode, thresholds, sampling, script, wrapper, p25, stats, throughput, history>>
    BY <2>1, Zenon DEF Dlwa, Exit
  <2> QED
    BY <2>4, <2>5 DEF script, wrapper, history
<1>14. CASE Complete
  BY <1>14 DEF Complete, Exit, script, wrapper, results, history
<1>15. CASE \E answer \in {"nothing", "counters"} : Sample(answer)
  <2>1. Dir \in Dirs
    BY <1>15, InBody, Zenon DEF Sample, PlaceInv, InLoop, InMode
  <2>2. stats' = stats \/ AddSample
    BY <1>15 DEF Sample
  <2>3. stats' \in [Dirs -> [samples : 0 .. 2, last : 0 .. sweep]]
    BY <2>1, <2>2, AddSampleType
  <2>4. covered' \in BOOLEAN
    BY <1>15, Zenon DEF Sample, Gap
  <2> QED
    BY <1>15, <2>3, <2>4 DEF Sample, script, wrapper
<1>16. CASE SamplerDies \/ Trap
  <2>1. sampling' \in BOOLEAN /\ covered' \in BOOLEAN
    BY <1>16, Zenon DEF SamplerDies, Trap, Gap, history
  <2> QED
    BY <1>16, <2>1 DEF SamplerDies, Trap, script, wrapper, results, history
<1>17. CASE Kill
  BY <1>17 DEF Kill, Exit, TwoPhase!Reject, script, wrapper, results, history
<1>18. CASE UNCHANGED vars
  BY <1>18 DEF vars, script, wrapper, results, history
<1> QED
  BY <1>1, <1>2, <1>3, <1>4, <1>5, <1>6, <1>7, <1>8, <1>9, <1>10, <1>11, <1>12, <1>13,
     <1>14, <1>15, <1>16, <1>17, <1>18, Zenon DEF Next, Step

------------------------------------------------------------------------------
\* The rest of the inductive invariant, one action at a time.

Rest == PlaceInv /\ RunInv /\ ThresholdsInv /\ FinishedInv /\ FiguresInv

LEMMA RestInit == Init => Rest
<1> SUFFICES ASSUME Init PROVE Rest
  OBVIOUS
<1>1. pc = "idle" /\ outcome = "none" /\ sampling = FALSE /\ current = NoDir
  BY DEF Init, TwoPhase!Init
<1> QED
  BY <1>1 DEF Rest, PlaceInv, RunInv, ThresholdsInv, FinishedInv, FiguresInv, InLoop, InMode,
     AfterRun

\* A sweep that has failed promises nothing.
LEMMA FailKeeps ==
    ASSUME pc' = "idle", outcome' = "fail", sampling' = FALSE, current' = NoDir
    PROVE  Rest'
BY DEF Rest, PlaceInv, RunInv, ThresholdsInv, FinishedInv, FiguresInv, InLoop, InMode, AfterRun

\* What is finished stays as it is, as long as nothing is finished anew.
LEMMA FinishedKeeps ==
    ASSUME FinishedInv, pc # "idle",
           UNCHANGED <<before, sweep>>,
           \A d \in Dirs : Finished(d)' => Finished(d),
           \A d \in Dirs : Finished(d) =>
               /\ files'[d] = files[d] /\ used'[d] = used[d]
               /\ stats[d].samples > 0 => stats'[d].samples > 0,
           \A w \in Workloads : Finished(<<w, "model">>) =>
               files'[<<w, "baseline">>] = files[<<w, "baseline">>]
    PROVE  FinishedInv'
<1>1. ASSUME NEW d \in Dirs, Finished(d)'
      PROVE  Whole(d)' /\ (Collect => stats'[d].samples > 0)
  <2>1. Finished(d)
    BY <1>1
  <2> QED
    BY <2>1 DEF FinishedInv, Whole
<1>2. ASSUME NEW w \in Workloads, Finished(<<w, "model">>)'
      PROVE  used'[<<w, "model">>] = files'[<<w, "baseline">>][3].run
  <2>1. <<w, "model">> \in Dirs
    BY DirsAre DEF Modes
  <2>2. Finished(<<w, "model">>)
    BY <1>2, <2>1
  <2>3. used[<<w, "model">>] = files[<<w, "baseline">>][3].run
    BY <2>2 DEF FinishedInv
  <2> QED
    BY <2>1, <2>2, <2>3
<1> QED
  BY <1>1, <1>2 DEF FinishedInv

\* The same, when no file changes.
LEMMA FinishedSame ==
    ASSUME FinishedInv, pc # "idle",
           UNCHANGED <<before, sweep, files, used, stats>>,
           \A d \in Dirs : Finished(d)' => Finished(d)
    PROVE  FinishedInv'
BY FinishedKeeps

\* The directory of the run in progress is not finished, and a model run that
\* is finished has a baseline that is.
LEMMA NotFinished == pc \in InMode => ~Finished(Dir)
BY DEF Finished, Past, Before, Dir, InLoop, InMode, AfterRun

LEMMA ModelAfterBaseline ==
    ASSUME NEW w \in Workloads, Finished(<<w, "model">>)
    PROVE  Finished(<<w, "baseline">>)
BY DEF Finished, Past, Before

LEMMA BeginKeeps ==
    ASSUME IInv, NEW s \in Selections, Begin(s)
    PROVE  Rest'
<1>1. sampling' = FALSE /\ current' = NoDir
  <2>1. sampling = FALSE
    BY Zenon DEF IInv, PlaceInv, TypeOK, Begin
  <2> QED
    BY <2>1 DEF Begin, wrapper, IInv, PlaceInv
<1>2. \A d \in Dirs : ~Finished(d)'
  BY DEF Begin, Finished, Past, InLoop, InMode, AfterRun
<1>3. FinishedInv'
  BY <1>2, DirsAre DEF FinishedInv, Modes
<1> QED
  BY <1>1, <1>3 DEF Begin, Rest, PlaceInv, RunInv, ThresholdsInv, FiguresInv, InLoop, InMode,
     AfterRun

LEMMA LoopKeeps ==
    ASSUME IInv, NEW ok \in BOOLEAN, Loop(ok)
    PROVE  Rest'
<1>1. /\ pc = "loop" /\ sampling = FALSE /\ current = NoDir /\ mode = "baseline"
      /\ outcome # "ok"
  BY Zenon DEF IInv, PlaceInv, TypeOK, Loop
<1>2. UNCHANGED <<at, mode, sampling, sweep, selected, before, files, used, stats, current>>
  BY DEF Loop, script, wrapper, results, history
<1>3. CASE Exit("fail")
  BY <1>1, <1>2, <1>3, FailKeeps DEF Exit
<1>4. CASE at > Len(selected) /\ pc' = "csv" /\ outcome' = outcome
  <2>1. \A d \in Dirs : Finished(d)' => Finished(d)
    BY <1>1, <1>2, <1>4 DEF Finished, Past, InLoop, InMode, AfterRun
  <2>2. FinishedInv'
    BY <1>1, <1>2, <2>1, FinishedSame DEF IInv
  <2> QED
    BY <1>1, <1>2, <1>4, <2>2 DEF Rest, PlaceInv, RunInv, ThresholdsInv, FiguresInv, InLoop,
       InMode, AfterRun
<1>5. CASE ~(at > Len(selected)) /\ pc' = "sampler" /\ outcome' = outcome
  <2>1. \A d \in Dirs : Finished(d)' => Finished(d)
    BY <1>1, <1>2, <1>5 DEF Finished, Past, Before, InLoop, InMode, AfterRun
  <2>2. FinishedInv'
    BY <1>1, <1>2, <2>1, FinishedSame DEF IInv
  <2>3. at <= Len(selected)
    <3>1. at \in Nat /\ Len(selected) \in Nat
      <4>1. <<>> \in Seq(Workloads)
        OBVIOUS
      <4> QED
        BY <4>1, SelectionsAssumption DEF IInv, TypeOK
    <3> QED
      BY <1>5, <3>1
  <2> QED
    BY <1>1, <1>2, <1>5, <2>2, <2>3 DEF Rest, PlaceInv, RunInv, ThresholdsInv, FiguresInv,
       InLoop, InMode, AfterRun
<1> QED
  BY <1>3, <1>4, <1>5 DEF Loop

LEMMA StartSamplerKeeps ==
    ASSUME IInv, StartSampler
    PROVE  Rest'
<1>1. /\ pc = "sampler" /\ pc' = "start" /\ current = NoDir /\ outcome' = outcome
      /\ outcome # "ok" /\ sampling' = Collect /\ at <= Len(selected)
  BY DEF IInv, PlaceInv, TypeOK, StartSampler, InLoop, InMode
<1>2. UNCHANGED <<at, mode, sweep, selected, before, thresholds, files, used, stats, current>>
  BY DEF StartSampler, script, wrapper, results, history
<1>3. FinishedInv'
  <2>1. \A d \in Dirs : Finished(d)' => Finished(d)
    BY <1>1, <1>2 DEF Finished, Past, Before, Workload, InLoop, InMode, AfterRun
  <2> QED
    BY <1>1, <1>2, <2>1, FinishedSame DEF IInv
<1>4. ThresholdsInv'
  BY <1>1, <1>2 DEF IInv, ThresholdsInv, Workload, InMode, AfterRun
<1> QED
  BY <1>1, <1>2, <1>3, <1>4 DEF Rest, PlaceInv, RunInv, FiguresInv, InLoop, InMode, AfterRun

LEMMA StartRunKeeps ==
    ASSUME IInv, StartRun
    PROVE  Rest'
<1>1. /\ pc = "start" /\ pc' = "run" /\ outcome' = outcome /\ outcome # "ok"
      /\ at <= Len(selected)
  BY DEF IInv, PlaceInv, StartRun, InLoop, InMode
<1>2. UNCHANGED <<at, mode, sweep, selected, before, thresholds, files, stats, sampling>>
  BY DEF StartRun, TwoPhase!Begin, script, results
<1>3. Dir \in Dirs /\ Dir' = Dir
  BY <1>1, <1>2, InBody DEF IInv, Dir, Workload
<1>4. /\ current' = Dir /\ run' = run + 1 /\ verdict' = "none"
      /\ used' = [used EXCEPT ![Dir] = thresholds]
  BY DEF StartRun, TwoPhase!Begin
<1>5. FinishedInv'
  <2>1. \A d \in Dirs : Finished(d)' => Finished(d)
    BY <1>1, <1>2 DEF Finished, Past, Before, Workload, InLoop, InMode, AfterRun
  <2>2. \A d \in Dirs : Finished(d) => used'[d] = used[d]
    BY <1>1, <1>3, <1>4, NotFinished DEF InMode, IInv, TypeOK
  <2> QED
    BY <1>1, <1>2, <2>1, <2>2, FinishedKeeps DEF IInv
<1>6. ThresholdsInv'
  BY <1>1, <1>2 DEF IInv, ThresholdsInv, Workload, InMode, AfterRun
<1>7. RunInv'
  <2>1. run' > before' /\ used'[Dir] = thresholds
    BY <1>2, <1>3, <1>4 DEF IInv, TypeOK
  <2> QED
    BY <1>1, <1>2, <1>3, <1>4, <2>1 DEF RunInv
<1> QED
  BY <1>1, <1>2, <1>3, <1>4, <1>5, <1>6, <1>7 DEF Rest, PlaceInv, FiguresInv, InLoop, InMode,
     AfterRun

LEMMA RunKeeps ==
    ASSUME IInv, Run
    PROVE  Rest'
<1>1. /\ pc = "run" /\ pc' = pc /\ outcome' = outcome /\ outcome # "ok" /\ at <= Len(selected)
      /\ current = Dir /\ current # NoDir /\ verdict # "ok"
  BY DEF IInv, PlaceInv, RunInv, Run, TwoPhase!Proceed, TwoPhase!Replace, TwoPhase!Accept,
     TwoPhase!Reject, InLoop, InMode
<1>2. /\ UNCHANGED <<at, mode, sweep, selected, before, thresholds, sampling, used, stats>>
      /\ run' = run
  BY DEF Run, TwoPhase!Proceed, TwoPhase!Replace, TwoPhase!Accept, TwoPhase!Reject, script,
     results, history
<1>3. Dir \in Dirs /\ Dir' = Dir
  BY <1>1, <1>2, InBody DEF IInv, Dir, Workload
<1>4. \A e \in Dirs : e # Dir => files'[e] = files[e]
  <2>1. CASE \E f \in 1 .. 3, whole \in BOOLEAN : TwoPhase!Replace(f, whole)
    BY <1>1, <2>1 DEF TwoPhase!Replace, IInv, TypeOK
  <2> QED
    BY <2>1 DEF Run, TwoPhase!Proceed, TwoPhase!Accept, TwoPhase!Reject
<1>5. FinishedInv'
  <2>1. \A d \in Dirs : Finished(d)' => Finished(d)
    BY <1>1, <1>2 DEF Finished, Past, Before, Workload, InLoop, InMode, AfterRun
  <2>2. ~Finished(Dir)
    BY <1>1, NotFinished DEF InMode
  <2>3. \A w \in Workloads : Finished(<<w, "model">>) =>
            files'[<<w, "baseline">>] = files[<<w, "baseline">>]
    BY <1>4, <2>2, ModelAfterBaseline, DirsAre DEF Modes
  <2> QED
    BY <1>1, <1>2, <1>4, <2>1, <2>2, <2>3, FinishedKeeps DEF IInv
<1>6. ThresholdsInv'
  <2>1. ASSUME mode = "model"
        PROVE  files'[<<Workload, "baseline">>] = files[<<Workload, "baseline">>]
    <3>1. <<Workload, "baseline">> # Dir
      BY <2>1 DEF Dir
    <3>2. <<Workload, "baseline">> \in Dirs
      BY <1>1, InBody, DirsAre DEF IInv, Modes
    <3> QED
      BY <1>4, <3>1, <3>2
  <2> QED
    BY <1>1, <1>2, <2>1 DEF IInv, ThresholdsInv, Workload, InMode
<1>7. RunInv'
  <2>1. run' > before' /\ used'[Dir] = thresholds'
    BY <1>1, <1>2 DEF IInv, RunInv
  <2>2. verdict' = "ok" =>
            /\ current' = NoDir
            /\ \A f \in 1 .. 3 : files'[Dir][f] = [run |-> run, whole |-> TRUE]
    <3>1. CASE \E f \in 1 .. 3, whole \in BOOLEAN : TwoPhase!Replace(f, whole)
      BY <1>1, <3>1 DEF TwoPhase!Replace
    <3>2. CASE TwoPhase!Accept
      BY <1>1, <3>2 DEF TwoPhase!Accept, TwoPhase!Fresh
    <3>3. CASE TwoPhase!Reject
      BY <3>3 DEF TwoPhase!Reject
    <3> QED
      BY <3>1, <3>2, <3>3 DEF Run, TwoPhase!Proceed
  <2> QED
    BY <1>1, <1>2, <1>3, <2>1, <2>2 DEF RunInv
<1>8. current' \in {Dir, NoDir}
  BY <1>1 DEF Run, TwoPhase!Proceed, TwoPhase!Replace, TwoPhase!Accept, TwoPhase!Reject
<1> QED
  BY <1>1, <1>2, <1>3, <1>5, <1>6, <1>7, <1>8 DEF IInv, PlaceInv, Rest, FiguresInv, InLoop,
     InMode

LEMMA StopSamplerKeeps ==
    ASSUME IInv, StopSampler
    PROVE  Rest'
<1>1. /\ pc = "run" /\ pc' \in {"final", "status"} /\ (Collect => pc' = "final")
      /\ outcome' = outcome /\ outcome # "ok" /\ at <= Len(selected)
      /\ current = NoDir /\ sampling' = FALSE
  BY DEF IInv, PlaceInv, StopSampler, InLoop, InMode
<1>2. UNCHANGED <<at, mode, sweep, selected, before, thresholds, files, used, stats, current,
                  run, verdict>>
  BY DEF StopSampler, script, wrapper, results, history
<1>3. FinishedInv'
  <2>1. \A d \in Dirs : Finished(d)' => Finished(d)
    BY <1>1, <1>2 DEF Finished, Past, Before, Workload, InLoop, InMode, AfterRun
  <2> QED
    BY <1>1, <1>2, <2>1, FinishedSame DEF IInv
<1>4. ThresholdsInv'
  BY <1>1, <1>2 DEF IInv, ThresholdsInv, Workload, InMode, AfterRun
<1>5. RunInv'
  BY <1>1, <1>2 DEF IInv, RunInv, Dir, Workload, AfterRun
<1> QED
  BY <1>1, <1>2, <1>3, <1>4, <1>5 DEF Rest, PlaceInv, FiguresInv, InLoop, InMode, AfterRun

\* After the run the sampler is dead and no run is in progress.
LEMMA AfterRunPlace ==
    ASSUME IInv, pc \in AfterRun
    PROVE  sampling = FALSE /\ current = NoDir /\ at <= Len(selected) /\ outcome # "ok"
BY Zenon DEF IInv, PlaceInv, TypeOK, AfterRun, InLoop, InMode

LEMMA FinalSampleKeeps ==
    ASSUME IInv, NEW answer \in Answers, FinalSample(answer)
    PROVE  Rest'
<1>1. pc = "final" /\ sampling = FALSE /\ current = NoDir /\ at <= Len(selected) /\ outcome # "ok"
  BY AfterRunPlace DEF FinalSample, AfterRun
<1>2. UNCHANGED <<at, mode, sweep, selected, before, thresholds, files, used, current, run,
                  verdict, sampling>>
  BY DEF FinalSample, script, wrapper, history
<1>3. CASE Exit("fail")
  BY <1>1, <1>2, <1>3, FailKeeps DEF Exit
<1>4. CASE pc' = "grep" /\ outcome' = outcome /\ (stats' = stats \/ AddSample)
  <2>1. Dir \in Dirs /\ Dir' = Dir
    BY <1>1, <1>2, InBody DEF IInv, Dir, Workload
  <2>2. \A d \in Dirs : stats[d].samples > 0 => stats'[d].samples > 0
    BY <1>4, <2>1, AddSampleType DEF IInv
  <2>3. FinishedInv'
    <3>1. \A d \in Dirs : Finished(d)' => Finished(d)
      BY <1>1, <1>2, <1>4 DEF Finished, Past, Before, Workload, InLoop, InMode, AfterRun
    <3> QED
      BY <1>1, <1>2, <2>2, <3>1, FinishedKeeps DEF IInv
  <2>4. ThresholdsInv'
    BY <1>1, <1>2, <1>4 DEF IInv, ThresholdsInv, Workload, InMode, AfterRun
  <2>5. RunInv'
    BY <1>1, <1>2, <1>4, <2>1 DEF IInv, RunInv, AfterRun
  <2> QED
    BY <1>1, <1>2, <1>4, <2>3, <2>4, <2>5 DEF Rest, PlaceInv, FiguresInv, InLoop, InMode,
       AfterRun
<1> QED
  BY <1>3, <1>4 DEF FinalSample

LEMMA GrepKeeps ==
    ASSUME IInv, Grep
    PROVE  Rest'
<1>1. pc = "grep" /\ sampling = FALSE /\ current = NoDir /\ at <= Len(selected) /\ outcome # "ok"
  BY AfterRunPlace DEF Grep, AfterRun
<1>2. UNCHANGED <<at, mode, sweep, selected, before, thresholds, files, used, stats, current,
                  run, verdict, sampling>>
  BY DEF Grep, script, wrapper, results, history
<1>3. CASE Exit("fail")
  BY <1>1, <1>2, <1>3, FailKeeps DEF Exit
<1>4. CASE stats[Dir].samples > 0 /\ pc' = "status" /\ outcome' = outcome
  <2>1. FinishedInv'
    <3>1. \A d \in Dirs : Finished(d)' => Finished(d)
      BY <1>1, <1>2, <1>4 DEF Finished, Past, Before, Workload, InLoop, InMode, AfterRun
    <3> QED
      BY <1>1, <1>2, <3>1, FinishedSame DEF IInv
  <2>2. ThresholdsInv'
    BY <1>1, <1>2, <1>4 DEF IInv, ThresholdsInv, Workload, InMode, AfterRun
  <2>3. RunInv'
    BY <1>1, <1>2, <1>4 DEF IInv, RunInv, Dir, Workload, AfterRun
  <2> QED
    BY <1>1, <1>2, <1>4, <2>1, <2>2, <2>3 DEF Rest, PlaceInv, FiguresInv, InLoop, InMode,
       AfterRun
<1> QED
  BY <1>3, <1>4 DEF Grep

\* What is finished when a mode is: what was, and this mode's directory.
LEMMA StatusFinishes ==
    ASSUME IInv, pc = "status", AfterMode, UNCHANGED selected,
           NEW d \in Dirs, Finished(d)'
    PROVE  Finished(d) \/ d = Dir
<1>1. at \in Nat /\ at >= 1
  BY DEF IInv, TypeOK
<1>2. d[2] \in Modes /\ d = <<d[1], d[2]>>
  BY DEF Dirs
<1>3. CASE mode = "baseline" /\ pc' = "extract" /\ UNCHANGED <<mode, at>>
  BY <1>2, <1>3 DEF Finished, Past, Before, Workload, Dir, InLoop, InMode, AfterRun
<1>4. CASE mode = "model" /\ pc' = "sampler" /\ mode' = "nofdp" /\ UNCHANGED at
  BY <1>2, <1>4 DEF Finished, Past, Before, Workload, Dir, InLoop, InMode, AfterRun
<1>5. CASE mode = "nofdp" /\ pc' = "loop" /\ at' = at + 1 /\ mode' = "baseline"
  <2>1. PICK i \in 1 .. at : i <= Len(selected) /\ selected[i] = d[1]
    BY <1>1, <1>5 DEF Finished, Past, InLoop, InMode, AfterRun
  <2>2. CASE d[1] = Workload
    BY <1>2, <1>5, <2>2 DEF Finished, Before, Dir, Modes, InLoop, InMode, AfterRun
  <2>3. CASE d[1] # Workload
    <3>1. i \in 1 .. at - 1
      BY <1>1, <2>1, <2>3 DEF Workload
    <3> QED
      BY <2>1, <2>3, <3>1 DEF Finished, Past
  <2> QED
    BY <2>2, <2>3
<1> QED
  BY <1>3, <1>4, <1>5 DEF AfterMode

LEMMA StatusKeeps ==
    ASSUME IInv, Status
    PROVE  Rest'
<1>1. pc = "status" /\ sampling = FALSE /\ current = NoDir /\ at <= Len(selected) /\ outcome # "ok"
  BY AfterRunPlace DEF Status, AfterRun
<1>2. UNCHANGED <<sweep, selected, before, thresholds, files, used, stats, current, run,
                  verdict, sampling>>
  BY DEF Status, script, wrapper, results, history
<1>3. CASE Exit("fail")
  BY <1>1, <1>2, <1>3, FailKeeps DEF Exit
<1>4. CASE verdict = "ok" /\ AfterMode /\ outcome' = outcome
  <2>1. Dir \in Dirs
    BY <1>1, InBody DEF IInv
  <2>2. /\ Whole(Dir) /\ (Collect => stats[Dir].samples > 0)
        /\ used[Dir] = thresholds
    <3>1. /\ run > before /\ (Collect => stats[Dir].samples > 0) /\ used[Dir] = thresholds
          /\ \A f \in 1 .. 3 : files[Dir][f] = [run |-> run, whole |-> TRUE]
      BY <1>1, <1>4 DEF IInv, RunInv, AfterRun
    <3>2. 1 \in 1 .. 3 /\ [run |-> run, whole |-> TRUE].run = run
      OBVIOUS
    <3>3. files[Dir][1].run = run
      BY <3>1, <3>2
    <3> QED
      BY <3>1, <3>3 DEF Whole
  <2>3. mode = "model" => thresholds = files[<<Workload, "baseline">>][3].run
    BY <1>1 DEF IInv, ThresholdsInv, InMode, AfterRun
  <2>4. FinishedInv'
    <3>1. ASSUME NEW d \in Dirs, Finished(d)'
          PROVE  Whole(d)' /\ (Collect => stats'[d].samples > 0)
      <4>1. Finished(d) \/ d = Dir
        BY <1>1, <1>2, <1>4, <3>1, StatusFinishes
      <4>2. Whole(d) /\ (Collect => stats[d].samples > 0)
        BY <1>1, <2>2, <4>1 DEF IInv, FinishedInv
      <4> QED
        BY <1>2, <4>2 DEF Whole
    <3>2. ASSUME NEW w \in Workloads, Finished(<<w, "model">>)'
          PROVE  used'[<<w, "model">>] = files'[<<w, "baseline">>][3].run
      <4>1. Finished(<<w, "model">>) \/ <<w, "model">> = Dir
        BY <1>1, <1>2, <1>4, <3>2, StatusFinishes, DirsAre DEF Modes
      <4>2. CASE Finished(<<w, "model">>)
        BY <1>1, <1>2, <4>2 DEF IInv, FinishedInv
      <4>3. CASE <<w, "model">> = Dir
        <5>1. w = Workload /\ mode = "model"
          BY <4>3 DEF Dir
        <5> QED
          BY <1>2, <2>2, <2>3, <4>3, <5>1
      <4> QED
        BY <4>1, <4>2, <4>3
    <3> QED
      BY <3>1, <3>2 DEF FinishedInv
  <2>5. at \in Nat /\ pc' \in {"extract", "sampler", "loop"} /\ mode' \in {"baseline", "nofdp"}
        /\ (pc' \in {"extract", "loop"} => mode' = "baseline")
        /\ (pc' # "loop" => at' = at)
    BY <1>4 DEF AfterMode, IInv, TypeOK
  <2> QED
    BY <1>1, <1>2, <1>4, <2>4, <2>5 DEF Rest, PlaceInv, RunInv, ThresholdsInv, FiguresInv,
       InLoop, InMode, AfterRun
<1> QED
  BY <1>3, <1>4 DEF Status

\* Between the runs of a workload no run is in progress.
LEMMA BetweenPlace ==
    ASSUME IInv, pc \in {"extract", "export"}
    PROVE  /\ sampling = FALSE /\ current = NoDir /\ at <= Len(selected) /\ outcome # "ok"
           /\ mode = "baseline"
BY Zenon DEF IInv, PlaceInv, TypeOK, AfterRun, InLoop, InMode

LEMMA ExtractKeeps ==
    ASSUME IInv, NEW ok \in BOOLEAN, Extract(ok)
    PROVE  Rest'
<1>1. /\ pc = "extract" /\ sampling = FALSE /\ current = NoDir /\ at <= Len(selected)
      /\ outcome # "ok" /\ mode = "baseline"
  BY BetweenPlace DEF Extract
<1>2. UNCHANGED <<at, mode, sweep, selected, before, thresholds, files, used, stats, current,
                  run, verdict, sampling>>
  BY DEF Extract, script, wrapper, history
<1>3. CASE Exit("fail")
  BY <1>1, <1>2, <1>3, FailKeeps DEF Exit
<1>4. CASE /\ p25' = [p25 EXCEPT ![Workload] = files[<<Workload, "baseline">>][3].run]
           /\ pc' = "export" /\ outcome' = outcome
  <2>1. FinishedInv'
    <3>1. \A d \in Dirs : Finished(d)' => Finished(d)
      BY <1>1, <1>2, <1>4 DEF Finished, Past, Before, Workload, InLoop, InMode, AfterRun
    <3> QED
      BY <1>1, <1>2, <3>1, FinishedSame DEF IInv
  <2>2. p25'[Workload] = files[<<Workload, "baseline">>][3].run
    BY <1>1, <1>4, InBody DEF IInv, TypeOK
  <2> QED
    BY <1>1, <1>2, <1>4, <2>1, <2>2 DEF Rest, PlaceInv, RunInv, ThresholdsInv, FiguresInv,
       Workload, InLoop, InMode, AfterRun
<1> QED
  BY <1>3, <1>4 DEF Extract

LEMMA ExportKeeps ==
    ASSUME IInv, NEW ok \in BOOLEAN, Export(ok)
    PROVE  Rest'
<1>1. /\ pc = "export" /\ sampling = FALSE /\ current = NoDir /\ at <= Len(selected)
      /\ outcome # "ok" /\ mode = "baseline"
  BY BetweenPlace DEF Export
<1>2. UNCHANGED <<at, sweep, selected, before, files, used, stats, current, run, verdict,
                  sampling>>
  BY DEF Export, script, wrapper, results, history
<1>3. CASE Exit("fail")
  BY <1>1, <1>2, <1>3, FailKeeps DEF Exit
<1>4. CASE /\ thresholds' = p25[Workload] /\ pc' = "sampler" /\ mode' = "model"
           /\ outcome' = outcome
  <2>1. FinishedInv'
    <3>1. \A d \in Dirs : Finished(d)' => Finished(d)
      BY <1>1, <1>2, <1>4 DEF Finished, Past, Before, Workload, InLoop, InMode, AfterRun
    <3> QED
      BY <1>1, <1>2, <3>1, FinishedSame DEF IInv
  <2>2. thresholds' = files[<<Workload, "baseline">>][3].run
    BY <1>1, <1>4 DEF IInv, ThresholdsInv
  <2> QED
    BY <1>1, <1>2, <1>4, <2>1, <2>2 DEF Rest, PlaceInv, RunInv, ThresholdsInv, FiguresInv,
       Workload, InLoop, InMode, AfterRun
<1> QED
  BY <1>3, <1>4 DEF Export

\* After the loop no run is in progress.
LEMMA FiguresPlace ==
    ASSUME IInv, pc \in {"csv", "dlwa"}
    PROVE  sampling = FALSE /\ current = NoDir /\ at > Len(selected) /\ outcome # "ok"
BY Zenon DEF IInv, PlaceInv, TypeOK, AfterRun, InLoop, InMode

\* What is finished after the loop does not depend on the position.
LEMMA FinishedAfterLoop ==
    ASSUME FinishedInv, pc \in {"csv", "dlwa"}, pc' \in {"dlwa", "idle"},
           UNCHANGED <<at, selected, before, sweep, files, used, stats>>
    PROVE  FinishedInv'
<1>1. \A d \in Dirs : Finished(d)' => Finished(d)
  BY DEF Finished, Past, InLoop, InMode, AfterRun
<1> QED
  BY <1>1, FinishedSame

LEMMA CsvKeeps ==
    ASSUME IInv, NEW ok \in BOOLEAN, Csv(ok)
    PROVE  Rest'
<1>1. pc = "csv" /\ sampling = FALSE /\ current = NoDir /\ at > Len(selected) /\ outcome # "ok"
  BY FiguresPlace DEF Csv
<1>2. UNCHANGED <<at, mode, sweep, selected, before, files, used, stats, current, sampling>>
  BY DEF Csv, script, wrapper, history
<1>3. CASE Exit("fail")
  BY <1>1, <1>2, <1>3, FailKeeps DEF Exit
<1>4. CASE /\ throughput' = [d \in Dirs |-> IF IsSelected(d[1]) THEN files[d][2].run ELSE 0]
           /\ pc' = "dlwa" /\ outcome' = outcome
  <2>1. FinishedInv'
    BY <1>1, <1>2, <1>4, FinishedAfterLoop DEF IInv
  <2>2. FiguresInv'
    BY <1>2, <1>4 DEF FiguresInv, SelectedDirs, IsSelected
  <2> QED
    BY <1>1, <1>2, <1>4, <2>1, <2>2 DEF Rest, PlaceInv, RunInv, ThresholdsInv, InLoop, InMode,
       AfterRun
<1> QED
  BY <1>3, <1>4 DEF Csv

LEMMA DlwaKeeps ==
    ASSUME IInv, NEW w \in WithDlwa, NEW ok \in BOOLEAN, Dlwa(w, ok)
    PROVE  Rest'
<1>1. pc = "dlwa" /\ sampling = FALSE /\ current = NoDir /\ at > Len(selected) /\ outcome # "ok"
  BY FiguresPlace DEF Dlwa
<1>2. UNCHANGED <<at, mode, sweep, selected, before, files, used, stats, current, sampling,
                  throughput>>
  BY DEF Dlwa, script, wrapper, history
<1>3. CASE Exit("fail")
  BY <1>1, <1>2, <1>3, FailKeeps DEF Exit
<1>4. CASE pc' = pc /\ outcome' = outcome
  <2>1. FinishedInv'
    BY <1>1, <1>2, <1>4, FinishedAfterLoop DEF IInv
  <2>2. FiguresInv'
    BY <1>1, <1>2, <1>4 DEF IInv, FiguresInv, SelectedDirs, IsSelected
  <2> QED
    BY <1>1, <1>2, <1>4, <2>1, <2>2 DEF Rest, PlaceInv, RunInv, ThresholdsInv, InLoop, InMode,
       AfterRun
<1> QED
  BY <1>3, <1>4 DEF Dlwa

LEMMA CompleteKeeps ==
    ASSUME IInv, Complete
    PROVE  Rest'
<1>1. pc = "dlwa" /\ sampling = FALSE /\ current = NoDir /\ at > Len(selected)
  BY FiguresPlace DEF Complete
<1>2. /\ UNCHANGED <<at, mode, sweep, selected, before, files, used, stats, current, sampling,
                     throughput>>
      /\ pc' = "idle"
  BY DEF Complete, Exit, script, wrapper, results, history
<1>3. FinishedInv'
  BY <1>1, <1>2, FinishedAfterLoop DEF IInv
<1>4. FiguresInv'
  BY <1>1, <1>2 DEF IInv, FiguresInv, SelectedDirs, IsSelected
<1> QED
  BY <1>1, <1>2, <1>3, <1>4 DEF Rest, PlaceInv, RunInv, ThresholdsInv, InLoop, InMode, AfterRun

SomeSample == \E answer \in {"nothing", "counters"} : Sample(answer)

\* The sampler and the trap move nothing but the statistics.
LEMMA SamplerKeeps ==
    ASSUME IInv, SomeSample \/ SamplerDies \/ Trap
    PROVE  Rest'
<1>1. /\ pc \in {"start", "run"} /\ pc' = pc /\ at <= Len(selected) /\ outcome' = outcome
      /\ outcome # "ok" /\ (sampling' \in {sampling, FALSE})
  <2>1. sampling
    BY DEF SomeSample, Sample, SamplerDies, Trap
  <2>2. pc \in {"start", "run"}
    BY <2>1, Zenon DEF IInv, PlaceInv
  <2>3. pc' = pc /\ outcome' = outcome /\ sampling' \in {sampling, FALSE}
    BY Zenon DEF SomeSample, Sample, SamplerDies, Trap
  <2> QED
    BY <2>2, <2>3, Zenon DEF IInv, PlaceInv, InLoop, InMode
<1>2. UNCHANGED <<at, mode, sweep, selected, before, thresholds, files, used, current, run,
                  verdict, p25, throughput>>
  BY DEF SomeSample, Sample, SamplerDies, Trap, script, wrapper, results, history
<1>3. \A d \in Dirs : stats[d].samples > 0 => stats'[d].samples > 0
  <2>1. Dir \in Dirs
    BY <1>1, InBody DEF IInv
  <2>2. stats' = stats \/ AddSample
    BY DEF SomeSample, Sample, SamplerDies, Trap, results
  <2> QED
    BY <2>1, <2>2, AddSampleType DEF IInv
<1>4. FinishedInv'
  <2>1. \A d \in Dirs : Finished(d)' => Finished(d)
    BY <1>1, <1>2 DEF Finished, Past, Before, Workload
  <2> QED
    BY <1>1, <1>2, <1>3, <2>1, FinishedKeeps DEF IInv
<1>5. ThresholdsInv'
  BY <1>1, <1>2 DEF IInv, ThresholdsInv, Workload
<1>6. RunInv'
  BY <1>1, <1>2 DEF IInv, RunInv, Dir, Workload, AfterRun
<1>7. PlaceInv'
  BY <1>1, <1>2 DEF IInv, PlaceInv, Dir, Workload, InLoop, InMode
<1> QED
  BY <1>1, <1>4, <1>5, <1>6, <1>7 DEF Rest, FiguresInv

LEMMA KillKeeps ==
    ASSUME IInv, Kill
    PROVE  Rest'
<1>1. pc' = "idle" /\ outcome' = "fail" /\ sampling' = FALSE /\ current' = NoDir
  BY DEF Kill, Exit, TwoPhase!Reject, wrapper
<1> QED
  BY <1>1, FailKeeps

LEMMA StutterKeeps ==
    ASSUME IInv, UNCHANGED vars
    PROVE  Rest'
<1>1. /\ UNCHANGED <<pc, outcome, at, mode, thresholds, sampling, sweep, selected, before>>
      /\ UNCHANGED <<current, run, files, verdict, p25, stats, throughput, used>>
  BY DEF vars, script, wrapper, results, history
<1>2. \A d \in Dirs : Finished(d)' = Finished(d) /\ Whole(d)' = Whole(d)
  BY <1>1 DEF Finished, Past, Before, Whole, Workload
<1>3. FinishedInv'
  BY <1>1, <1>2, DirsAre DEF IInv, FinishedInv, Modes
<1>4. PlaceInv' /\ RunInv' /\ ThresholdsInv' /\ FiguresInv'
  BY <1>1 DEF IInv, PlaceInv, RunInv, ThresholdsInv, FiguresInv, Dir, Workload, SelectedDirs,
     IsSelected
<1> QED
  BY <1>3, <1>4 DEF Rest

LEMMA RestStep == IInv /\ [Next]_vars => Rest'
<1> SUFFICES ASSUME IInv, [Next]_vars PROVE Rest'
  OBVIOUS
<1>1. CASE \E s \in Selections : Begin(s)
  BY <1>1, BeginKeeps
<1>2. CASE StartSampler \/ StartRun \/ StopSampler
  BY <1>2, StartSamplerKeeps, StartRunKeeps, StopSamplerKeeps
<1>3. CASE Grep \/ Status \/ Complete
  BY <1>3, GrepKeeps, StatusKeeps, CompleteKeeps
<1>4. CASE \/ \E answer \in Answers : FinalSample(answer)
           \/ \E ok \in BOOLEAN : Loop(ok) \/ Extract(ok)
  BY <1>4, LoopKeeps, FinalSampleKeeps, ExtractKeeps
<1>5. CASE \E ok \in BOOLEAN : Export(ok) \/ Csv(ok) \/ \E w \in WithDlwa : Dlwa(w, ok)
  BY <1>5, ExportKeeps, CsvKeeps, DlwaKeeps
<1>6. CASE Run
  BY <1>6, RunKeeps
<1>7. CASE SomeSample \/ SamplerDies \/ Trap
  BY <1>7, SamplerKeeps
<1>8. CASE Kill
  BY <1>8, KillKeeps
<1>9. CASE UNCHANGED vars
  BY <1>9, StutterKeeps
<1> QED
  BY <1>1, <1>2, <1>3, <1>4, <1>5, <1>6, <1>7, <1>8, <1>9, Zenon DEF Next, Step, SomeSample

------------------------------------------------------------------------------
\* What the logs hold.

\* Whatever a step appends to a log, it removes nothing from any.
LEMMA StatsStep ==
    ASSUME IInv, [Next]_vars
    PROVE  stats' = stats \/ (AddSample /\ Dir \in Dirs /\ sweep > 0 /\ sweep' = sweep)
<1>1. CASE \E answer \in Answers : FinalSample(answer)
  <2>1. pc = "final" /\ sweep' = sweep /\ (stats' = stats \/ AddSample)
    BY <1>1 DEF FinalSample, script
  <2> QED
    BY <2>1, AfterRunPlace, InBody DEF IInv, LogInv, AfterRun
<1>2. CASE SomeSample
  <2>1. sampling /\ sweep' = sweep /\ (stats' = stats \/ AddSample)
    BY <1>2 DEF SomeSample, Sample, script
  <2>2. pc \in {"start", "run"} /\ at <= Len(selected)
    BY <2>1, Zenon DEF IInv, PlaceInv, InLoop, InMode
  <2> QED
    BY <2>1, <2>2, InBody DEF IInv, LogInv
<1>3. CASE \/ \E s \in Selections : Begin(s)
           \/ StartSampler \/ StartRun \/ StopSampler \/ Grep \/ Status \/ Complete
           \/ Run \/ SamplerDies \/ Trap \/ Kill \/ UNCHANGED vars
  BY <1>3 DEF Begin, StartSampler, StartRun, StopSampler, Grep, Status, Complete, Run,
     SamplerDies, Trap, Kill, vars, results
<1>4. CASE \E ok \in BOOLEAN :
              Loop(ok) \/ Extract(ok) \/ Export(ok) \/ Csv(ok) \/ \E w \in WithDlwa : Dlwa(w, ok)
  BY <1>4 DEF Loop, Extract, Export, Csv, Dlwa, results
<1> QED
  BY <1>1, <1>2, <1>3, <1>4, Zenon DEF Next, Step, SomeSample

\* A figure of write amplification is made from two samples of each log.
LEMMA DlwaStep ==
    ASSUME IInv, [Next]_vars
    PROVE  \/ dlwa' = dlwa
           \/ \E w \in WithDlwa : /\ dlwa' = [dlwa EXCEPT ![w] = sweep] /\ sweep > 0
                                  /\ stats' = stats
                                  /\ \A m \in {"baseline", "model"} : stats[<<w, m>>].samples >= 2
<1>1. CASE \E w \in WithDlwa, ok \in BOOLEAN : Dlwa(w, ok)
  BY <1>1, Zenon DEF Dlwa, IInv, LogInv
<1>2. CASE \/ \E s \in Selections : Begin(s)
           \/ StartSampler \/ StartRun \/ StopSampler \/ Grep \/ Status \/ Complete
           \/ Run \/ SomeSample \/ SamplerDies \/ Trap \/ Kill \/ UNCHANGED vars
  BY <1>2 DEF Begin, StartSampler, StartRun, StopSampler, Grep, Status, Complete, Run,
     SomeSample, Sample, SamplerDies, Trap, Kill, vars, results
<1>3. CASE \/ \E answer \in Answers : FinalSample(answer)
           \/ \E ok \in BOOLEAN : Loop(ok) \/ Extract(ok) \/ Export(ok) \/ Csv(ok)
  BY <1>3 DEF Loop, FinalSample, Extract, Export, Csv, results
<1> QED
  BY <1>1, <1>2, <1>3, Zenon DEF Next, Step, SomeSample

\* A sweep is in progress or complete only when it was begun, and complete only
\* when no figure is left to make.
LEMMA OutcomeStep ==
    ASSUME IInv, [Next]_vars
    PROVE  /\ pc' # "idle" \/ outcome' = "ok" => sweep' > 0
           /\ outcome' = "ok" => \/ Complete
                                 \/ outcome = "ok" /\ UNCHANGED <<selected, dlwa>>
<1>1. pc # "idle" => outcome # "ok" /\ sweep > 0
  BY Zenon DEF IInv, PlaceInv, LogInv
<1>2. CASE \E s \in Selections : Begin(s)
  <2>1. sweep \in Nat
    BY DEF IInv, TypeOK
  <2> QED
    BY <1>2, <2>1 DEF Begin
<1>3. CASE Complete
  BY <1>1, <1>3 DEF Complete, Exit, script
<1>4. CASE \/ StartSampler \/ StartRun \/ StopSampler \/ Grep \/ Status \/ Run \/ Kill
           \/ \E answer \in Answers : FinalSample(answer)
           \/ \E ok \in BOOLEAN : Loop(ok) \/ Extract(ok) \/ Export(ok) \/ Csv(ok)
           \/ \E w \in WithDlwa, ok \in BOOLEAN : Dlwa(w, ok)
  <2>1. pc # "idle" /\ sweep' = sweep /\ (outcome' = outcome \/ outcome' = "fail")
    BY <1>4, Zenon DEF StartSampler, StartRun, StopSampler, Grep, Status, Run, Kill, FinalSample,
       Loop, Extract, Export, Csv, Dlwa, Exit, script
  <2> QED
    BY <1>1, <2>1
<1>5. CASE SomeSample \/ SamplerDies \/ Trap \/ UNCHANGED vars
  <2>1. UNCHANGED <<pc, outcome, sweep, selected, dlwa>>
    BY <1>5 DEF SomeSample, Sample, SamplerDies, Trap, vars, script, results
  <2> QED
    BY <2>1, Zenon DEF IInv, LogInv
<1> QED
  BY <1>2, <1>3, <1>4, <1>5, Zenon DEF Next, Step, SomeSample

LEMMA LogInit == Init => LogInv
BY WorkloadsAssumption, DirsAre DEF Init, LogInv, NoStats, Modes

LEMMA LogStep == IInv /\ [Next]_vars => LogInv'
<1> SUFFICES ASSUME IInv, [Next]_vars PROVE LogInv'
  OBVIOUS
<1>1. \A d \in Dirs : stats'[d].samples > 0 => stats'[d].last > 0
  BY StatsStep, AddSampleType DEF IInv, LogInv
<1>2. ASSUME NEW w \in WithDlwa, NEW m \in {"baseline", "model"}, dlwa'[w] > 0
      PROVE  stats'[<<w, m>>].samples >= 2
  <2>1. <<w, m>> \in ReportedDirs /\ <<w, m>> \in Dirs
    BY DirsAre DEF ReportedDirs
  <2>2. stats[<<w, m>>].samples >= 2 => stats'[<<w, m>>].samples >= 2
    BY <2>1, StatsStep, AddSampleType DEF IInv
  <2>3. CASE dlwa' = dlwa
    BY <1>2, <2>2, <2>3 DEF IInv, LogInv
  <2>4. CASE \E v \in WithDlwa : /\ dlwa' = [dlwa EXCEPT ![v] = sweep]
                                 /\ \A k \in {"baseline", "model"} : stats[<<v, k>>].samples >= 2
    <3>1. PICK v \in WithDlwa : /\ dlwa' = [dlwa EXCEPT ![v] = sweep]
                                /\ \A k \in {"baseline", "model"} : stats[<<v, k>>].samples >= 2
      BY <2>4
    <3>2. v = w \/ dlwa[w] > 0
      BY <1>2, <3>1 DEF IInv, TypeOK
    <3> QED
      BY <2>2, <3>1, <3>2 DEF IInv, LogInv
  <2> QED
    BY <2>3, <2>4, DlwaStep
<1>3. ASSUME outcome' = "ok", Collect, NEW w \in WithDlwa, IsSelected(w)'
      PROVE  dlwa'[w] > 0
  <2>1. CASE Complete
    <3>1. ToReport = {} /\ IsSelected(w) /\ dlwa' = dlwa /\ sweep > 0
      BY <1>3, <2>1, Zenon DEF Complete, IsSelected, script, results, IInv, LogInv
    <3> QED
      BY <1>3, <3>1 DEF ToReport
  <2>2. CASE outcome = "ok" /\ UNCHANGED <<selected, dlwa>>
    BY <1>3, <2>2 DEF IInv, LogInv, IsSelected
  <2> QED
    BY <1>3, <2>1, <2>2, OutcomeStep
<1> QED
  BY <1>1, <1>2, <1>3, OutcomeStep, Zenon DEF LogInv

------------------------------------------------------------------------------
\* Theorems.

\* In every state of every execution, the variables have their types, the
\* position tells what is in progress, the accepted run of the present mode has
\* its files, and what the loop has finished is whole and keeps together.
THEOREM SweepInvariance == Spec => []IInv
<1>1. Init => IInv
  BY TypeInit, RestInit, LogInit DEF IInv, Rest
<1>2. IInv /\ [Next]_vars => IInv'
  BY TypeStep, RestStep, LogStep DEF IInv, Rest
<1> QED
  BY <1>1, <1>2, PTL DEF Spec

\* run_figure6.sh and all it starts keep every variable in its type: no run or
\* sweep that has not begun is ever named in a file.
THEOREM SweepTypeCorrect == Spec => []TypeOK
<1>1. IInv => TypeOK
  BY DEF IInv
<1> QED
  BY <1>1, SweepInvariance, PTL

\* When a sweep is complete, each selected directory is finished.
LEMMA CompletedIsFinished ==
    ASSUME IInv, outcome = "ok", NEW d \in SelectedDirs
    PROVE  d \in Dirs /\ Finished(d)
<1>1. pc = "idle" /\ at > Len(selected)
  BY DEF IInv, PlaceInv
<1>2. at \in Nat /\ Len(selected) \in Nat
  <2>1. <<>> \in Seq(Workloads)
    OBVIOUS
  <2> QED
    BY <2>1, SelectionsAssumption DEF IInv, TypeOK
<1>3. PICK i \in 1 .. Len(selected) : selected[i] = d[1]
  BY DEF SelectedDirs, IsSelected
<1>4. i \in 1 .. at - 1 /\ i <= Len(selected)
  BY <1>1, <1>2, <1>3
<1> QED
  BY <1>1, <1>3, <1>4, Zenon DEF SelectedDirs, Finished, Past, InLoop, InMode, AfterRun

\* A completed sweep has, for each selected workload and mode, the three whole
\* files of one run of its own, and the throughput figure is made of them, for
\* any number of earlier sweeps of any selections in the same OUTPUT_ROOT.
THEOREM CompletedSweepsAreOwn == Spec => []CompletedIsOfThisSweep
<1>1. IInv => CompletedIsOfThisSweep
  <2> SUFFICES ASSUME IInv, outcome = "ok", NEW d \in SelectedDirs
               PROVE  Whole(d) /\ throughput[d] = files[d][2].run
    BY DEF CompletedIsOfThisSweep, Whole
  <2>1. Whole(d)
    BY CompletedIsFinished DEF IInv, FinishedInv
  <2>2. throughput[d] = files[d][2].run
    BY DEF IInv, FiguresInv
  <2> QED
    BY <2>1, <2>2
<1> QED
  BY <1>1, SweepInvariance, PTL

\* A model run, while it is in progress and when its sweep is complete, has the
\* thresholds of the whole LOG of the baseline of its workload and sweep.
THEOREM ThresholdsAreMatching == Spec => []ThresholdsMatch
<1>1. IInv => ThresholdsMatch
  <2> SUFFICES ASSUME IInv, NEW w \in Workloads,
                      current = <<w, "model">> \/ (outcome = "ok" /\ IsSelected(w))
               PROVE  LET LOG == files[<<w, "baseline">>][3]
                      IN  used[<<w, "model">>] = LOG.run /\ LOG.whole /\ LOG.run > before
    BY DEF ThresholdsMatch
  <2>1. <<w, "baseline">> \in Dirs /\ <<w, "model">> \in Dirs
    BY DirsAre DEF Modes
  <2>2. /\ Finished(<<w, "baseline">>)
        /\ used[<<w, "model">>] = files[<<w, "baseline">>][3].run
        /\ pc # "idle" \/ outcome = "ok"
    <3>1. CASE current = <<w, "model">>
      <4>1. pc = "run" /\ <<w, "model">> = Dir
        BY <2>1, <3>1, DirsAre DEF IInv, PlaceInv
      <4>2. w = Workload /\ mode = "model"
        BY <4>1 DEF Dir
      <4>3. Finished(<<w, "baseline">>)
        BY <4>1, <4>2 DEF Finished, Before, InLoop, InMode
      <4>4. used[Dir] = thresholds /\ thresholds = files[<<Workload, "baseline">>][3].run
        BY <4>1, <4>2 DEF IInv, RunInv, ThresholdsInv, InMode
      <4> QED
        BY <4>1, <4>2, <4>3, <4>4
    <3>2. CASE outcome = "ok" /\ IsSelected(w)
      <4>1. <<w, "baseline">> \in SelectedDirs /\ <<w, "model">> \in SelectedDirs
        BY <2>1, <3>2 DEF SelectedDirs
      <4>2. Finished(<<w, "baseline">>) /\ Finished(<<w, "model">>)
        BY <3>2, <4>1, CompletedIsFinished
      <4> QED
        BY <3>2, <4>2 DEF IInv, FinishedInv
    <3> QED
      BY <3>1, <3>2
  <2>3. Whole(<<w, "baseline">>)
    BY <2>1, <2>2 DEF IInv, FinishedInv
  <2>4. /\ files[<<w, "baseline">>][3]
             = [run |-> files[<<w, "baseline">>][1].run, whole |-> TRUE]
        /\ files[<<w, "baseline">>][1].run > before
    BY <2>3 DEF Whole
  <2>5. /\ files[<<w, "baseline">>][3].whole = TRUE
        /\ files[<<w, "baseline">>][3].run > before
    BY <2>4
  <2> QED
    BY <2>2, <2>5, Zenon
<1> QED
  BY <1>1, SweepInvariance, PTL

\* Whatever nvme prints, and of any earlier sweeps: a completed sweep that
\* collects the device's counters has some in the log of each of its runs, and
\* two samples in those that a figure of write amplification was made from.
THEOREM CountersAreTaken == Spec => []CountersInLog
<1>1. IInv => CountersInLog
  <2> SUFFICES ASSUME IInv, outcome = "ok", Collect, NEW d \in SelectedDirs
               PROVE  stats[d].samples > 0 /\ (d \in ReportedDirs => stats[d].samples >= 2)
    BY DEF CountersInLog
  <2>1. stats[d].samples > 0
    BY CompletedIsFinished DEF IInv, FinishedInv
  <2>2. ASSUME d \in ReportedDirs PROVE stats[d].samples >= 2
    <3>1. PICK w \in WithDlwa, m \in {"baseline", "model"} : d = <<w, m>>
      BY <2>2 DEF ReportedDirs
    <3>2. IsSelected(w)
      BY <3>1 DEF SelectedDirs
    <3>3. dlwa[w] > 0
      BY <3>2 DEF IInv, LogInv
    <3> QED
      BY <3>1, <3>3 DEF IInv, LogInv
  <2> QED
    BY <2>1, <2>2
<1> QED
  BY <1>1, SweepInvariance, PTL

\* On an OUTPUT_ROOT that no sweep used before, the counters are of the sweep
\* that completes: where the tests of the log mean what the document says.
THEOREM FirstSweepsAreCounted ==
    ASSUME MaxSweeps <= 1
    PROVE  Spec => []CountersOfThisSweep
<1>1. IInv => CountersOfThisSweep
  <2> SUFFICES ASSUME IInv, outcome = "ok", Collect, NEW d \in SelectedDirs
               PROVE  stats[d].last = sweep
    BY DEF CountersOfThisSweep
  <2>1. d \in Dirs /\ stats[d].samples > 0
    BY CompletedIsFinished DEF IInv, FinishedInv
  <2>2. stats[d].last > 0
    BY <2>1 DEF IInv, LogInv
  <2>3. sweep \in 0 .. MaxSweeps /\ stats[d].last \in 0 .. sweep
    BY <2>1 DEF IInv, TypeOK
  <2> QED
    BY <2>2, <2>3, BoundsAssumption
<1> QED
  BY <1>1, SweepInvariance, PTL

------------------------------------------------------------------------------
\* Why a sweep ends.

LEMMA FiguresToMake ==
    ASSUME TypeOK
    PROVE  /\ Cardinality(WithDlwa) \in Nat /\ Cardinality(ToReport) \in Nat
           /\ IsFiniteSet(ToReport) /\ Cardinality(ToReport) <= Cardinality(WithDlwa)
           /\ Len(selected) \in Nat /\ at \in Nat /\ at <= Len(selected) + 1
<1>1. ToReport \subseteq WithDlwa
  BY DEF ToReport
<1>2. /\ IsFiniteSet(ToReport) /\ Cardinality(ToReport) <= Cardinality(WithDlwa)
      /\ Cardinality(WithDlwa) \in Nat /\ Cardinality(ToReport) \in Nat
  BY <1>1, WorkloadsAssumption, FS_Subset, FS_CardinalityType
<1>3. Len(selected) \in Nat
  <2>1. <<>> \in Seq(Workloads)
    OBVIOUS
  <2> QED
    BY <2>1, SelectionsAssumption DEF TypeOK
<1> QED
  BY <1>2, <1>3 DEF TypeOK

\* What is left at each place.
OtherWorkloads == 3 + Cardinality(WithDlwa) + 21 * (Len(selected) - at)
OtherModes == ModesAfter[mode]
LeftByPlace ==
    /\ OtherWorkloads \in Int /\ OtherModes \in 0 .. 14
    /\ pc = "loop" => Left = OtherWorkloads + 21
    /\ pc = "sampler" => Left = OtherWorkloads + 6 + OtherModes
    /\ pc = "start" => Left = OtherWorkloads + 5 + OtherModes
    /\ pc = "run" => Left = OtherWorkloads + 4 + OtherModes
    /\ pc = "final" => Left = OtherWorkloads + 3 + OtherModes
    /\ pc = "grep" => Left = OtherWorkloads + 2 + OtherModes
    /\ pc = "status" => Left = OtherWorkloads + 1 + OtherModes
    /\ pc = "extract" => Left = OtherWorkloads + 14
    /\ pc = "export" => Left = OtherWorkloads + 13
    /\ pc = "csv" => Left = 2 + Cardinality(WithDlwa)
    /\ pc = "dlwa" => Left = 1 + Cardinality(ToReport)
    /\ pc = "idle" => Left = 0
    /\ pc \in InLoop => OtherWorkloads >= 3
    /\ pc = "loop" => OtherWorkloads + 21 >= 3 + Cardinality(WithDlwa)
    /\ Cardinality(WithDlwa) \in Nat /\ Cardinality(ToReport) \in Nat
    /\ Cardinality(ToReport) <= Cardinality(WithDlwa)

LEMMA LeftAtPlace == IInv => LeftByPlace
<1> SUFFICES ASSUME IInv PROVE LeftByPlace
  OBVIOUS
<1>1. OtherModes \in 0 .. 14
  <2>1. mode \in {"baseline", "model", "nofdp"}
    BY DEF IInv, TypeOK, Modes
  <2> QED
    BY <2>1 DEF OtherModes, ModesAfter
<1>2. /\ CommandsAfter["loop"] = 21 /\ CommandsAfter["sampler"] = 6
      /\ CommandsAfter["start"] = 5 /\ CommandsAfter["run"] = 4
      /\ CommandsAfter["final"] = 3 /\ CommandsAfter["grep"] = 2
      /\ CommandsAfter["status"] = 1 /\ CommandsAfter["extract"] = 14
      /\ CommandsAfter["export"] = 13
  BY DEF CommandsAfter
<1>3. /\ Cardinality(WithDlwa) \in Nat /\ Cardinality(ToReport) \in Nat
      /\ Cardinality(ToReport) <= Cardinality(WithDlwa)
      /\ Len(selected) \in Nat /\ at \in Nat /\ at <= Len(selected) + 1
  BY FiguresToMake DEF IInv
<1>4. /\ OtherWorkloads \in Int
      /\ at <= Len(selected) => OtherWorkloads >= 3
      /\ OtherWorkloads + 21 >= 3 + Cardinality(WithDlwa)
  BY <1>3 DEF OtherWorkloads
<1>5. pc \in InLoop => at <= Len(selected)
  BY DEF IInv, PlaceInv
<1>6. pc \notin {"idle", "dlwa", "csv"} =>
        Left = OtherWorkloads + CommandsAfter[pc] + (IF pc \in InMode THEN OtherModes ELSE 0)
  BY DEF Left, OtherWorkloads, OtherModes
<1>7. /\ pc = "csv" => Left = 2 + Cardinality(WithDlwa)
      /\ pc = "dlwa" => Left = 1 + Cardinality(ToReport)
      /\ pc = "idle" => Left = 0
  BY DEF Left
<1>8. /\ pc = "loop" => Left = OtherWorkloads + 21
      /\ pc = "sampler" => Left = OtherWorkloads + 6 + OtherModes
      /\ pc = "start" => Left = OtherWorkloads + 5 + OtherModes
      /\ pc = "run" => Left = OtherWorkloads + 4 + OtherModes
  BY <1>1, <1>2, <1>4, <1>6 DEF InMode, AfterRun
<1>9. /\ pc = "final" => Left = OtherWorkloads + 3 + OtherModes
      /\ pc = "grep" => Left = OtherWorkloads + 2 + OtherModes
      /\ pc = "status" => Left = OtherWorkloads + 1 + OtherModes
      /\ pc = "extract" => Left = OtherWorkloads + 14
      /\ pc = "export" => Left = OtherWorkloads + 13
  BY <1>1, <1>2, <1>4, <1>6 DEF InMode, AfterRun
<1> QED
  BY <1>1, <1>3, <1>4, <1>5, <1>7, <1>8, <1>9 DEF LeftByPlace

\* What a step leaves alone of the loop.
LEMMA SamePlace ==
    /\ UNCHANGED <<at, selected>> => OtherWorkloads' = OtherWorkloads
    /\ UNCHANGED mode => OtherModes' = OtherModes
BY DEF OtherWorkloads, OtherModes

LEMMA LeftAtPlaceNext == (IInv => LeftByPlace)'
BY LeftAtPlace, PTL

\* What is left is a number, none only between sweeps.
LEMMA LeftType ==
    ASSUME IInv
    PROVE  Left \in Nat /\ (Left = 0 <=> pc = "idle")
<1>1. LeftByPlace /\ (pc \in InLoop \/ pc \in {"idle", "loop", "csv", "dlwa"})
  BY LeftAtPlace DEF IInv, TypeOK, InLoop, InMode, AfterRun
<1> QED
  BY <1>1 DEF LeftByPlace, InLoop, InMode, AfterRun

LEMMA LeftTypeNext == IInv' => Left' \in Nat
<1>1. IInv => Left \in Nat
  BY LeftType
<1>2. (IInv => Left \in Nat)'
  BY <1>1, PTL
<1> QED
  BY <1>2

\* Whoever exits has nothing left.
LEMMA ExitLeaves ==
    ASSUME IInv, IInv', pc # "idle", NEW how, Exit(how)
    PROVE  Left' < Left
BY LeftType, LeftAtPlaceNext DEF LeftByPlace, Exit

LEMMA StepLeavesFewer ==
    ASSUME IInv, IInv', Step
    PROVE  Left' < Left
<1>1. LeftByPlace /\ LeftByPlace'
  BY LeftAtPlace, LeftAtPlaceNext
<1>2. CASE StartSampler
  BY <1>1, <1>2, SamePlace DEF LeftByPlace, StartSampler, script
<1>3. CASE StartRun
  BY <1>1, <1>3, SamePlace DEF LeftByPlace, StartRun, script
<1>4. CASE StopSampler
  BY <1>1, <1>4, SamePlace DEF LeftByPlace, StopSampler, script
<1>5. CASE Grep
  <2>1. pc = "grep" /\ (Exit("fail") \/ pc' = "status") /\ UNCHANGED <<mode, at, selected>>
    BY <1>5 DEF Grep, script
  <2> QED
    BY <1>1, <2>1, ExitLeaves, SamePlace DEF LeftByPlace
<1>6. CASE Status
  <2>1. pc = "status" /\ (Exit("fail") \/ AfterMode) /\ UNCHANGED selected
    BY <1>6 DEF Status, script
  <2>2. CASE AfterMode
    <3>1. /\ ModesAfter["baseline"] = 14 /\ ModesAfter["model"] = 6 /\ ModesAfter["nofdp"] = 0
      BY DEF ModesAfter
    <3>2. CASE mode = "baseline" /\ pc' = "extract" /\ UNCHANGED <<mode, at>>
      BY <1>1, <2>1, <3>1, <3>2, SamePlace DEF LeftByPlace, OtherModes
    <3>3. CASE mode = "model" /\ pc' = "sampler" /\ mode' = "nofdp" /\ UNCHANGED at
      BY <1>1, <2>1, <3>1, <3>3, SamePlace DEF LeftByPlace, OtherModes
    <3>4. CASE mode = "nofdp" /\ pc' = "loop" /\ at' = at + 1
      <4>1. OtherWorkloads' = OtherWorkloads - 21
        BY <2>1, <3>4, FiguresToMake DEF IInv, OtherWorkloads
      <4> QED
        BY <1>1, <2>1, <3>1, <3>4, <4>1 DEF LeftByPlace, OtherModes
    <3> QED
      BY <2>2, <3>2, <3>3, <3>4 DEF AfterMode
  <2> QED
    BY <2>1, <2>2, ExitLeaves
<1>7. CASE Complete
  BY <1>7, ExitLeaves DEF Complete
<1>8. ASSUME NEW ok \in BOOLEAN, Loop(ok) PROVE Left' < Left
  <2>1. /\ pc = "loop" /\ UNCHANGED <<mode, at, selected>>
        /\ Exit("fail") \/ pc' = "csv" \/ pc' = "sampler"
    BY <1>8 DEF Loop, script
  <2>2. mode = "baseline" /\ ModesAfter["baseline"] = 14
    BY <2>1 DEF IInv, PlaceInv, ModesAfter
  <2> QED
    BY <1>1, <2>1, <2>2, ExitLeaves, SamePlace DEF LeftByPlace, OtherModes
<1>9. ASSUME NEW answer \in Answers, FinalSample(answer) PROVE Left' < Left
  <2>1. pc = "final" /\ (Exit("fail") \/ pc' = "grep") /\ UNCHANGED <<mode, at, selected>>
    BY <1>9 DEF FinalSample, script
  <2> QED
    BY <1>1, <2>1, ExitLeaves, SamePlace DEF LeftByPlace
<1>10. ASSUME NEW ok \in BOOLEAN, Extract(ok) PROVE Left' < Left
  <2>1. pc = "extract" /\ (Exit("fail") \/ pc' = "export") /\ UNCHANGED <<mode, at, selected>>
    BY <1>10 DEF Extract, script
  <2> QED
    BY <1>1, <2>1, ExitLeaves, SamePlace DEF LeftByPlace
<1>11. ASSUME NEW ok \in BOOLEAN, Export(ok) PROVE Left' < Left
  <2>1. /\ pc = "export" /\ UNCHANGED <<at, selected>>
        /\ Exit("fail") \/ (pc' = "sampler" /\ mode' = "model")
    BY <1>11 DEF Export, script
  <2>2. ModesAfter["model"] = 6
    BY DEF ModesAfter
  <2> QED
    BY <1>1, <2>1, <2>2, ExitLeaves, SamePlace DEF LeftByPlace, OtherModes
<1>12. ASSUME NEW ok \in BOOLEAN, Csv(ok) PROVE Left' < Left
  <2>1. pc = "csv" /\ (Exit("fail") \/ pc' = "dlwa")
    BY <1>12 DEF Csv
  <2> QED
    BY <1>1, <2>1, ExitLeaves, SamePlace DEF LeftByPlace
<1>13. ASSUME NEW ok \in BOOLEAN, NEW w \in WithDlwa, Dlwa(w, ok) PROVE Left' < Left
  <2>1. CASE Exit("fail")
    BY <1>13, <2>1, ExitLeaves DEF Dlwa
  <2>2. CASE /\ dlwa' = [dlwa EXCEPT ![w] = sweep]
             /\ UNCHANGED <<pc, outcome>>
    <3>1. /\ pc = "dlwa" /\ w \in ToReport /\ UNCHANGED <<sweep, selected>>
          /\ dlwa \in [WithDlwa -> 0 .. sweep]
      BY <1>13 DEF Dlwa, script, IInv, TypeOK
    <3>2. ToReport' = ToReport \ {w}
      BY <2>2, <3>1 DEF ToReport, IsSelected
    <3>3. IsFiniteSet(ToReport)
      BY FiguresToMake DEF IInv
    <3>4. Cardinality(ToReport \ {w}) = Cardinality(ToReport) - 1
      BY <3>1, <3>3, FS_RemoveElement
    <3>5. Cardinality(ToReport)' = Cardinality(ToReport) - 1
      BY <3>2, <3>4
    <3> QED
      BY <1>1, <2>2, <3>1, <3>5 DEF LeftByPlace
  <2> QED
    BY <1>13, <2>1, <2>2 DEF Dlwa
<1> QED
  BY <1>2, <1>3, <1>4, <1>5, <1>6, <1>7, <1>8, <1>9, <1>10, <1>11, <1>12, <1>13 DEF Step

LEMMA SweepsEndStep ==
    IInv /\ IInv' /\ [Next]_vars =>
        (pc # "idle" => Left' <= Left) /\ (Step => Left' < Left)
<1> SUFFICES ASSUME IInv, IInv', [Next]_vars, pc # "idle" PROVE Left' <= Left
  <2>1. IInv /\ IInv' /\ Step => Left' < Left
    BY StepLeavesFewer
  <2> QED
    BY <2>1
<1>1. Left \in Nat /\ LeftByPlace'
  BY LeftType, LeftAtPlaceNext
<1>2. ASSUME UNCHANGED <<pc, mode, at, sweep, selected, dlwa>> PROVE Left' <= Left
  <2>1. ToReport' = ToReport
    BY <1>2 DEF ToReport, IsSelected
  <2>2. Left' = Left
    BY <1>2, <2>1 DEF Left
  <2> QED
    BY <1>1, <2>2
<1>3. CASE \E s \in Selections : Begin(s)
  BY <1>3 DEF Begin
<1>4. CASE Step
  <2>1. Left' < Left
    BY <1>4, StepLeavesFewer
  <2>2. Left' \in Nat
    BY LeftTypeNext
  <2> QED
    BY <1>1, <2>1, <2>2
<1>5. CASE Run \/ SomeSample \/ SamplerDies \/ Trap \/ UNCHANGED vars
  BY <1>2, <1>5 DEF Run, SomeSample, Sample, SamplerDies, Trap, vars, script, results
<1>6. CASE Kill
  BY <1>1, <1>6 DEF LeftByPlace, Kill, Exit
<1> QED
  BY <1>3, <1>4, <1>5, <1>6 DEF Next, SomeSample

\* A sweep is a number of commands that its selection bounds: each leaves
\* fewer to run, and no signal, sampler or wrapper adds any.
THEOREM SweepsGoForward ==
    Spec => SweepsComeToAnEnd /\ [](Left \in Nat /\ (Left = 0 <=> pc = "idle"))
<1>1. IInv /\ IInv' /\ [Next]_vars =>
          [(pc # "idle" => Left' <= Left) /\ (Step => Left' < Left)]_vars
  BY SweepsEndStep
<1>2. IInv => Left \in Nat /\ (Left = 0 <=> pc = "idle")
  BY LeftType
<1> QED
  BY <1>1, <1>2, SweepInvariance, PTL DEF Spec, SweepsComeToAnEnd

------------------------------------------------------------------------------
\* When the samples cover the runs.

\* The commands that leave the history and the figures as they are.
LEMMA CoverKept ==
    ASSUME CoverInv, UNCHANGED <<sweep, covered, dlwa>>, pc # "idle",
           pc' # "start", outcome' # "ok"
    PROVE  CoverInv'
BY Zenon DEF CoverInv

LEMMA CoverStep == IInv /\ CoverInv /\ [Calm]_vars => CoverInv'
<1> SUFFICES ASSUME IInv, CoverInv, [Calm]_vars PROVE CoverInv'
  OBVIOUS
<1>1. pc # "idle" => outcome # "ok"
  BY Zenon DEF IInv, PlaceInv
<1>2. CASE \E s \in Selections : Begin(s)
  <2>1. sweep \in Nat
    BY DEF IInv, TypeOK
  <2>2. /\ pc' = "loop" /\ outcome' = "none" /\ covered' = TRUE /\ dlwa' = dlwa
        /\ sweep' = sweep + 1
    BY <1>2 DEF Begin, results
  <2>3. sweep' > 0
    BY <2>1, <2>2
  <2> QED
    BY <2>2, <2>3, Zenon DEF CoverInv
<1>3. CASE StartSampler
  <2>1. /\ pc # "idle" /\ pc' = "start" /\ sampling' = Collect
        /\ UNCHANGED <<sweep, covered, dlwa, outcome>>
    BY <1>3 DEF StartSampler, script, results, history
  <2> QED
    BY <1>1, <2>1, Zenon DEF CoverInv
<1>4. CASE StartRun
  <2>1. /\ pc = "start" /\ pc' = "run" /\ UNCHANGED <<sweep, dlwa, outcome>>
        /\ sampling /\ covered => covered'
    BY <1>4, Zenon DEF StartRun, script, results
  <2>2. Collect => sampling /\ covered
    BY <2>1, Zenon DEF CoverInv
  <2>3. Collect => covered'
    BY <2>1, <2>2, Zenon
  <2>4. pc # "idle" /\ pc' # "start" /\ outcome' # "ok"
    BY <1>1, <2>1
  <2> QED
    BY <2>1, <2>3, <2>4, Zenon DEF CoverInv
<1>5. CASE StopSampler \/ Grep \/ Status
  <2>1. /\ UNCHANGED <<sweep, covered, dlwa>> /\ pc # "idle" /\ pc' # "start"
        /\ outcome' = outcome \/ outcome' = "fail"
    BY <1>5 DEF StopSampler, Grep, Status, AfterMode, Exit, script, results, history
  <2> QED
    BY <1>1, <2>1, CoverKept
<1>6. CASE \/ \E answer \in Answers : FinalSample(answer)
           \/ \E ok \in BOOLEAN : Loop(ok) \/ Extract(ok)
  <2>1. /\ UNCHANGED <<sweep, covered, dlwa>> /\ pc # "idle" /\ pc' # "start"
        /\ outcome' = outcome \/ outcome' = "fail"
    BY <1>6 DEF Loop, FinalSample, Extract, Exit, script, results, history
  <2> QED
    BY <1>1, <2>1, CoverKept
<1>7. CASE \E ok \in BOOLEAN : Export(ok) \/ Csv(ok)
  <2>1. /\ UNCHANGED <<sweep, covered, dlwa>> /\ pc # "idle" /\ pc' # "start"
        /\ outcome' = outcome \/ outcome' = "fail"
    BY <1>7 DEF Export, Csv, Exit, script, results, history
  <2> QED
    BY <1>1, <2>1, CoverKept
<1>8. ASSUME NEW w \in WithDlwa, NEW ok \in BOOLEAN, Dlwa(w, ok) PROVE CoverInv'
  <2>1. /\ pc = "dlwa" /\ w \in ToReport /\ UNCHANGED <<sweep, covered, sampling>>
        /\ outcome' = outcome \/ outcome' = "fail"
        /\ pc' = pc \/ pc' = "idle"
    BY <1>8 DEF Dlwa, Exit, script, history
  <2>2. Collect
    BY <2>1 DEF ToReport
  <2>3. /\ pc # "idle" /\ pc' # "start" /\ outcome' # "ok"
    BY <1>1, <2>1
  <2> QED
    BY <2>1, <2>2, <2>3, Zenon DEF CoverInv
<1>9. CASE Complete
  <2>1. /\ pc # "idle" /\ pc' # "start" /\ UNCHANGED <<sweep, covered, dlwa>>
    BY <1>9 DEF Complete, Exit, script, results, history
  <2> QED
    BY <2>1, Zenon DEF CoverInv
<1>10. CASE Run \/ Sample("counters") \/ UNCHANGED vars
  <2>1. UNCHANGED <<pc, outcome, sampling, sweep, covered, dlwa>>
    BY <1>10 DEF Run, Sample, vars, script, results, history
  <2> QED
    BY <2>1, Zenon DEF CoverInv
<1>11. CASE Kill
  <2>1. /\ pc # "idle" /\ pc' # "start" /\ outcome' # "ok" /\ UNCHANGED <<sweep, covered, dlwa>>
    BY <1>11 DEF Kill, Exit, script, results, history
  <2> QED
    BY <2>1, CoverKept
<1> QED
  BY <1>2, <1>3, <1>4, <1>5, <1>6, <1>7, <1>8, <1>9, <1>10, <1>11, Zenon DEF Calm, Step

\* Without an nvme beside a run that prints no counters and a signal that the script survives,
\* the write amplification is reported of runs that were sampled throughout.
THEOREM CalmSweepsAreCovered == CalmSpec => []SamplesCoverRun
<1>1. Init => CoverInv
  BY DEF Init, CoverInv
<1>2. [Calm]_vars => [Next]_vars
  <2>1. "counters" \in {"nothing", "counters"}
    OBVIOUS
  <2> QED
    BY <2>1, Zenon DEF Calm, Next
<1>3. CalmSpec => Spec
  BY <1>2, PTL DEF CalmSpec, Spec
<1>4. IInv /\ CoverInv => SamplesCoverRun
  <2> SUFFICES ASSUME IInv, CoverInv, outcome = "ok", NEW w \in WithDlwa, dlwa[w] = sweep
               PROVE  covered
    BY DEF SamplesCoverRun
  <2>1. Collect
    <3>1. sweep > 0 /\ (~Collect => dlwa[w] = 0)
      BY Zenon DEF CoverInv, IInv, LogInv
    <3> QED
      BY <3>1
  <2> QED
    BY <2>1, Zenon DEF CoverInv
<1> QED
  BY <1>1, <1>3, <1>4, CoverStep, SweepInvariance, PTL DEF CalmSpec
==============================================================================
