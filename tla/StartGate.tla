------------------------------ MODULE StartGate ------------------------------
(***************************************************************************)
(* What a benchmark run promises, with no mutex, no condition variable and *)
(* no thread objects: workers assemble behind a gate, the gate opens once  *)
(* all of them are there, each one then works and stops, and a single      *)
(* report of the whole key space is made after the last one has stopped.   *)
(* BenchmarkRun, the detailed module, is shown to implement it.            *)
(***************************************************************************)
EXTENDS Naturals

CONSTANTS Workers,  \* the worker threads of the run
          Num       \* --num: the writes the run is asked for, at least 1

VARIABLES stage,    \* what each worker has reached
          gate,     \* has the main thread released the workers?
          report    \* the writes reported, 0 until the report is made

vars == <<stage, gate, report>>

\* A worker goes "absent", "ready", "working", "stopped".
Init ==
    /\ stage = [w \in Workers |-> "absent"]
    /\ gate = FALSE
    /\ report = 0

\* A worker announces itself.
Arrive(w) ==
    /\ stage[w] = "absent"
    /\ stage' = [stage EXCEPT ![w] = "ready"]
    /\ UNCHANGED <<gate, report>>

\* The main thread releases everybody, once everybody has arrived.
Open ==
    /\ ~gate
    /\ \A w \in Workers : stage[w] = "ready"
    /\ gate' = TRUE
    /\ UNCHANGED <<stage, report>>

\* A released worker starts on its share of the keys.
Begin(w) ==
    /\ gate
    /\ stage[w] = "ready"
    /\ stage' = [stage EXCEPT ![w] = "working"]
    /\ UNCHANGED <<gate, report>>

\* A worker has finished its share and its statistics are final.
Finish(w) ==
    /\ stage[w] = "working"
    /\ stage' = [stage EXCEPT ![w] = "stopped"]
    /\ UNCHANGED <<gate, report>>

\* One report, of all the writes, after the last worker has stopped.
Report ==
    /\ report = 0
    /\ \A w \in Workers : stage[w] = "stopped"
    /\ report' = Num
    /\ UNCHANGED <<stage, gate>>

Next ==
    \/ \E w \in Workers : Arrive(w) \/ Begin(w) \/ Finish(w)
    \/ Open
    \/ Report

Spec == Init /\ [][Next]_vars /\ WF_vars(Next)

==============================================================================
