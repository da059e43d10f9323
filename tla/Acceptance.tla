----------------------------- MODULE Acceptance -----------------------------
(***************************************************************************)
(* What the two-phase wrapper promises the scripts that call it and the    *)
(* scripts that read its results: the three files of a results directory   *)
(* are replaced in order, none before those ahead of it are whole, and a   *)
(* run is accepted only when all three are whole and its own.              *)
(***************************************************************************)
EXTENDS Integers

CONSTANTS Modes,  \* the modes; each has a results directory of its own
          NoMode  \* no run in progress

VARIABLES current,  \* the mode of the run in progress, or NoMode
          run,      \* the number of runs begun; the last one's identity
          files,    \* per mode: log of phase 1, log of phase 2, rocksdb.LOG
          verdict   \* of the last run: "none" before its end, "ok" or "fail"

vars == <<current, run, files, verdict>>

Missing == [run |-> 0, whole |-> FALSE]

Init ==
    /\ current = NoMode /\ run = 0 /\ verdict = "none"
    /\ files = [m \in Modes |-> [f \in 1 .. 3 |-> Missing]]

Begin(m) ==
    /\ current = NoMode
    /\ current' = m /\ run' = run + 1 /\ verdict' = "none"
    /\ UNCHANGED files

\* Is file f of mode m whole, and of the run in progress?
Fresh(m, f) == files[m][f] = [run |-> run, whole |-> TRUE]

Replace(f, whole) ==
    /\ current # NoMode
    /\ \A g \in 1 .. f - 1 : Fresh(current, g)
    /\ files' = [files EXCEPT ![current][f] = [run |-> run, whole |-> whole]]
    /\ UNCHANGED <<current, run, verdict>>

Accept ==
    /\ current # NoMode /\ \A f \in 1 .. 3 : Fresh(current, f)
    /\ current' = NoMode /\ verdict' = "ok"
    /\ UNCHANGED <<run, files>>

Reject ==
    /\ current # NoMode
    /\ current' = NoMode /\ verdict' = "fail"
    /\ UNCHANGED <<run, files>>

\* The run in progress goes on or ends.
Proceed == (\E f \in 1 .. 3, whole \in BOOLEAN : Replace(f, whole)) \/ Accept \/ Reject

Next == (\E m \in Modes : Begin(m)) \/ Proceed

Spec == Init /\ [][Next]_vars
==============================================================================
