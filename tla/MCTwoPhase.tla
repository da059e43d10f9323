----------------------------- MODULE MCTwoPhase -----------------------------
(***************************************************************************)
(* Instances of TwoPhase: a phase of one write and one of two, so that a   *)
(* total of the first is not a total of the second.                        *)
(***************************************************************************)
EXTENDS TwoPhase

TwoThree == <<2, 3>>
==============================================================================
