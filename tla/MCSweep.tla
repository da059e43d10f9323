------------------------------- MODULE MCSweep -------------------------------
(***************************************************************************)
(* Instances of Sweep: sweeps of one workload and of two, of which one has *)
(* a figure of write amplification.                                        *)
(***************************************************************************)
EXTENDS Sweep

OneOrTwo == {<<"uniform">>, <<"skewed", "uniform">>}
JustOne == {<<"uniform">>}
==============================================================================
