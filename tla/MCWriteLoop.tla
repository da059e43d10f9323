----------------------------- MODULE MCWriteLoop -----------------------------
(***************************************************************************)
(* Two workers.  The load of one ends one key after the end of a batch,    *)
(* and crosses the print interval twice; the other's ends with a batch.    *)
(***************************************************************************)
EXTENDS WriteLoop

TwoWorkers == 0 .. 1
TwoQuotas == [t \in TwoWorkers |-> IF t = 0 THEN 9 ELSE 4]
==============================================================================
