------------------------------ MODULE MCLifetimes ------------------------------
(***************************************************************************)
(* An instance of Lifetimes: two files that nothing tells apart.           *)
(***************************************************************************)
EXTENDS Lifetimes, TLC

CONSTANTS f1, f2

Either == Permutations({f1, f2})
================================================================================
