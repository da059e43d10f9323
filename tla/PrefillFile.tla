----------------------------- MODULE PrefillFile -----------------------------
(***************************************************************************)
(* What prefill promises: one file, made by one run, that nobody else      *)
(* changes; a run is accepted when its file is whole, and a whole file     *)
(* stays whole until somebody removes it.                                  *)
(***************************************************************************)
EXTENDS Integers

VARIABLES owner,   \* the run that made the file, 0 when there is none
          size,    \* its size
          whole,   \* is it complete and on the device?
          accepted \* the runs that ended well

vars == <<owner, size, whole, accepted>>

Init == owner = 0 /\ size = 0 /\ whole = FALSE /\ accepted = {}

Create ==
    /\ owner = 0
    /\ owner' \in Nat \ ({0} \cup accepted) /\ size' = 0 /\ whole' = FALSE
    /\ UNCHANGED accepted

Grow ==
    /\ owner # 0 /\ ~whole
    /\ size' \in Nat /\ size' > size
    /\ UNCHANGED <<owner, whole, accepted>>

Complete ==
    /\ owner # 0 /\ ~whole
    /\ whole' = TRUE
    /\ UNCHANGED <<owner, size, accepted>>

Accept ==
    /\ whole
    /\ accepted' = accepted \cup {owner}
    /\ UNCHANGED <<owner, size, whole>>

\* A power failure takes what is not on the device.
Shrink ==
    /\ ~whole
    /\ size' \in 0 .. size
    /\ UNCHANGED <<owner, whole, accepted>>

Remove ==
    /\ owner # 0
    /\ owner' = 0 /\ size' = 0 /\ whole' = FALSE
    /\ UNCHANGED accepted

Next == Create \/ Grow \/ Complete \/ Accept \/ Shrink \/ Remove

Spec == Init /\ [][Next]_vars
==============================================================================
