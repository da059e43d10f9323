------------------------------- MODULE BulkLoad -------------------------------
(***************************************************************************)
(* What the write loop of the benchmark promises, with no WriteBatch and   *)
(* no indices: each worker goes through its keys once and in order, in     *)
(* groups that are stored whole or not at all and are never tried again,   *)
(* and says at the end how many keys of its own are stored.                *)
(***************************************************************************)
EXTENDS Integers, FiniteSets

CONSTANTS Workers,   \* the worker threads
          Quota,     \* the number of keys of each worker
          MaxGroup   \* the most keys tried together

VARIABLES tried,     \* the keys each worker has tried so far, from the first
          stored,    \* the keys in the database, as <<worker, position>>
          announced  \* what each worker said it stored, -1 before

vars == <<tried, stored, announced>>

Init ==
    /\ tried = [t \in Workers |-> 0]
    /\ stored = {}
    /\ announced = [t \in Workers |-> -1]

\* The next n keys of a worker are written together, or lost together.
Try(t, n) ==
    /\ tried[t] + n <= Quota[t]
    /\ tried' = [tried EXCEPT ![t] = @ + n]
    /\ \/ stored' = stored \cup ({t} \X (tried[t] + 1 .. tried[t] + n))
       \/ UNCHANGED stored
    /\ UNCHANGED announced

Announce(t) ==
    /\ tried[t] = Quota[t] /\ announced[t] = -1
    /\ announced' = [announced EXCEPT
                       ![t] = Cardinality({k \in stored : k[1] = t})]
    /\ UNCHANGED <<tried, stored>>

Next == \E t \in Workers : (\E n \in 1 .. MaxGroup : Try(t, n)) \/ Announce(t)

Spec == Init /\ [][Next]_vars /\ WF_vars(Next)

==============================================================================
