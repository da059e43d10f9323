--------------------------- MODULE MCKeyOrderStore ---------------------------
(***************************************************************************)
(* Instances of KeyOrderStore: runs with generated names that share one    *)
(* directory, and runs that are given --key_file_path.                     *)
(***************************************************************************)
EXTENDS KeyOrderStore

RunFlags(num, threads, order, direct) ==
    [num |-> num, threads |-> threads, order |-> order, direct |-> direct]

\* Same numbers of keys per file from different flags, an uneven split, and
\* a worker that gets no key.
AutoFlags ==
    {RunFlags(3, 2, "random", FALSE), RunFlags(3, 2, "ascending", FALSE),
     RunFlags(2, 1, "random", FALSE), RunFlags(1, 2, "random", FALSE)}

\* One worker, as the artifact runs it, with fewer keys than the file has.
ReducedFlags == {RunFlags(2, 1, "random", TRUE)}

\* Two workers that share the path.
SharedFlags == {RunFlags(2, 2, "random", TRUE)}
==============================================================================
