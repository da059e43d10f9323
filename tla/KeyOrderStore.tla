---------------------------- MODULE KeyOrderStore ----------------------------
(***************************************************************************)
(* Benchmark::PrepareShuffledKeys of rocksdb_bench.cpp over several runs   *)
(* of the benchmark: the key order of each worker is loaded from a file    *)
(* when the file has the number of keys the worker needs, otherwise it is  *)
(* generated and saved to that same path.  A run can be killed at any      *)
(* point, a save can stop short on a full device, a file can be unreadable *)
(* for one run, and the next run may ask for something else.               *)
(*                                                                         *)
(* A generated order is a function of the flags and of the worker, since   *)
(* every generator is seeded with a constant: it is known by the name of   *)
(* the file the flags give it, whether or not it is saved there.           *)
(***************************************************************************)
EXTENDS Integers, FiniteSets

CONSTANTS Flags,       \* the flags runs are started with: records of
                       \* num, threads, order and direct
          UserLength,  \* keys in the file a user put at --key_file_path,
                       \* 0 when there is none
          MaxRuns,     \* bound on the runs
          DirectPath,  \* the path given by --key_file_path
          User,        \* the origin of an order made by a user
          None         \* no file; no origin

ASSUME FlagsAssumption ==
    Flags \subseteq [num : Nat \ {0}, threads : Nat \ {0},
                     order : {"random", "ascending"}, direct : BOOLEAN]
ASSUME BoundsAssumption == UserLength \in Nat /\ MaxRuns \in Nat

VARIABLES files,     \* path -> None, or the origin, length and raggedness
                     \* (a size that is no multiple of 8) of the file
          flags,     \* the flags of the current run
          pc,        \* what the run does next
          tid,       \* the counter of the two loops
          keys,      \* shuffled_keys_: origin and length, per worker
          allLoaded, \* all_loaded
          saved,     \* history: has no save of this run failed?
          runs       \* the runs started so far

vars == <<files, flags, pc, tid, keys, allLoaded, saved, runs>>

Tids(f) == 0 .. f.threads - 1

\* Mutant of Expected: the remainder is lost.
ExpectedNoRest(f, t) == f.num \div f.threads

\* expected_count and thread_key_count: the last worker takes the remainder.
Expected(f, t) ==
    f.num \div f.threads
        + (IF t = f.threads - 1 THEN f.num % f.threads ELSE 0)

\* The keys of a uniform order, [start_key, end_key].
UniformRange(f, t) ==
    LET startKey == t * (f.num \div f.threads) + 1
    IN  startKey .. startKey + Expected(f, t) - 1

\* Mutant of AutoPath: all workers of a run share one name.
AutoPathNoTid(f, t) == <<f.num, f.threads, f.order, 0>>

\* GetKeyOrderFilePath, without and with --key_file_path.
AutoPath(f, t) == <<f.num, f.threads, f.order, t>>
Path(f, t) == IF f.direct THEN DirectPath ELSE AutoPath(f, t)

Origins == UNION {{AutoPath(f, t) : t \in Tids(f)} : f \in Flags}
Paths == {DirectPath} \cup Origins

ASSUME NamesAssumption ==
    /\ DirectPath \notin Origins
    /\ None \notin Origins \cup {User}
    /\ User \notin Origins

File == [origin : Origins \cup {User}, len : Nat, ragged : BOOLEAN]

ASSUME FileAssumption == None \notin File

NoKeys == [origin |-> None, len |-> 0]
Generated(f, t) == [origin |-> AutoPath(f, t), len |-> Expected(f, t)]

------------------------------------------------------------------------------
Init ==
    /\ files = [p \in Paths |->
                  IF p = DirectPath /\ UserLength > 0
                  THEN [origin |-> User, len |-> UserLength, ragged |-> FALSE]
                  ELSE None]
    /\ flags \in Flags
    /\ pc = "idle" /\ tid = 0 /\ keys = <<>>
    /\ allLoaded = TRUE /\ saved = TRUE /\ runs = 0

\* The benchmark is started; shuffled_keys_.resize leaves empty vectors.
StartRun(f) ==
    /\ pc = "idle" /\ runs < MaxRuns
    /\ flags' = f /\ pc' = "load" /\ tid' = 0
    /\ keys' = [t \in Tids(f) |-> NoKeys]
    /\ allLoaded' = TRUE /\ saved' = TRUE /\ runs' = runs + 1
    /\ UNCHANGED files

\* Mutant of NextTid: one turn too many.
NextTidTooFar(phase, after) ==
    IF tid < flags.threads THEN tid' = tid + 1 /\ pc' = phase
                           ELSE tid' = 0 /\ pc' = after

\* The next worker of a loop, or what comes after the loop.
NextTid(phase, after) ==
    IF tid + 1 < flags.threads THEN tid' = tid + 1 /\ pc' = phase
                               ELSE tid' = 0 /\ pc' = after

\* LoadKeysFromFile: none if the file is missing, unreadable or ragged.
FileKeys(file, readable) ==
    IF file = None \/ ~readable THEN NoKeys
    ELSE IF file.ragged THEN NoKeys
    ELSE [origin |-> file.origin, len |-> file.len]

\* Mutant of Load: the length is not compared.
LoadAnyLength(readable) ==
    LET k == FileKeys(files[Path(flags, tid)], readable)
        good == k.origin # None
    IN  /\ pc = "load"
        /\ keys' = [keys EXCEPT ![tid] = IF good THEN k ELSE NoKeys]
        /\ allLoaded' = (allLoaded /\ good)
        /\ NextTid("load", IF allLoaded' THEN "use" ELSE "generate")
        /\ UNCHANGED <<files, flags, saved, runs>>

\* One turn of the first loop: load, and keep an order of the right length.
Load(readable) ==
    LET k == FileKeys(files[Path(flags, tid)], readable)
        good == k.origin # None /\ k.len = Expected(flags, tid)
    IN  /\ pc = "load"
        /\ keys' = [keys EXCEPT ![tid] = IF good THEN k ELSE NoKeys]
        /\ allLoaded' = (allLoaded /\ good)
        /\ NextTid("load", IF allLoaded' THEN "use" ELSE "generate")
        /\ UNCHANGED <<files, flags, saved, runs>>

\* A turn of the second loop for a worker whose order was loaded.
KeepLoaded ==
    /\ pc = "generate" /\ keys[tid].len > 0
    /\ NextTid("generate", "use")
    /\ UNCHANGED <<files, flags, keys, allLoaded, saved, runs>>

\* The order is generated, then saved.
Generate ==
    /\ pc = "generate" /\ keys[tid].len = 0
    /\ keys' = [keys EXCEPT ![tid] = Generated(flags, tid)]
    /\ pc' = "open"
    /\ UNCHANGED <<files, flags, tid, allLoaded, saved, runs>>

\* SaveKeysToFile cannot make the directory or open the file: a warning.
OpenFails ==
    /\ pc = "open"
    /\ saved' = FALSE
    /\ NextTid("generate", "use")
    /\ UNCHANGED <<files, flags, keys, allLoaded, runs>>

\* A file with the first n keys of the order being saved.
Holding(n, ragged) ==
    [origin |-> keys[tid].origin, len |-> n, ragged |-> ragged]

\* std::ofstream file (path, std::ios::binary) empties what was there.
OpenFile ==
    /\ pc = "open"
    /\ files' = [files EXCEPT ![Path(flags, tid)] = Holding(0, FALSE)]
    /\ pc' = "save"
    /\ UNCHANGED <<flags, tid, keys, allLoaded, saved, runs>>

\* file.write and file.close: all of the keys, or n of them, the last one
\* perhaps cut, and a warning.
WriteFile(n, ragged) ==
    /\ pc = "save" /\ n <= keys[tid].len
    /\ ragged => n < keys[tid].len
    /\ files' = [files EXCEPT ![Path(flags, tid)] = Holding(n, ragged)]
    /\ saved' = (saved /\ n = keys[tid].len)
    /\ NextTid("generate", "use")
    /\ UNCHANGED <<flags, keys, allLoaded, runs>>

\* The orders are used by the workers and the process ends.
EndRun ==
    /\ pc = "use"
    /\ pc' = "idle"
    /\ UNCHANGED <<files, flags, tid, keys, allLoaded, saved, runs>>

\* The process is killed.  What write has handed over stays in the file, so
\* a kill in the middle of a save is a short WriteFile and then a kill.
Crash ==
    /\ pc \in {"load", "generate", "open", "save"}
    /\ pc' = "idle"
    /\ UNCHANGED <<files, flags, tid, keys, allLoaded, saved, runs>>

Finished == pc = "idle" /\ runs = MaxRuns /\ UNCHANGED vars

Next ==
    \/ \E f \in Flags : StartRun(f)
    \/ \E b \in BOOLEAN : Load(b)
    \/ KeepLoaded \/ Generate \/ OpenFails \/ OpenFile
    \/ pc = "save" /\ \E n \in 0 .. keys[tid].len, b \in BOOLEAN :
                          WriteFile(n, b)
    \/ EndRun \/ Crash \/ Finished

Spec == Init /\ [][Next]_vars

------------------------------------------------------------------------------
\* Properties.

TypeOK ==
    /\ files \in [Paths -> {None} \cup File]
    /\ flags \in Flags
    /\ pc \in {"idle", "load", "generate", "open", "save", "use"}
    /\ runs > 0 => /\ tid \in Tids(flags)
                   /\ keys \in [Tids(flags) ->
                                  [origin : Origins \cup {User, None},
                                   len : Nat]]
    /\ allLoaded \in BOOLEAN /\ saved \in BOOLEAN /\ runs \in 0 .. MaxRuns

\* With generated file names, whatever earlier runs left behind when they
\* were killed or ran out of space, a run uses exactly the orders its own
\* flags describe, for every worker: results do not depend on history.
RightOrders ==
    pc = "use" /\ ~flags.direct =>
        \A t \in Tids(flags) : keys[t] = Generated(flags, t)

\* A run that reported no failed save leaves every one of its orders in its
\* file, so that the next run with these flags reuses the order it used.
SavedForNextRun ==
    pc = "use" /\ saved =>
        \A t \in Tids(flags) :
            files[Path(flags, t)] = [origin |-> keys[t].origin,
                                     len |-> keys[t].len, ragged |-> FALSE]

\* The keys of an order: those of the uniform order it was generated as, or
\* of a user's file, which is taken to be right for the worker.  Which keys
\* are in a part of an order is not known.
KeysOf(k, t) ==
    LET whole == UniformRange([num |-> k.origin[1], threads |-> k.origin[2]],
                              k.origin[4])
    IN  IF k.origin = User THEN UniformRange(flags, t)
        ELSE IF k.len = Cardinality(whole) THEN whole ELSE {}

\* The workers of a run write every key of [1, num], each of them once.
CoversKeySpace ==
    pc = "use" =>
        /\ UNION {KeysOf(keys[t], t) : t \in Tids(flags)} = 1 .. flags.num
        /\ \A s, t \in Tids(flags) :
               s # t => KeysOf(keys[s], s) \cap KeysOf(keys[t], t) = {}

\* --key_file_path "will be used instead of auto-generated path": a run that
\* is given a user's file writes the keys of that file.
UserOrderUsed ==
    pc = "use" /\ flags.direct /\ UserLength > 0 =>
        \A t \in Tids(flags) : keys[t].origin = User

------------------------------------------------------------------------------
\* The inductive invariant from which RightOrders, SavedForNextRun and
\* CoversKeySpace are proved.

\* A generated name never holds another order than its own, however little
\* of it a killed or failed save has left.
NamesAreTrue ==
    \A p \in Origins : files[p] # None => files[p].origin = p

\* How far the loops have got: an order that a worker has is whole, and
\* before tid every worker has one, in the first loop if all_loaded says so.
LoopsInv ==
    \A t \in Tids(flags) :
        /\ keys[t] # NoKeys => /\ keys[t].origin # None
                               /\ keys[t].len = Expected(flags, t)
        /\ \/ pc = "use"
           \/ t < tid /\ (pc = "load" => allLoaded)
           => keys[t] # NoKeys

\* With generated names an order that a worker has is its own.
OwnInv ==
    ~flags.direct =>
        \A t \in Tids(flags) :
            keys[t] # NoKeys => keys[t] = Generated(flags, t)

\* What is saved is what has just been generated.
SaveInv == pc \in {"open", "save"} => keys[tid] = Generated(flags, tid)

\* Unless its save failed or is under way, an order is in its worker's file.
FilesInv ==
    saved /\ (flags.direct => flags.threads = 1) =>
        \A t \in Tids(flags) :
            keys[t] # NoKeys /\ ~(t = tid /\ pc \in {"open", "save"}) =>
                files[Path(flags, t)] = [origin |-> keys[t].origin,
                                         len |-> keys[t].len, ragged |-> FALSE]

IInv ==
    /\ TypeOK /\ NamesAreTrue
    /\ pc # "idle" => runs > 0 /\ LoopsInv /\ OwnInv /\ SaveInv /\ FilesInv

------------------------------------------------------------------------------
\* When --key_file_path keeps its word.

\* The user's file has the number of keys that every run with it needs, and
\* can always be read.
FitsUser ==
    \A f \in Flags : f.direct => \A t \in Tids(f) : Expected(f, t) = UserLength
ReadableSpec == Init /\ [][Next /\ (pc = "load" => Load(TRUE) \/ Crash)]_vars

\* Then the user's file is left as it is, and no run generates an order.
UserFileKept ==
    UserLength > 0 =>
        files[DirectPath] = [origin |-> User, len |-> UserLength, ragged |-> FALSE]
UserInv ==
    /\ UserFileKept
    /\ pc # "idle" /\ flags.direct /\ UserLength > 0 =>
        /\ pc \in {"load", "use"} /\ allLoaded
        /\ \A t \in Tids(flags) : t < tid \/ pc = "use" => keys[t].origin = User

\* The path is only given to runs of one worker and one number of keys; the
\* orders may differ.
OneDirectSize ==
    \A f, g \in Flags : f.direct /\ g.direct => f.threads = 1 /\ f.num = g.num

\* Then it names a whole order of those keys, a part of one, or the user's.
DirectOrigins == {AutoPath(f, 0) : f \in {g \in Flags : g.direct}} \cup {User}
SharedInv ==
    /\ files[DirectPath] # None => files[DirectPath].origin \in DirectOrigins
    /\ pc # "idle" /\ flags.direct =>
        \A t \in Tids(flags) : keys[t] # NoKeys => keys[t].origin \in DirectOrigins
==============================================================================
