------------------------------ MODULE WriteLoop ------------------------------
(***************************************************************************)
(* Benchmark::DoSimpleRandomWrite of rocksdb_bench.cpp, one instance per   *)
(* worker: keys are put into a WriteBatch, a full batch is written, and    *)
(* counted when the write succeeded; it is cleared in either case.  What   *)
(* the rest of the artifact reads is kept: the progress lines, the error   *)
(* lines, the total line and the count of finished operations.  A key is   *)
(* its position, from 1, in the shuffled keys of its worker.  A write may  *)
(* fail at any time, as a full device makes it.                            *)
(***************************************************************************)
EXTENDS Integers, FiniteSets, Sequences

CONSTANTS Workers,        \* the worker threads
          Quota,          \* keys.size() of each worker
          Batch,          \* --batch
          PrintInterval,  \* print_interval
          BaseKeys        \* ROCKSDB_BASE_KEYS

ASSUME QuotaAssumption == Quota \in [Workers -> Nat]
ASSUME BatchAssumption == Batch \in Nat \ {0}
ASSUME PrintAssumption == PrintInterval \in Nat \ {0} /\ BaseKeys \in Nat

VARIABLES call,      \* the local variables of each worker's call
          db,        \* the keys the database accepted, as <<worker, position>>
          progress,  \* the completed_keys of each worker's progress lines
          errors,    \* the workers that printed a write error
          total,     \* the number in each worker's total line, -1 before
          oddWarning \* did a "stuck" warning follow a successful write?

vars == <<call, db, progress, errors, total, oddWarning>>

\* The keys in the WriteBatch: the wb ones that end with position last.
Pending(t, last) == {t} \X (last - call[t].wb + 1 .. last)

\* if (success_count % print_interval == 0 && success_count > 0)
AtInterval(count) == count % PrintInterval = 0 /\ count > 0

PrintProgress(t, count) ==
    progress' = [progress EXCEPT ![t] = Append(@, BaseKeys + count)]

------------------------------------------------------------------------------
\* while (ind < writes_per_thread): entered or left by what ind says.
Outer(ind, t) == IF ind < Quota[t] THEN "fill" ELSE "flush"

Init ==
    /\ call = [t \in Workers |->
              [pc |-> Outer(0, t), ind |-> 0, j |-> 0, wb |-> 0, ok |-> TRUE,
               success |-> 0, lastSuccess |-> 0, done |-> 0]]
    /\ db = {} /\ errors = {} /\ oddWarning = FALSE
    /\ progress = [t \in Workers |-> <<>>]
    /\ total = [t \in Workers |-> -1]

\* Mutant of MoreForBatch: only whole batches are filled.
MoreForWholeBatch(t) ==
    call[t].j < Batch /\ call[t].ind + Batch - call[t].j <= Quota[t]

\* The condition of the inner for loop.
MoreForBatch(t) == call[t].j < Batch /\ call[t].ind < Quota[t]

\* wb.Put of a key that does not complete the batch, then j++, ind++.
Put(t) ==
    /\ call[t].pc = "fill" /\ MoreForBatch(t) /\ call[t].wb + 1 # Batch
    /\ call' = [call EXCEPT ![t].wb = @ + 1, ![t].j = @ + 1, ![t].ind = @ + 1]
    /\ UNCHANGED <<db, progress, errors, total, oddWarning>>

\* wb.Put of the key that completes the batch: wb.Count () == FLAGS_batch.
PutLast(t) ==
    /\ call[t].pc = "fill" /\ MoreForBatch(t) /\ call[t].wb + 1 = Batch
    /\ call' = [call EXCEPT ![t].wb = @ + 1, ![t].pc = "write"]
    /\ UNCHANGED <<db, progress, errors, total, oddWarning>>

\* Mutant of WriteOutcome: a failed write is not printed.
WriteOutcomeSilent(t, last, ok) ==
    /\ db' = IF ok THEN db \cup Pending(t, last) ELSE db
    /\ UNCHANGED errors

\* The outcome of db1->Write, for the batch that ends with position last.
WriteOutcome(t, last, ok) ==
    IF ok THEN /\ db' = db \cup Pending(t, last)
               /\ UNCHANGED errors
          ELSE /\ errors' = errors \cup {t}
               /\ UNCHANGED db

\* Mutants of WriteBatch: a failed batch is counted; success_count is set, not
\* raised; the batch is not cleared.
WriteBatchCountsAll(t, ok) ==
    /\ call[t].pc = "write"
    /\ WriteOutcome(t, call[t].ind + 1, ok)
    /\ call' = [call EXCEPT ![t].success = @ + call[t].wb,
                      ![t].wb = 0, ![t].ok = ok, ![t].pc = "report"]
    /\ UNCHANGED <<progress, total, oddWarning>>
WriteBatchSetsCount(t, ok) ==
    /\ call[t].pc = "write"
    /\ WriteOutcome(t, call[t].ind + 1, ok)
    /\ call' = [call EXCEPT ![t].success = IF ok THEN call[t].wb ELSE @,
                      ![t].wb = 0, ![t].ok = ok, ![t].pc = "report"]
    /\ UNCHANGED <<progress, total, oddWarning>>
WriteBatchNoClear(t, ok) ==
    /\ call[t].pc = "write"
    /\ WriteOutcome(t, call[t].ind + 1, ok)
    /\ call' = [call EXCEPT ![t].success = IF ok THEN @ + call[t].wb ELSE @,
                      ![t].ok = ok, ![t].pc = "report"]
    /\ UNCHANGED <<progress, total, oddWarning>>

\* db1->Write of a full batch; wb.Clear () whatever the status; sleep.
WriteBatch(t, ok) ==
    /\ call[t].pc = "write"
    /\ WriteOutcome(t, call[t].ind + 1, ok)
    /\ call' = [call EXCEPT ![t].success = IF ok THEN @ + call[t].wb ELSE @,
                      ![t].wb = 0, ![t].ok = ok, ![t].pc = "report"]
    /\ UNCHANGED <<progress, total, oddWarning>>

\* Mutant of ReportBatch: the progress line does not ask for the status.
ReportAnyBatch(t, late) ==
    /\ call[t].pc = "report"
    /\ IF AtInterval(call[t].success) THEN PrintProgress(t, call[t].success)
                                      ELSE UNCHANGED progress
    /\ call' = [call EXCEPT ![t].lastSuccess = IF late THEN call[t].success ELSE @,
                      ![t].j = @ + 1, ![t].ind = @ + 1, ![t].pc = "fill"]
    /\ UNCHANGED <<db, errors, total, oddWarning>>

\* After the sleep: the progress line, the check for a stuck count when more
\* than five seconds have passed since the last one, then j++, ind++.
ReportBatch(t, late) ==
    /\ call[t].pc = "report"
    /\ IF call[t].ok /\ AtInterval(call[t].success)
       THEN PrintProgress(t, call[t].success)
       ELSE UNCHANGED progress
    /\ oddWarning' = (oddWarning \/ /\ late /\ call[t].ok
                                    /\ call[t].success = call[t].lastSuccess
                                    /\ call[t].success > 0)
    /\ call' = [call EXCEPT ![t].lastSuccess = IF late THEN call[t].success ELSE @,
                      ![t].j = @ + 1, ![t].ind = @ + 1, ![t].pc = "fill"]
    /\ UNCHANGED <<db, errors, total>>

\* Mutant of EndBatch: FinishedBatchOp (FLAGS_batch).
EndBatchAsWhole(t) ==
    /\ call[t].pc = "fill" /\ ~MoreForBatch(t)
    /\ call' = [call EXCEPT ![t].done = @ + Batch, ![t].j = 0,
                      ![t].pc = Outer(call[t].ind, t)]
    /\ UNCHANGED <<db, progress, errors, total, oddWarning>>

\* The inner loop ends: stats.FinishedBatchOp (j), and round again.
EndBatch(t) ==
    /\ call[t].pc = "fill" /\ ~MoreForBatch(t)
    /\ call' = [call EXCEPT ![t].done = @ + call[t].j, ![t].j = 0,
                      ![t].pc = Outer(call[t].ind, t)]
    /\ UNCHANGED <<db, progress, errors, total, oddWarning>>

\* Mutant of Flush: the last batch is written but not counted.
FlushUncounted(t, ok) ==
    /\ call[t].pc = "flush" /\ call[t].wb > 0
    /\ WriteOutcome(t, call[t].ind, ok)
    /\ call' = [call EXCEPT ![t].wb = 0, ![t].ok = ok]
    /\ UNCHANGED <<progress, total, oddWarning>>

\* if (wb.Count () > 0): the last, partial batch.  Its progress line does
\* not ask whether the write succeeded.
Flush(t, ok) ==
    /\ call[t].pc = "flush" /\ call[t].wb > 0
    /\ WriteOutcome(t, call[t].ind, ok)
    /\ LET success == IF ok THEN call[t].success + call[t].wb ELSE call[t].success
       IN  /\ call' = [call EXCEPT ![t].success = success, ![t].wb = 0,
                             ![t].ok = ok]
           /\ IF AtInterval(success) THEN PrintProgress(t, success)
                                     ELSE UNCHANGED progress
    /\ UNCHANGED <<total, oddWarning>>

\* Mutant of PrintTotal: it prints writes_per_thread.
PrintRequested(t) ==
    /\ call[t].pc = "flush" /\ call[t].wb = 0
    /\ total' = [total EXCEPT ![t] = Quota[t]]
    /\ call' = [call EXCEPT ![t].pc = "end"]
    /\ UNCHANGED <<db, progress, errors, oddWarning>>

\* "Total %llu writes completed", and the method returns.
PrintTotal(t) ==
    /\ call[t].pc = "flush" /\ call[t].wb = 0
    /\ total' = [total EXCEPT ![t] = call[t].success]
    /\ call' = [call EXCEPT ![t].pc = "end"]
    /\ UNCHANGED <<db, progress, errors, oddWarning>>

Step(t) ==
    \/ Put(t) \/ PutLast(t)
    \/ \E ok \in BOOLEAN : WriteBatch(t, ok) \/ Flush(t, ok)
    \/ \E late \in BOOLEAN : ReportBatch(t, late)
    \/ EndBatch(t) \/ PrintTotal(t)

Ended == \A t \in Workers : call[t].pc = "end"

Next == (\E t \in Workers : Step(t)) \/ (Ended /\ UNCHANGED vars)

Spec == Init /\ [][Next]_vars

\* A worker thread that can run runs; nothing makes a write succeed.
FairSpec == Spec /\ \A t \in Workers : WF_vars(Step(t))

------------------------------------------------------------------------------
\* Properties.

TypeOK ==
    /\ call \in [Workers ->
                [pc : {"fill", "write", "report", "flush", "end"},
                 ind : Nat, j : 0 .. Batch, wb : 0 .. Batch, ok : BOOLEAN,
                 success : Nat, lastSuccess : Nat, done : Nat]]
    /\ \A t \in Workers : call[t].ind \in 0 .. Quota[t]
    /\ db \subseteq UNION {{t} \X (1 .. Quota[t]) : t \in Workers}
    /\ progress \in [Workers -> Seq(Nat)]
    /\ errors \subseteq Workers
    /\ total \in [Workers -> Nat \cup {-1}]
    /\ oddWarning \in BOOLEAN

Stored(t) == {k \in db : k[1] = t}

\* success_count is the truth: at every moment it is the number of this
\* worker's keys that the database has accepted.
SuccessIsStored == \A t \in Workers : call[t].success = Cardinality(Stored(t))

\* The positions that have gone through a write: all before the batch.
Written(t) ==
    CASE call[t].pc = "write"  -> call[t].ind + 1 - call[t].wb
      [] call[t].pc = "report" -> call[t].ind + 1
      [] OTHER              -> call[t].ind - call[t].wb

\* No loss goes unseen: when a key that went through a write is not in the
\* database, its worker has printed a write error, which is what the run
\* wrapper searches the log for.
LossIsLogged ==
    \A t \in Workers :
        (\E i \in 1 .. Written(t) : <<t, i>> \notin db) => t \in errors

\* The total line tells a complete load from an incomplete one, with no
\* look at the error lines: it equals the number of keys asked for exactly
\* when all of them were accepted.
TotalIsHonest ==
    \A t \in Workers :
        total[t] # -1 =>
            (total[t] = Quota[t] <=> Stored(t) = {t} \X (1 .. Quota[t]))

\* Where the batch size divides the interval, no multiple of the interval is
\* passed over or printed twice, except by a final flush that failed.
ProgressExact ==
    PrintInterval % Batch = 0 =>
        \A t \in Workers :
            LET due == call[t].success \div PrintInterval
                line(k) == BaseKeys + k * PrintInterval
                p == progress[t]
            IN  \/ p = [k \in 1 .. due |-> line(k)]
                \/ /\ call[t].pc = "report" /\ call[t].ok
                   /\ p = [k \in 1 .. due - 1 |-> line(k)]
                \/ /\ call[t].pc \in {"flush", "end"} /\ ~call[t].ok
                   /\ p = [k \in 1 .. due + 1 |->
                             line(IF k > due THEN due ELSE k)]

\* A "success_count stuck" warning never follows a write that succeeded,
\* although the check compares counts and does not look at the status.
WarningIsSound == ~oddWarning

\* The operations of the throughput report are the keys tried, stored or
\* not, each counted once: also those still in the batch at the last count.
DoneCountsTries ==
    \A t \in Workers :
        call[t].pc \in {"flush", "end"} => call[t].done = Quota[t]

\* Every call returns, whatever fails.
Terminates == <>Ended

------------------------------------------------------------------------------
\* The inductive invariant.

\* What the indices of a call say at each point of the loops.
LoopInv(t) ==
    LET c == call[t]
    IN  /\ c.done + c.j = c.ind /\ c.lastSuccess <= c.success
        /\ \/ c.pc = "fill" /\ c.wb = c.j /\ c.j < Batch
           \/ c.pc = "fill" /\ c.wb = 0 /\ c.j = Batch
           \/ c.pc = "write" /\ c.wb = Batch /\ c.j = Batch - 1 /\ c.ind < Quota[t]
           \/ /\ c.pc = "report" /\ c.wb = 0 /\ c.j = Batch - 1 /\ c.ind < Quota[t]
              /\ c.ok => c.lastSuccess < c.success
           \/ c.pc = "flush" /\ c.j = 0 /\ c.ind = Quota[t] /\ c.wb <= c.ind
           \/ c.pc = "end" /\ c.j = 0 /\ c.ind = Quota[t] /\ c.wb = 0

\* What the counts and the log say of the keys of a worker.
AccountInv(t) ==
    /\ Stored(t) \subseteq {t} \X (1 .. Written(t))
    /\ call[t].success = Cardinality(Stored(t))
    /\ (\E i \in 1 .. Written(t) : <<t, i>> \notin db) => t \in errors
    /\ total[t] # -1 => call[t].pc = "end" /\ total[t] = call[t].success

\* The loops and the log agree with the database at every step, which is
\* what the properties above rest on.
IInv ==
    /\ TypeOK
    /\ WarningIsSound
    /\ \A t \in Workers : LoopInv(t) /\ AccountInv(t)

\* The progress lines of the first n multiples of the interval.
Reported(n) == [k \in 1 .. n |-> BaseKeys + k * PrintInterval]

\* The keys that the progress lines account for: a batch that has just been
\* written is reported after the sleep.
Accounted(t) ==
    IF call[t].pc = "report" /\ call[t].ok THEN call[t].success - Batch ELSE call[t].success

\* Before the final flush only whole batches are counted, and each multiple of
\* the interval has its line.
InBatches(t) ==
    /\ call[t].success % Batch = 0 /\ Accounted(t) >= 0
    /\ call[t].pc = "flush" => call[t].wb < Batch
    /\ progress[t] = Reported(Accounted(t) \div PrintInterval)

\* After it, a flush that failed may have repeated the last line.
AfterFlush(t) ==
    LET due == call[t].success \div PrintInterval
    IN  /\ call[t].pc \in {"flush", "end"} /\ call[t].wb = 0
        /\ \/ progress[t] = Reported(due)
           \/ /\ ~call[t].ok
              /\ progress[t] = Append(Reported(due), BaseKeys + due * PrintInterval)

ProgressInv(t) == (call[t].pc # "end" /\ InBatches(t)) \/ AfterFlush(t)

------------------------------------------------------------------------------
\* Why every call returns.

\* A bound on the steps that a call has still to take: six for each key that
\* is not counted yet, and those that are left of the present turn.
Left(t) ==
    6 * (Quota[t] - call[t].ind)
        + (CASE call[t].pc = "fill"   -> IF call[t].j > 0 THEN 5 ELSE 4
             [] call[t].pc = "write"  -> 3
             [] call[t].pc = "report" -> 2
             [] call[t].pc = "flush"  -> IF call[t].wb > 0 THEN 2 ELSE 1
             [] OTHER                 -> 0)

\* The loops do not go round for ever, whichever writes fail and however large
\* the batch is: each step brings its call nearer to the end and no other
\* call further from it.
LoopsRunOut ==
    [][/\ \A t \in Workers : Left(t)' <= Left(t)
       /\ \E t \in Workers : Left(t)' < Left(t)]_vars

------------------------------------------------------------------------------
\* The loop implements the abstract load.
Load == INSTANCE BulkLoad WITH
            tried     <- [t \in Workers |-> Written(t)],
            stored    <- db,
            announced <- total,
            MaxGroup  <- Batch

ImplementsBulkLoad == Load!Spec

==============================================================================
