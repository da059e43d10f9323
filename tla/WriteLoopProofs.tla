--------------------------- MODULE WriteLoopProofs ---------------------------
(***************************************************************************)
(* Proofs about WriteLoop, for any number of workers and keys, any batch   *)
(* size and whichever writes fail: the counts, the error lines and the     *)
(* total lines agree with the database, and the loop takes the steps of    *)
(* BulkLoad.                                                               *)
(***************************************************************************)
EXTENDS WriteLoop, FiniteSetTheorems, TLAPS

------------------------------------------------------------------------------
\* A group of keys.

\* The keys of a worker between two positions.
Keys(t, a, b) == {t} \X (a .. b)

\* n keys after the first a are new, and are counted by n.
LEMMA GroupAdds ==
    ASSUME NEW t, NEW a \in Nat, NEW n \in Nat, NEW S \in SUBSET Keys(t, 1, a)
    PROVE  Cardinality(S \cup Keys(t, a + 1, a + n)) = Cardinality(S) + n
<1> DEFINE G == Keys(t, a + 1, a + n)
<1>1. IsFiniteSet({t}) /\ Cardinality({t}) = 1
  BY FS_Singleton
<1>2. /\ IsFiniteSet(1 .. a) /\ IsFiniteSet(a + 1 .. a + n)
      /\ Cardinality(a + 1 .. a + n) = n
  BY FS_Interval
<1>3. IsFiniteSet(Keys(t, 1, a))
  BY <1>1, <1>2, FS_Product DEF Keys
<1>4. IsFiniteSet(G) /\ Cardinality(G) = 1 * n
  BY <1>1, <1>2, FS_Product DEF Keys
<1>5. IsFiniteSet(S) /\ Cardinality(S) \in Nat
  BY <1>3, FS_Subset, FS_CardinalityType
<1>6. S \cap G = {}
  BY DEF Keys
<1> HIDE DEF G
<1>7. Cardinality(S \cup G) = Cardinality(S) + Cardinality(G) - Cardinality(S \cap G)
  BY <1>4, <1>5, FS_Union
<1>8. Cardinality(S \cap G) = 0
  BY <1>6, FS_EmptySet
<1>9. Cardinality(S \cup G) = Cardinality(S) + n
  BY <1>4, <1>5, <1>7, <1>8
<1> QED  BY <1>9 DEF G

\* All of a worker's n keys are stored exactly when n keys are.
LEMMA AllStored ==
    ASSUME NEW t, NEW n \in Nat, NEW S, S \subseteq {t} \X (1 .. n)
    PROVE  Cardinality(S) = n <=> S = {t} \X (1 .. n)
<1> DEFINE K == {t} \X (1 .. n)
<1>1. IsFiniteSet({t}) /\ Cardinality({t}) = 1
  BY FS_Singleton
<1>2. IsFiniteSet(1 .. n) /\ Cardinality(1 .. n) = n
  BY FS_Interval
<1>3. IsFiniteSet(K) /\ Cardinality(K) = 1 * n
  BY <1>1, <1>2, FS_Product
<1> HIDE DEF K
<1>4. Cardinality(K) = n
  BY <1>3
<1>5. S \subseteq K /\ (Cardinality(K) = Cardinality(S) => K = S)
  BY <1>3, FS_Subset DEF K
<1> QED  BY <1>4, <1>5 DEF K

------------------------------------------------------------------------------
\* The invariant.

\* A step of one worker leaves what the invariant says of the others alone.
LEMMA Frame ==
    ASSUME TypeOK, NEW t \in Workers, NEW u \in Workers \ {t}, Step(t)
    PROVE  /\ call'[u] = call[u] /\ total'[u] = total[u]
           /\ Stored(u)' = Stored(u)
           /\ u \in errors' <=> u \in errors
<1> DEFINE Same == /\ call'[u] = call[u] /\ total'[u] = total[u]
                   /\ Stored(u)' = Stored(u)
                   /\ u \in errors' <=> u \in errors
<1>1. ASSUME NEW ok \in BOOLEAN, NEW last, WriteOutcome(t, last, ok)
      PROVE  Stored(u)' = Stored(u) /\ (u \in errors' <=> u \in errors)
  <2>1. \A k \in Pending(t, last) : k[1] = t
    BY DEF Pending
  <2> QED  BY <1>1, <2>1 DEF WriteOutcome, Stored
<1>2. CASE Put(t)
  BY <1>2 DEF Put, TypeOK, Stored
<1>3. CASE PutLast(t)
  BY <1>3 DEF PutLast, TypeOK, Stored
<1>4. ASSUME NEW ok \in BOOLEAN, WriteBatch(t, ok)
      PROVE  Same
  BY <1>1, <1>4 DEF WriteBatch, TypeOK
<1>5. ASSUME NEW ok \in BOOLEAN, Flush(t, ok)
      PROVE  Same
  BY <1>1, <1>5 DEF Flush, TypeOK
<1>6. ASSUME NEW late \in BOOLEAN, ReportBatch(t, late)
      PROVE  Same
  BY <1>6 DEF ReportBatch, TypeOK, Stored
<1>7. CASE EndBatch(t)
  BY <1>7 DEF EndBatch, TypeOK, Stored
<1>8. CASE PrintTotal(t)
  BY <1>8 DEF PrintTotal, TypeOK, Stored
<1> QED  BY <1>2, <1>3, <1>4, <1>5, <1>6, <1>7, <1>8 DEF Step

\* What a write does to the account of its worker: stored or logged.
LEMMA WriteAccount ==
    ASSUME TypeOK, NEW t \in Workers, AccountInv(t), NEW ok \in BOOLEAN,
           NEW last \in 0 .. Quota[t], call[t].wb <= last,
           Written(t) = last - call[t].wb, WriteOutcome(t, last, ok)
    PROVE  /\ Stored(t)' \subseteq {t} \X (1 .. last)
           /\ Cardinality(Stored(t)') =
                  call[t].success + (IF ok THEN call[t].wb ELSE 0)
           /\ (\E i \in 1 .. last : <<t, i>> \notin db') => t \in errors'
           /\ db' \subseteq UNION {{u} \X (1 .. Quota[u]) : u \in Workers}
           /\ errors' \subseteq Workers
<1> DEFINE n == call[t].wb
           a == Written(t)
<1>1. n \in Nat /\ a \in Nat /\ last = a + n /\ Quota[t] \in Nat
  BY QuotaAssumption DEF TypeOK
<1>2. Stored(t) \subseteq {t} \X (1 .. a)
  BY DEF AccountInv
<1>3. Pending(t, last) = {t} \X (a + 1 .. a + n)
  BY <1>1 DEF Pending
<1>4. CASE ok
  <2>1. db' = db \cup Pending(t, last) /\ errors' = errors
    BY <1>4 DEF WriteOutcome
  <2>2. Stored(t)' = Stored(t) \cup Pending(t, last)
    BY <2>1, <1>3 DEF Stored
  <2>3. /\ Stored(t)' \subseteq {t} \X (1 .. last)
        /\ Cardinality(Stored(t)') = Cardinality(Stored(t)) + n
    <3> DEFINE S == Stored(t)
    <3>1. n \in Nat /\ a \in Nat /\ S \in SUBSET Keys(t, 1, a)
      BY <1>1, <1>2 DEF Keys
    <3>2. Stored(t)' = S \cup Keys(t, a + 1, a + n)
      BY <2>2, <1>3 DEF Keys
    <3> HIDE DEF S, a, n
    <3>3. Cardinality(S \cup Keys(t, a + 1, a + n)) = Cardinality(S) + n
      BY <3>1, GroupAdds
    <3>4. S \cup Keys(t, a + 1, a + n) \subseteq {t} \X (1 .. last)
      BY <1>1, <3>1 DEF Keys
    <3> QED  BY <3>2, <3>3, <3>4 DEF S
  <2>4. \A i \in 1 .. last : <<t, i>> \notin db' => i \in 1 .. a /\ <<t, i>> \notin db
    <3> HIDE DEF a, n
    <3> QED  BY <1>1, <1>3, <2>1
  <2>5. Pending(t, last) \subseteq {t} \X (1 .. Quota[t])
    <3> HIDE DEF a, n
    <3> QED  BY <1>1, <1>3
  <2>6. db' \subseteq UNION {{u} \X (1 .. Quota[u]) : u \in Workers}
    BY <2>1, <2>5 DEF TypeOK
  <2> QED  BY <1>4, <2>1, <2>3, <2>4, <2>6 DEF AccountInv, TypeOK
<1>5. CASE ~ok
  <2>1. db' = db /\ errors' = errors \cup {t}
    BY <1>5 DEF WriteOutcome
  <2>2. Stored(t)' = Stored(t)
    BY <2>1 DEF Stored
  <2>3. {t} \X (1 .. a) \subseteq {t} \X (1 .. last)
    <3> HIDE DEF a, n
    <3> QED  BY <1>1
  <2>4. call[t].success \in Nat
    BY DEF TypeOK
  <2> QED  BY <1>2, <1>5, <2>1, <2>2, <2>3, <2>4 DEF AccountInv, TypeOK
<1> QED  BY <1>4, <1>5

\* The type of a line added to the progress.
LEMMA ProgressType ==
    ASSUME TypeOK, NEW t \in Workers, NEW count \in Nat,
           PrintProgress(t, count) \/ UNCHANGED progress
    PROVE  progress' \in [Workers -> Seq(Nat)]
<1>1. progress \in [Workers -> Seq(Nat)] /\ BaseKeys + count \in Nat
  BY PrintAssumption DEF TypeOK
<1>2. CASE UNCHANGED progress
  BY <1>1, <1>2
<1>3. CASE PrintProgress(t, count)
  <2>1. Append(progress[t], BaseKeys + count) \in Seq(Nat)
    BY <1>1
  <2> QED  BY <1>1, <1>3, <2>1 DEF PrintProgress
<1> QED  BY <1>2, <1>3

\* The records of the type invariant.
CallType ==
    [pc : {"fill", "write", "report", "flush", "end"},
     ind : Nat, j : 0 .. Batch, wb : 0 .. Batch, ok : BOOLEAN,
     success : Nat, lastSuccess : Nat, done : Nat]

\* The type invariant after a step that changes the call of one worker.
LEMMA CallStep ==
    ASSUME TypeOK, NEW t \in Workers, NEW r \in CallType,
           call' = [call EXCEPT ![t] = r], r.ind \in 0 .. Quota[t],
           db' \subseteq UNION {{u} \X (1 .. Quota[u]) : u \in Workers},
           progress' \in [Workers -> Seq(Nat)], errors' \subseteq Workers,
           total' \in [Workers -> Nat \cup {-1}], oddWarning' \in BOOLEAN
    PROVE  TypeOK'
<1>1. call \in [Workers -> CallType]
  BY DEF TypeOK, CallType
<1>2. call' \in [Workers -> CallType]
  BY <1>1
<1>3. \A u \in Workers : call'[u].ind \in 0 .. Quota[u]
  BY <1>1 DEF TypeOK
<1> QED  BY <1>2, <1>3 DEF TypeOK, CallType

\* What a worker's own step gives it.
Own(t) == TypeOK /\ WarningIsSound /\ LoopInv(t) /\ AccountInv(t)

\* A key goes into the batch.
LEMMA PutStep ==
    ASSUME NEW t \in Workers, Own(t), Put(t) \/ PutLast(t)
    PROVE  Own(t)'
<1> DEFINE c == call[t]
           d == call'[t]
<1>1. call \in [Workers -> CallType] /\ c \in CallType
  BY DEF Own, TypeOK, CallType
<1>2. /\ c.pc = "fill" /\ c.wb = c.j /\ c.j < Batch /\ c.ind < Quota[t]
      /\ c.done + c.j = c.ind /\ c.lastSuccess <= c.success
  BY BatchAssumption DEF Own, LoopInv, Put, PutLast, MoreForBatch, TypeOK
<1>3. c.ind \in Nat /\ c.j \in Nat /\ c.done \in Nat /\ c.success \in Nat
      /\ c.lastSuccess \in Nat /\ Batch \in Nat \ {0} /\ Quota[t] \in Nat
  BY <1>1, QuotaAssumption, BatchAssumption DEF CallType
<1>4. UNCHANGED <<db, progress, errors, total, oddWarning>> /\ Stored(t)' = Stored(t)
  BY DEF Put, PutLast, Stored
<1>5. ASSUME NEW r \in CallType, call' = [call EXCEPT ![t] = r],
             r.ind \in 0 .. Quota[t]
      PROVE  d = r /\ TypeOK'
  BY <1>1, <1>4, <1>5, CallStep DEF Own, TypeOK
<1>6. CASE Put(t)
  <2> DEFINE r == [c EXCEPT !.wb = @ + 1, !.j = @ + 1, !.ind = @ + 1]
  <2>1. call' = [call EXCEPT ![t] = r]
    BY <1>1, <1>6 DEF Put
  <2>2. r \in CallType
    <3>1. c.wb + 1 \in 0 .. Batch /\ c.j + 1 \in 0 .. Batch /\ c.ind + 1 \in Nat
      BY <1>2, <1>3
    <3> QED  BY <1>1, <3>1 DEF CallType
  <2>3. /\ r.pc = "fill" /\ r.wb = c.wb + 1 /\ r.j = c.j + 1 /\ r.ind = c.ind + 1
        /\ r.done = c.done /\ r.success = c.success /\ r.lastSuccess = c.lastSuccess
        /\ c.wb + 1 # Batch
    BY <1>1, <1>6 DEF Put, CallType
  <2> HIDE DEF r
  <2>4. d = r /\ TypeOK'
    <3>1. r.ind \in 0 .. Quota[t]
      BY <1>2, <1>3, <2>3
    <3> QED  BY <1>5, <2>1, <2>2, <3>1
  <2>5. LoopInv(t)'
    BY <1>2, <1>3, <2>3, <2>4 DEF LoopInv
  <2>6. Written(t)' = Written(t)
    BY <1>2, <1>3, <2>3, <2>4 DEF Written
  <2> QED  BY <1>2, <1>4, <2>3, <2>4, <2>5, <2>6 DEF Own, AccountInv, WarningIsSound
<1>7. CASE PutLast(t)
  <2> DEFINE r == [c EXCEPT !.wb = @ + 1, !.pc = "write"]
  <2>1. call' = [call EXCEPT ![t] = r]
    BY <1>1, <1>7 DEF PutLast
  <2>2. r \in CallType
    <3>1. c.wb + 1 \in 0 .. Batch /\ c.j + 1 \in 0 .. Batch /\ c.ind + 1 \in Nat
      BY <1>2, <1>3
    <3> QED  BY <1>1, <3>1 DEF CallType
  <2>3. /\ r.pc = "write" /\ r.wb = c.wb + 1 /\ r.j = c.j /\ r.ind = c.ind
        /\ r.done = c.done /\ r.success = c.success /\ r.lastSuccess = c.lastSuccess
        /\ c.wb + 1 = Batch
    BY <1>1, <1>7 DEF PutLast, CallType
  <2> HIDE DEF r
  <2>4. d = r /\ TypeOK'
    <3>1. r.ind \in 0 .. Quota[t]
      BY <1>2, <1>3, <2>3
    <3> QED  BY <1>5, <2>1, <2>2, <3>1
  <2>5. LoopInv(t)'
    BY <1>2, <1>3, <2>3, <2>4 DEF LoopInv
  <2>6. Written(t)' = Written(t)
    BY <1>2, <1>3, <2>3, <2>4 DEF Written
  <2> QED  BY <1>2, <1>4, <2>3, <2>4, <2>5, <2>6 DEF Own, AccountInv, WarningIsSound
<1> QED  BY <1>6, <1>7

\* The types of what a call holds.
LEMMA CallFacts ==
    ASSUME TypeOK, NEW t \in Workers
    PROVE  /\ call \in [Workers -> CallType] /\ call[t] \in CallType
           /\ call[t].ind \in 0 .. Quota[t] /\ Quota[t] \in Nat
           /\ call[t].done \in Nat /\ call[t].success \in Nat
           /\ call[t].lastSuccess \in Nat /\ call[t].ok \in BOOLEAN
           /\ call[t].wb \in 0 .. Batch /\ call[t].j \in 0 .. Batch
           /\ Batch \in Nat \ {0}
<1>1. call \in [Workers -> CallType] /\ call[t] \in CallType
  BY DEF TypeOK, CallType
<1> QED  BY <1>1, QuotaAssumption, BatchAssumption DEF CallType, TypeOK

\* A full batch is written and cleared.
LEMMA WriteBatchStep ==
    ASSUME NEW t \in Workers, Own(t), NEW ok \in BOOLEAN, WriteBatch(t, ok)
    PROVE  Own(t)'
<1> DEFINE c == call[t]
           last == c.ind + 1
           success == IF ok THEN c.success + c.wb ELSE c.success
           r == [c EXCEPT !.success = success, !.wb = 0, !.ok = ok, !.pc = "report"]
<1>1. /\ call \in [Workers -> CallType] /\ c \in CallType
      /\ c.ind \in Nat /\ c.done \in Nat /\ c.success \in Nat
      /\ c.lastSuccess \in Nat /\ Batch \in Nat \ {0} /\ Quota[t] \in Nat
  BY CallFacts DEF Own
<1>2. /\ c.pc = "write" /\ c.wb = Batch /\ c.j = Batch - 1 /\ c.ind < Quota[t]
      /\ c.done + c.j = c.ind /\ c.lastSuccess <= c.success
  BY DEF Own, LoopInv, WriteBatch
<1>3. /\ call' = [call EXCEPT ![t] = r] /\ UNCHANGED <<progress, total, oddWarning>>
      /\ WriteOutcome(t, last, ok)
  BY <1>1 DEF WriteBatch
<1>4. /\ success \in Nat /\ success = c.success + (IF ok THEN c.wb ELSE 0)
      /\ last \in 0 .. Quota[t] /\ c.wb <= last /\ last = c.ind + 1
  BY <1>1, <1>2
<1> HIDE DEF success, last
<1>5. /\ r.pc = "report" /\ r.wb = 0 /\ r.j = c.j /\ r.ind = c.ind
      /\ r.done = c.done /\ r.lastSuccess = c.lastSuccess /\ r.ok = ok
      /\ r.success = success /\ r \in CallType
  <2>1. 0 \in 0 .. Batch /\ ok \in BOOLEAN /\ c.wb \in Nat
    BY <1>1, <1>2
  <2>2. r \in CallType
    BY <1>1, <1>4, <2>1 DEF CallType
  <2> QED  BY <1>1, <1>4, <2>2 DEF CallType
<1> HIDE DEF r
<1>6. call'[t] = r
  BY <1>1, <1>3
<1>7. Written(t) = last - c.wb
  BY <1>1, <1>2, <1>4 DEF Written
<1>8. /\ Stored(t)' \subseteq {t} \X (1 .. last)
      /\ Cardinality(Stored(t)') = c.success + (IF ok THEN c.wb ELSE 0)
      /\ (\E i \in 1 .. last : <<t, i>> \notin db') => t \in errors'
      /\ db' \subseteq UNION {{u} \X (1 .. Quota[u]) : u \in Workers}
      /\ errors' \subseteq Workers
  BY <1>3, <1>4, <1>7, WriteAccount DEF Own
<1>9. TypeOK'
  <2>1. r.ind \in 0 .. Quota[t]
    BY <1>1, <1>2, <1>5
  <2> QED  BY <1>3, <1>5, <1>8, <2>1, CallStep DEF Own, TypeOK
<1>10. LoopInv(t)'
  BY <1>1, <1>2, <1>4, <1>5, <1>6 DEF LoopInv
<1>11. Written(t)' = last
  BY <1>4, <1>5, <1>6 DEF Written
<1>12. AccountInv(t)'
  BY <1>2, <1>3, <1>4, <1>5, <1>6, <1>8, <1>11 DEF Own, AccountInv
<1> QED  BY <1>3, <1>9, <1>10, <1>12 DEF Own, WarningIsSound

\* The last batch is written.
LEMMA FlushStep ==
    ASSUME NEW t \in Workers, Own(t), NEW ok \in BOOLEAN, Flush(t, ok)
    PROVE  Own(t)'
<1> DEFINE c == call[t]
           success == IF ok THEN c.success + c.wb ELSE c.success
           r == [c EXCEPT !.success = success, !.wb = 0, !.ok = ok]
<1>1. /\ call \in [Workers -> CallType] /\ c \in CallType
      /\ c.ind \in Nat /\ c.done \in Nat /\ c.success \in Nat /\ c.wb \in Nat
      /\ c.lastSuccess \in Nat /\ Batch \in Nat \ {0} /\ Quota[t] \in Nat
  BY CallFacts DEF Own
<1>2. /\ c.pc = "flush" /\ c.wb <= c.ind /\ c.j = 0 /\ c.ind = Quota[t]
      /\ c.done + c.j = c.ind /\ c.lastSuccess <= c.success
  BY DEF Own, LoopInv, Flush
<1>3. call' = [call EXCEPT ![t] = r] /\ UNCHANGED <<total, oddWarning>>
  BY <1>1 DEF Flush
<1>4. success \in Nat /\ success >= c.success
  BY <1>1
<1>5. PrintProgress(t, success) \/ UNCHANGED progress
  BY DEF Flush
<1>6. progress' \in [Workers -> Seq(Nat)]
  BY <1>4, <1>5, ProgressType DEF Own
<1>7. success = c.success + (IF ok THEN c.wb ELSE 0)
  BY <1>1
<1> HIDE DEF success
<1>8. /\ r.pc = "flush" /\ r.wb = 0 /\ r.j = c.j /\ r.ind = c.ind
      /\ r.done = c.done /\ r.lastSuccess = c.lastSuccess
      /\ r.success = success /\ r \in CallType
  BY <1>1, <1>2, <1>4 DEF CallType
<1> HIDE DEF r
<1>9. call'[t] = r
  BY <1>1, <1>3
<1>10. c.ind \in 0 .. Quota[t] /\ Written(t) = c.ind - c.wb
  BY <1>1, <1>2 DEF Written
<1>11. /\ Stored(t)' \subseteq {t} \X (1 .. c.ind)
       /\ Cardinality(Stored(t)') = c.success + (IF ok THEN c.wb ELSE 0)
       /\ (\E i \in 1 .. c.ind : <<t, i>> \notin db') => t \in errors'
       /\ db' \subseteq UNION {{u} \X (1 .. Quota[u]) : u \in Workers}
       /\ errors' \subseteq Workers
  BY <1>2, <1>10, WriteAccount DEF Own, Flush
<1>12. TypeOK'
  <2>1. r.ind \in 0 .. Quota[t]
    BY <1>8, <1>10
  <2> QED  BY <1>3, <1>6, <1>8, <1>11, <2>1, CallStep DEF Own, TypeOK
<1>13. LoopInv(t)'
  BY <1>1, <1>2, <1>4, <1>8, <1>9 DEF LoopInv
<1>14. Written(t)' = c.ind
  BY <1>1, <1>8, <1>9 DEF Written
<1>15. AccountInv(t)'
  BY <1>2, <1>3, <1>7, <1>8, <1>9, <1>11, <1>14 DEF Own, AccountInv
<1> QED  BY <1>3, <1>12, <1>13, <1>15 DEF Own, WarningIsSound

\* The progress line and the check for a stuck count.
LEMMA ReportBatchStep ==
    ASSUME NEW t \in Workers, Own(t), NEW late \in BOOLEAN, ReportBatch(t, late)
    PROVE  Own(t)'
<1> DEFINE c == call[t]
           seen == IF late THEN c.success ELSE c.lastSuccess
           r == [c EXCEPT !.lastSuccess = seen, !.j = @ + 1, !.ind = @ + 1,
                          !.pc = "fill"]
<1>1. /\ call \in [Workers -> CallType] /\ c \in CallType
      /\ c.ind \in Nat /\ c.done \in Nat /\ c.success \in Nat /\ c.j \in Nat
      /\ c.lastSuccess \in Nat /\ Batch \in Nat \ {0} /\ Quota[t] \in Nat
  BY CallFacts DEF Own
<1>2. /\ c.pc = "report" /\ c.wb = 0 /\ c.j = Batch - 1 /\ c.ind < Quota[t]
      /\ c.done + c.j = c.ind /\ c.lastSuccess <= c.success
      /\ c.ok => c.lastSuccess < c.success
  BY DEF Own, LoopInv, ReportBatch
<1>3. call' = [call EXCEPT ![t] = r] /\ UNCHANGED <<db, errors, total>>
  BY <1>1 DEF ReportBatch
<1>4. seen \in Nat /\ seen <= c.success
  BY <1>1, <1>2
<1>5. PrintProgress(t, c.success) \/ UNCHANGED progress
  BY DEF ReportBatch
<1>6. progress' \in [Workers -> Seq(Nat)]
  BY <1>1, <1>5, ProgressType DEF Own
<1>7. oddWarning' = FALSE
  <2>1. oddWarning = FALSE
    BY DEF Own, WarningIsSound, TypeOK
  <2>2. c.ok => c.success # c.lastSuccess
    BY <1>1, <1>2
  <2>3. oddWarning' = (oddWarning \/ (late /\ c.ok /\ c.success = c.lastSuccess
                                           /\ c.success > 0))
    BY DEF ReportBatch
  <2> QED  BY <2>1, <2>2, <2>3
<1> HIDE DEF seen
<1>8. /\ r.pc = "fill" /\ r.wb = 0 /\ r.j = c.j + 1 /\ r.ind = c.ind + 1
      /\ r.done = c.done /\ r.lastSuccess = seen /\ r.success = c.success
      /\ r \in CallType
  <2>1. c.j + 1 \in 0 .. Batch /\ c.ind + 1 \in Nat
    BY <1>1, <1>2
  <2>2. r \in CallType
    BY <1>1, <1>4, <2>1 DEF CallType
  <2> QED  BY <1>1, <1>2, <2>2 DEF CallType
<1> HIDE DEF r
<1>9. call'[t] = r
  BY <1>1, <1>3
<1>10. TypeOK'
  <2>1. r.ind \in 0 .. Quota[t]
    BY <1>1, <1>2, <1>8
  <2> QED  BY <1>3, <1>6, <1>7, <1>8, <2>1, CallStep DEF Own, TypeOK
<1>11. LoopInv(t)'
  BY <1>1, <1>2, <1>4, <1>8, <1>9 DEF LoopInv
<1>12. Written(t)' = Written(t) /\ Stored(t)' = Stored(t)
  BY <1>1, <1>2, <1>3, <1>8, <1>9 DEF Written, Stored
<1>13. AccountInv(t)'
  BY <1>2, <1>3, <1>8, <1>9, <1>12 DEF Own, AccountInv
<1> QED  BY <1>7, <1>10, <1>11, <1>13 DEF Own, WarningIsSound

\* The inner loop ends, with the batch cleared or every key taken.
LEMMA EndBatchStep ==
    ASSUME NEW t \in Workers, Own(t), EndBatch(t)
    PROVE  Own(t)'
<1> DEFINE c == call[t]
           r == [c EXCEPT !.done = @ + c.j, !.j = 0, !.pc = Outer(c.ind, t)]
<1>1. /\ call \in [Workers -> CallType] /\ c \in CallType /\ c.wb \in Nat
      /\ c.ind \in 0 .. Quota[t] /\ c.done \in Nat /\ c.success \in Nat
      /\ c.j \in 0 .. Batch
      /\ c.lastSuccess \in Nat /\ Batch \in Nat \ {0} /\ Quota[t] \in Nat
  BY CallFacts DEF Own
<1>2. /\ c.pc = "fill" /\ (c.wb = c.j \/ c.wb = 0) /\ (c.wb = 0 \/ c.ind = Quota[t])
      /\ c.done + c.j = c.ind /\ c.lastSuccess <= c.success
  BY <1>1 DEF Own, LoopInv, EndBatch, MoreForBatch
<1>3. /\ call' = [call EXCEPT ![t] = r]
      /\ UNCHANGED <<db, progress, errors, total, oddWarning>>
  BY <1>1 DEF EndBatch
<1>4. /\ r.pc = Outer(c.ind, t) /\ r.wb = c.wb /\ r.j = 0 /\ r.ind = c.ind
      /\ r.done = c.done + c.j /\ r.lastSuccess = c.lastSuccess
      /\ r.success = c.success /\ r \in CallType
  <2>1. c.done + c.j \in Nat /\ 0 \in 0 .. Batch
    BY <1>1
  <2>2. r \in CallType
    BY <1>1, <2>1 DEF CallType, Outer
  <2> QED  BY <1>1, <2>2 DEF CallType
<1> HIDE DEF r
<1>5. call'[t] = r
  BY <1>1, <1>3
<1>6. TypeOK'
  BY <1>1, <1>3, <1>4, CallStep DEF Own, TypeOK
<1>7. LoopInv(t)'
  BY <1>1, <1>2, <1>4, <1>5 DEF LoopInv, Outer
<1>8. Written(t)' = Written(t) /\ Stored(t)' = Stored(t)
  BY <1>2, <1>3, <1>4, <1>5 DEF Written, Stored, Outer
<1>9. AccountInv(t)'
  BY <1>2, <1>3, <1>4, <1>5, <1>8 DEF Own, AccountInv
<1> QED  BY <1>3, <1>6, <1>7, <1>9 DEF Own, WarningIsSound

\* The total line.
LEMMA PrintTotalStep ==
    ASSUME NEW t \in Workers, Own(t), PrintTotal(t)
    PROVE  Own(t)'
<1> DEFINE c == call[t]
           r == [c EXCEPT !.pc = "end"]
<1>1. /\ call \in [Workers -> CallType] /\ c \in CallType
      /\ c.ind \in 0 .. Quota[t] /\ c.success \in Nat
  BY CallFacts DEF Own
<1>2. /\ c.pc = "flush" /\ c.wb = 0 /\ c.j = 0 /\ c.ind = Quota[t]
      /\ c.done + c.j = c.ind /\ c.lastSuccess <= c.success
  BY DEF Own, LoopInv, PrintTotal
<1>3. /\ call' = [call EXCEPT ![t] = r]
      /\ total' = [total EXCEPT ![t] = c.success]
      /\ UNCHANGED <<db, progress, errors, oddWarning>>
  BY <1>1 DEF PrintTotal
<1>4. /\ r.pc = "end" /\ r.wb = c.wb /\ r.j = c.j /\ r.ind = c.ind
      /\ r.done = c.done /\ r.lastSuccess = c.lastSuccess
      /\ r.success = c.success /\ r \in CallType
  BY <1>1 DEF CallType
<1> HIDE DEF r
<1>5. call'[t] = r
  BY <1>1, <1>3
<1>6. total' \in [Workers -> Nat \cup {-1}] /\ total'[t] = c.success
  BY <1>1, <1>3 DEF Own, TypeOK
<1>7. TypeOK'
  BY <1>1, <1>3, <1>4, <1>6, CallStep DEF Own, TypeOK
<1>8. LoopInv(t)'
  BY <1>2, <1>4, <1>5 DEF LoopInv
<1>9. Written(t)' = Written(t) /\ Stored(t)' = Stored(t)
  BY <1>2, <1>3, <1>4, <1>5 DEF Written, Stored
<1>10. AccountInv(t)'
  BY <1>3, <1>4, <1>5, <1>6, <1>9 DEF Own, AccountInv
<1> QED  BY <1>3, <1>7, <1>8, <1>10 DEF Own, WarningIsSound

\* Any step of a worker.
LEMMA WorkerStep ==
    ASSUME NEW t \in Workers, Own(t), Step(t)
    PROVE  Own(t)'
BY PutStep, WriteBatchStep, FlushStep, ReportBatchStep, EndBatchStep,
   PrintTotalStep DEF Step

\* The invariant holds when the calls begin.
LEMMA LoopInit == Init => IInv
<1> SUFFICES ASSUME Init PROVE IInv
  OBVIOUS
<1> USE DEF Init
<1>1. \A t \in Workers : /\ call[t].ind = 0 /\ call[t].j = 0 /\ call[t].wb = 0
                         /\ call[t].done = 0 /\ call[t].success = 0
                         /\ call[t].lastSuccess = 0
                         /\ call[t].pc = Outer(0, t) /\ total[t] = -1
  OBVIOUS
<1>2. TypeOK
  <2>1. ASSUME NEW t \in Workers PROVE Quota[t] \in Nat /\ 0 \in 0 .. Quota[t]
    BY QuotaAssumption
  <2>2. ASSUME NEW t \in Workers PROVE call[t] \in CallType
    <3>1. 0 \in 0 .. Batch /\ Outer(0, t) \in {"fill", "flush"}
      BY BatchAssumption DEF Outer
    <3> QED  BY <3>1 DEF CallType
  <2>3. call \in [Workers -> CallType]
    <3>1. call = [t \in Workers |-> call[t]]
      OBVIOUS
    <3> HIDE DEF Init
    <3> QED  BY <2>2, <3>1
  <2>4. /\ progress \in [Workers -> Seq(Nat)] /\ total \in [Workers -> Nat \cup {-1}]
        /\ db = {} /\ errors = {} /\ oddWarning = FALSE
    OBVIOUS
  <2> HIDE DEF Init
  <2> QED  BY <1>1, <2>1, <2>3, <2>4 DEF TypeOK, CallType
<1>3. ASSUME NEW t \in Workers PROVE LoopInv(t)
  <2>1. Quota[t] \in Nat /\ Batch \in Nat \ {0}
    BY QuotaAssumption, BatchAssumption
  <2> QED  BY <1>1, <2>1 DEF LoopInv, Outer
<1>4. ASSUME NEW t \in Workers PROVE AccountInv(t)
  <2>1. Stored(t) = {}
    BY DEF Stored
  <2>2. Written(t) = 0
    BY <1>1 DEF Written, Outer
  <2> QED  BY <1>1, <2>1, <2>2, FS_EmptySet DEF AccountInv
<1> QED  BY <1>2, <1>3, <1>4 DEF IInv, WarningIsSound

\* Every step keeps the invariant, for the worker that takes it and for the others.
LEMMA LoopStep == IInv /\ [Next]_vars => IInv'
<1> SUFFICES ASSUME IInv, [Next]_vars PROVE IInv'
  OBVIOUS
<1>1. ASSUME NEW t \in Workers, Step(t) PROVE IInv'
  <2>1. Own(t)
    BY DEF IInv, Own
  <2>2. TypeOK' /\ WarningIsSound' /\ LoopInv(t)' /\ AccountInv(t)'
    BY <1>1, <2>1, WorkerStep DEF Own
  <2>3. ASSUME NEW u \in Workers \ {t} PROVE LoopInv(u)' /\ AccountInv(u)'
    <3>1. LoopInv(u) /\ AccountInv(u)
      BY DEF IInv
    <3>2. /\ call'[u] = call[u] /\ total'[u] = total[u]
          /\ Stored(u)' = Stored(u)
          /\ u \in errors' <=> u \in errors
      BY <1>1, <2>1, Frame DEF Own
    <3>3. Written(u)' = Written(u)
      BY <3>2 DEF Written
    <3>4. \A i : <<u, i>> \in db' <=> <<u, i>> \in db
      <4>1. \A i : (<<u, i>> \in db <=> <<u, i>> \in Stored(u))
        BY DEF Stored
      <4>2. \A i : (<<u, i>> \in db' <=> <<u, i>> \in Stored(u)')
        BY DEF Stored
      <4> QED  BY <3>2, <4>1, <4>2
    <3>5. LoopInv(u)'
      BY <3>1, <3>2 DEF LoopInv
    <3>6. AccountInv(u)'
      BY <3>1, <3>2, <3>3, <3>4 DEF AccountInv
    <3> QED  BY <3>5, <3>6
  <2> QED  BY <2>2, <2>3 DEF IInv
<1>2. CASE UNCHANGED vars
  <2>1. TypeOK' /\ WarningIsSound'
    BY <1>2 DEF vars, IInv, TypeOK, WarningIsSound
  <2>2. ASSUME NEW t \in Workers PROVE LoopInv(t)' /\ AccountInv(t)'
    <3>1. LoopInv(t) /\ AccountInv(t)
      BY DEF IInv
    <3>2. Stored(t)' = Stored(t) /\ Written(t)' = Written(t)
      BY <1>2 DEF vars, Stored, Written
    <3> QED  BY <1>2, <3>1, <3>2 DEF vars, LoopInv, AccountInv
  <2> QED  BY <2>1, <2>2 DEF IInv
<1> QED  BY <1>1, <1>2 DEF Next

------------------------------------------------------------------------------
\* The properties.

\* The loops and the log agree with the database, whichever writes fail.
THEOREM LoopInvariance == Spec => []IInv
BY LoopInit, LoopStep, PTL DEF Spec

\* The types are right: no index of the write loop passes the keys it was
\* given, and no batch holds more than --batch keys.
THEOREM LoopTypeCorrect == Spec => []TypeOK
<1>1. IInv => TypeOK
  BY DEF IInv
<1> QED  BY <1>1, LoopInvariance, PTL

\* success_count is at every moment the number of the worker's keys that the
\* database holds.
THEOREM SuccessCountIsTrue == Spec => []SuccessIsStored
<1>1. IInv => SuccessIsStored
  BY DEF IInv, AccountInv, SuccessIsStored
<1> QED  BY <1>1, LoopInvariance, PTL

\* A key that went through a write and is not in the database has an error
\* line of its worker in the log.
THEOREM LossesAreLogged == Spec => []LossIsLogged
<1>1. IInv => LossIsLogged
  BY DEF IInv, AccountInv, LossIsLogged
<1> QED  BY <1>1, LoopInvariance, PTL

\* The total line equals the number of keys asked for exactly when each of
\* them is stored.
THEOREM TotalsAreHonest == Spec => []TotalIsHonest
<1>1. IInv => TotalIsHonest
  <2> SUFFICES ASSUME IInv, NEW t \in Workers, total[t] # -1
               PROVE  total[t] = Quota[t] <=> Stored(t) = {t} \X (1 .. Quota[t])
    BY DEF TotalIsHonest
  <2>1. /\ AccountInv(t) /\ LoopInv(t) /\ Quota[t] \in Nat
    BY QuotaAssumption DEF IInv
  <2>2. call[t].pc = "end" /\ total[t] = Cardinality(Stored(t))
    BY <2>1 DEF AccountInv
  <2>3. call[t].ind = Quota[t] /\ call[t].wb = 0
    BY <2>1, <2>2 DEF LoopInv
  <2>4. Written(t) = Quota[t]
    BY <2>1, <2>2, <2>3 DEF Written
  <2>5. Stored(t) \subseteq {t} \X (1 .. Quota[t])
    BY <2>1, <2>4 DEF AccountInv
  <2> QED  BY <2>1, <2>2, <2>5, AllStored
<1> QED  BY <1>1, LoopInvariance, PTL

\* The operations reported at the end are the keys tried, each once.
THEOREM TriesAreCounted == Spec => []DoneCountsTries
<1>1. IInv => DoneCountsTries
  <2> SUFFICES ASSUME IInv, NEW t \in Workers, call[t].pc \in {"flush", "end"}
               PROVE  call[t].done = Quota[t]
    BY DEF DoneCountsTries
  <2>1. LoopInv(t) /\ call[t].done \in Nat
    BY CallFacts DEF IInv
  <2> QED  BY <2>1 DEF LoopInv
<1> QED  BY <1>1, LoopInvariance, PTL

\* A "stuck" warning never follows a write that succeeded.
THEOREM WarningsAreSound == Spec => []WarningIsSound
<1>1. IInv => WarningIsSound
  BY DEF IInv
<1> QED  BY <1>1, LoopInvariance, PTL

------------------------------------------------------------------------------
\* The progress lines.

\* A quotient and a remainder are found by naming them.
LEMMA DivisionIs ==
    ASSUME NEW a \in Nat, NEW b \in Nat \ {0}, NEW n \in Int, NEW r \in 0 .. b - 1,
           a = b * n + r
    PROVE  a \div b = n /\ a % b = r
<1> DEFINE q == a \div b
           s == a % b
<1>1. q \in Int /\ s \in 0 .. b - 1 /\ a = b * q + s
  OBVIOUS
<1> HIDE DEF q, s
<1>2. b * (q - n) = r - s
  BY <1>1
<1>3. q - n = 0
  <2>1. CASE q - n >= 1
    <3>1. b * (q - n) >= b
      BY <1>1, <2>1
    <3> QED
      BY <1>1, <1>2, <3>1
  <2>2. CASE q - n <= -1
    <3>1. b * (q - n) <= -b
      BY <1>1, <2>2
    <3> QED
      BY <1>1, <1>2, <3>1
  <2> QED
    BY <1>1, <2>1, <2>2
<1> QED
  BY <1>1, <1>2, <1>3 DEF q, s

\* The numbers of a division by the interval.
LEMMA DivideBy ==
    ASSUME NEW a \in Nat, NEW b \in Nat \ {0}
    PROVE  /\ a \div b \in Nat /\ a % b \in 0 .. b - 1
           /\ a = b * (a \div b) + (a % b)
<1> DEFINE q == a \div b
           s == a % b
<1>1. q \in Int /\ s \in 0 .. b - 1 /\ a = b * q + s
  OBVIOUS
<1> HIDE DEF q, s
<1>2. CASE q <= -1
  <2>1. b * q <= -b
    BY <1>1, <1>2
  <2> QED
    BY <1>1, <2>1
<1>3. q \in Nat
  BY <1>1, <1>2
<1> QED
  BY <1>1, <1>3 DEF q, s

\* When the batch divides the interval, the remainder of a count of whole batches
\* is a number of whole batches.
LEMMA WholeRemainder ==
    ASSUME PrintInterval % Batch = 0, NEW s \in Nat, s % Batch = 0
    PROVE  LET r == s % PrintInterval
           IN  (r = 0 \/ r >= Batch) /\ r + Batch <= PrintInterval
<1> DEFINE m == PrintInterval \div Batch
           q == s \div Batch
           d == s \div PrintInterval
           r == s % PrintInterval
           e == q - m * d
<1>1. Batch \in Nat \ {0} /\ PrintInterval \in Nat \ {0}
  BY BatchAssumption, PrintAssumption
<1>2. /\ m \in Nat /\ q \in Nat /\ d \in Nat /\ r \in 0 .. PrintInterval - 1
      /\ PrintInterval = Batch * m /\ s = Batch * q /\ s = PrintInterval * d + r
  <2>1. m \in Nat /\ PrintInterval = Batch * m + (PrintInterval % Batch)
    BY <1>1, DivideBy
  <2>2. q \in Nat /\ s = Batch * q + (s % Batch)
    BY <1>1, DivideBy
  <2>3. d \in Nat /\ r \in 0 .. PrintInterval - 1 /\ s = PrintInterval * d + r
    BY <1>1, DivideBy
  <2> HIDE DEF m, q, d, r
  <2>5. Batch * m \in Nat /\ Batch * q \in Nat
    BY <1>1, <2>1, <2>2
  <2>6. PrintInterval = Batch * m /\ s = Batch * q
    BY <2>1, <2>2, <2>5
  <2> QED
    BY <2>1, <2>2, <2>3, <2>6
<1> HIDE DEF m, q, d, r
<1>3. e \in Int /\ r = Batch * e
  <2>1. PrintInterval * d = Batch * (m * d)
    BY <1>1, <1>2
  <2>2. Batch * (q - m * d) = Batch * q - Batch * (m * d)
    BY <1>1, <1>2
  <2> QED
    BY <1>1, <1>2, <2>1, <2>2
<1> HIDE DEF e
<1>4. r = 0 \/ r >= Batch
  <2>1. CASE e <= 0
    <3>1. Batch * e <= 0
      BY <1>1, <1>3, <2>1
    <3> QED
      BY <1>2, <1>3, <3>1
  <2>2. CASE e >= 1
    <3>1. Batch * e >= Batch
      BY <1>1, <1>3, <2>2
    <3> QED
      BY <1>3, <3>1
  <2> QED
    BY <1>3, <2>1, <2>2
<1>5. r + Batch <= PrintInterval
  <2>1. PrintInterval - r = Batch * (m - e)
    BY <1>1, <1>2, <1>3
  <2>2. m - e >= 1
    <3>1. CASE m - e <= 0
      <4>1. Batch * (m - e) <= 0
        BY <1>1, <1>2, <1>3, <3>1
      <4> QED
        BY <1>1, <1>2, <2>1, <4>1
    <3> QED
      BY <1>2, <1>3, <3>1
  <2>3. Batch * (m - e) >= Batch
    BY <1>1, <1>2, <1>3, <2>2
  <2> QED
    BY <1>1, <1>2, <2>1, <2>3
<1> QED
  BY <1>4, <1>5 DEF r

\* The multiples of the interval up to a count of whole batches: none is added by
\* a part of a batch; the last batch added one if it reached it, else none.
LEMMA Multiples ==
    ASSUME PrintInterval % Batch = 0, NEW s \in Nat, s % Batch = 0
    PROVE  LET due == s \div PrintInterval
           IN  /\ due \in Nat
               /\ \A w \in 1 .. Batch - 1 :
                      (s + w) \div PrintInterval = due /\ (s + w) % PrintInterval # 0
               /\ s >= Batch /\ s % PrintInterval # 0 => (s - Batch) \div PrintInterval = due
               /\ s >= Batch /\ s % PrintInterval = 0 =>
                      (s - Batch) \div PrintInterval = due - 1 /\ due >= 1
               /\ s % PrintInterval = 0 => s = due * PrintInterval
<1> DEFINE P == PrintInterval
           d == s \div P
           r == s % P
<1>1. Batch \in Nat \ {0} /\ P \in Nat \ {0}
  BY BatchAssumption, PrintAssumption
<1>2. d \in Nat /\ r \in 0 .. P - 1 /\ s = P * d + r
  BY <1>1, DivideBy
<1>3. (r = 0 \/ r >= Batch) /\ r + Batch <= P
  BY WholeRemainder
<1> HIDE DEF P, d, r
<1>4. ASSUME NEW w \in 1 .. Batch - 1 PROVE (s + w) \div P = d /\ (s + w) % P # 0
  <2>1. s + w \in Nat /\ r + w \in 0 .. P - 1 /\ r + w # 0 /\ s + w = P * d + (r + w)
    BY <1>1, <1>2, <1>3
  <2> QED
    BY <1>1, <1>2, <2>1, DivisionIs
<1>5. ASSUME s >= Batch, r # 0 PROVE (s - Batch) \div P = d
  <2>1. s - Batch \in Nat /\ r - Batch \in 0 .. P - 1 /\ s - Batch = P * d + (r - Batch)
    BY <1>1, <1>2, <1>3, <1>5
  <2> QED
    BY <1>1, <1>2, <2>1, DivisionIs
<1>6. ASSUME s >= Batch, r = 0 PROVE (s - Batch) \div P = d - 1 /\ d >= 1
  <2>1. P * (d - 1) = P * d - P
    BY <1>1, <1>2
  <2>2. s - Batch \in Nat /\ P - Batch \in 0 .. P - 1 /\ s - Batch = P * (d - 1) + (P - Batch)
    BY <1>1, <1>2, <1>3, <1>6, <2>1
  <2>3. (s - Batch) \div P = d - 1
    BY <1>1, <1>2, <2>2, DivisionIs
  <2>4. d # 0
    <3>1. P * 0 = 0
      BY <1>1
    <3> QED
      BY <1>1, <1>2, <1>6, <3>1
  <2> QED
    BY <1>2, <2>3, <2>4
<1>7. r = 0 => s = d * P
  BY <1>1, <1>2
<1> QED
  BY <1>2, <1>4, <1>5, <1>6, <1>7 DEF d, r, P

\* One more line.
LEMMA ReportedNext ==
    ASSUME NEW n \in Nat
    PROVE  /\ Reported(n) \in Seq(Nat) /\ Len(Reported(n)) = n
           /\ Append(Reported(n), BaseKeys + (n + 1) * PrintInterval) = Reported(n + 1)
<1>1. \A k \in Nat : BaseKeys + k * PrintInterval \in Nat
  BY PrintAssumption
<1>2. \A m \in Nat : Reported(m) \in Seq(Nat) /\ Len(Reported(m)) = m
  BY <1>1 DEF Reported
<1>3. \A m \in Nat, k \in Nat : k \in 1 .. m => Reported(m)[k] = BaseKeys + k * PrintInterval
  BY DEF Reported
<1> DEFINE line == BaseKeys + (n + 1) * PrintInterval
           more == Append(Reported(n), line)
<1>4. line \in Nat /\ n + 1 \in Nat
  BY <1>1
<1>5. Reported(n + 1)[n + 1] = line
  BY <1>3, <1>4
<1> HIDE DEF line
<1>6. more \in Seq(Nat) /\ Len(more) = n + 1
      /\ (\A k \in 1 .. n : more[k] = Reported(n)[k]) /\ more[n + 1] = line
  BY <1>2, <1>4
<1>7. \A k \in 1 .. n + 1 : more[k] = Reported(n + 1)[k]
  <2>1. ASSUME NEW k \in 1 .. n PROVE more[k] = Reported(n + 1)[k]
    BY <1>3, <1>4, <1>6
  <2> QED
    BY <1>5, <1>6, <2>1
<1>8. Reported(n + 1) \in Seq(Nat) /\ Len(Reported(n + 1)) = n + 1
  BY <1>2, <1>4
<1> HIDE DEF more
<1>9. more = Reported(n + 1)
  BY <1>6, <1>7, <1>8
<1> QED
  BY <1>2, <1>9 DEF more, line

\* One more batch.
LEMMA OneMoreBatch ==
    ASSUME NEW s \in Nat, s % Batch = 0
    PROVE  (s + Batch) % Batch = 0
<1> DEFINE q == s \div Batch
<1>1. Batch \in Nat \ {0}
  BY BatchAssumption
<1>2. q \in Nat /\ s = Batch * q + (s % Batch)
  BY <1>1, DivideBy
<1> HIDE DEF q
<1>3. q + 1 \in Int /\ s + Batch \in Nat /\ 0 \in 0 .. Batch - 1
      /\ s + Batch = Batch * (q + 1) + 0
  BY <1>1, <1>2
<1> QED
  BY <1>1, <1>3, DivisionIs

\* What the action of a worker does to the call, as one record.
LEMMA CallAfter ==
    ASSUME TypeOK, NEW t \in Workers, NEW r, call' = [call EXCEPT ![t] = r]
    PROVE  call'[t] = r
BY DEF TypeOK

\* A step that counts nothing and prints nothing.
LEMMA ProgressSame ==
    ASSUME NEW t \in Workers, TypeOK, ProgressInv(t),
           call[t].pc \in {"fill", "flush"}, call'[t].pc \in {"fill", "write", "flush", "end"},
           call'[t].success = call[t].success, call'[t].ok = call[t].ok,
           progress'[t] = progress[t],
           call[t].pc = "flush" => call'[t].pc = "end" /\ call'[t].wb = 0,
           call'[t].pc = "end" => call[t].pc = "flush" /\ call'[t].wb = 0,
           call'[t].pc = "flush" => call'[t].wb < Batch
    PROVE  ProgressInv(t)'
<1>1. CASE InBatches(t)
  <2>1. Accounted(t) = call[t].success /\ Accounted(t)' = call[t].success
    BY DEF Accounted
  <2> QED
    BY <1>1, <2>1 DEF ProgressInv, InBatches, AfterFlush
<1>2. CASE AfterFlush(t)
  BY <1>2 DEF ProgressInv, AfterFlush
<1> QED
  BY <1>1, <1>2 DEF ProgressInv

LEMMA QuietSteps ==
    ASSUME NEW t \in Workers, Own(t), ProgressInv(t),
           Put(t) \/ PutLast(t) \/ EndBatch(t) \/ PrintTotal(t)
    PROVE  ProgressInv(t)'
<1> DEFINE c == call[t]
<1>1. TypeOK /\ c \in CallType /\ c.wb \in Nat /\ c.j \in Nat /\ Batch \in Nat \ {0}
  BY CallFacts DEF Own
<1>2. CASE Put(t)
  <2> DEFINE r == [c EXCEPT !.wb = @ + 1, !.j = @ + 1, !.ind = @ + 1]
  <2>1. c.pc = "fill" /\ call' = [call EXCEPT ![t] = r] /\ progress' = progress
    BY <1>1, <1>2 DEF Put
  <2>2. r.pc = c.pc /\ r.success = c.success /\ r.ok = c.ok
    BY <1>1 DEF CallType
  <2> HIDE DEF r
  <2> QED
    BY <1>1, <2>1, <2>2, CallAfter, ProgressSame
<1>3. CASE PutLast(t)
  <2> DEFINE r == [c EXCEPT !.wb = @ + 1, !.pc = "write"]
  <2>1. c.pc = "fill" /\ call' = [call EXCEPT ![t] = r] /\ progress' = progress
    BY <1>1, <1>3 DEF PutLast
  <2>2. r.pc = "write" /\ r.success = c.success /\ r.ok = c.ok
    BY <1>1 DEF CallType
  <2> HIDE DEF r
  <2> QED
    BY <1>1, <2>1, <2>2, CallAfter, ProgressSame
<1>4. CASE EndBatch(t)
  <2> DEFINE r == [c EXCEPT !.done = @ + c.j, !.j = 0, !.pc = Outer(c.ind, t)]
  <2>1. c.pc = "fill" /\ call' = [call EXCEPT ![t] = r] /\ progress' = progress
    BY <1>1, <1>4 DEF EndBatch
  <2>2. r.pc = Outer(c.ind, t) /\ r.success = c.success /\ r.ok = c.ok /\ r.wb = c.wb
    BY <1>1 DEF CallType
  <2>3. Outer(c.ind, t) \in {"fill", "flush"}
    BY DEF Outer
  <2>4. c.wb < Batch
    BY <1>1, <2>1 DEF Own, LoopInv
  <2> HIDE DEF r
  <2> QED
    BY <1>1, <2>1, <2>2, <2>3, <2>4, CallAfter, ProgressSame
<1>5. CASE PrintTotal(t)
  <2> DEFINE r == [c EXCEPT !.pc = "end"]
  <2>1. c.pc = "flush" /\ c.wb = 0 /\ call' = [call EXCEPT ![t] = r] /\ progress' = progress
    BY <1>1, <1>5 DEF PrintTotal
  <2>2. r.pc = "end" /\ r.success = c.success /\ r.ok = c.ok /\ r.wb = c.wb
    BY <1>1 DEF CallType
  <2> HIDE DEF r
  <2> QED
    BY <1>1, <2>1, <2>2, CallAfter, ProgressSame
<1> QED
  BY <1>2, <1>3, <1>4, <1>5

\* The count goes up by a batch, which is not reported yet, or stays.
LEMMA CountsBatch ==
    ASSUME NEW t \in Workers, Own(t), ProgressInv(t), NEW ok \in BOOLEAN, WriteBatch(t, ok)
    PROVE  ProgressInv(t)'
<1> DEFINE c == call[t]
           success == IF ok THEN c.success + c.wb ELSE c.success
           r == [c EXCEPT !.success = success, !.wb = 0, !.ok = ok, !.pc = "report"]
<1>1. TypeOK /\ c \in CallType /\ c.success \in Nat /\ Batch \in Nat \ {0}
  BY CallFacts DEF Own
<1>2. c.pc = "write" /\ c.wb = Batch
  BY DEF Own, LoopInv, WriteBatch
<1>3. call' = [call EXCEPT ![t] = r] /\ progress' = progress
  BY <1>1 DEF WriteBatch
<1>4. InBatches(t) /\ Accounted(t) = c.success
  BY <1>2 DEF ProgressInv, AfterFlush, Accounted
<1>5. success \in Nat /\ success % Batch = 0
      /\ (ok => success - Batch = c.success) /\ (~ok => success = c.success)
  BY <1>1, <1>2, <1>4, OneMoreBatch DEF InBatches
<1> HIDE DEF success
<1>6. r.pc = "report" /\ r.success = success /\ r.ok = ok
  BY <1>1 DEF CallType
<1> HIDE DEF r
<1>7. call'[t] = r
  BY <1>1, <1>3, CallAfter
<1>8. Accounted(t)' = c.success
  BY <1>5, <1>6, <1>7 DEF Accounted
<1> QED
  BY <1>1, <1>3, <1>4, <1>5, <1>6, <1>7, <1>8 DEF ProgressInv, InBatches
\* The line of a batch, if it is due.
LEMMA ReportsBatch ==
    ASSUME PrintInterval % Batch = 0,
           NEW t \in Workers, Own(t), ProgressInv(t), NEW late \in BOOLEAN, ReportBatch(t, late)
    PROVE  ProgressInv(t)'
<1> DEFINE c == call[t]
           seen == IF late THEN c.success ELSE c.lastSuccess
           r == [c EXCEPT !.lastSuccess = seen, !.j = @ + 1, !.ind = @ + 1, !.pc = "fill"]
           due == c.success \div PrintInterval
<1>1. TypeOK /\ c \in CallType /\ c.success \in Nat /\ Batch \in Nat \ {0}
      /\ c.ok \in BOOLEAN
  BY CallFacts DEF Own
<1>2. c.pc = "report"
  BY DEF ReportBatch
<1>3. call' = [call EXCEPT ![t] = r]
  BY <1>1 DEF ReportBatch
<1>4. InBatches(t)
  BY <1>2 DEF ProgressInv, AfterFlush
<1> HIDE DEF seen
<1>5. r.pc = "fill" /\ r.success = c.success /\ r.ok = c.ok
  BY <1>1 DEF CallType
<1> HIDE DEF r
<1>6. call'[t] = r
  BY <1>1, <1>3, CallAfter
<1>7. progress'[t] = Reported(due)
  <2>1. /\ due \in Nat
        /\ c.success >= Batch /\ c.success % PrintInterval # 0 =>
              (c.success - Batch) \div PrintInterval = due
        /\ c.success >= Batch /\ c.success % PrintInterval = 0 =>
              (c.success - Batch) \div PrintInterval = due - 1 /\ due >= 1
        /\ c.success % PrintInterval = 0 => c.success = due * PrintInterval
    BY <1>1, <1>4, Multiples DEF InBatches
  <2> HIDE DEF due
  <2>2. CASE c.ok
    <3>1. c.success >= Batch
          /\ progress[t] = Reported((c.success - Batch) \div PrintInterval)
      BY <1>1, <1>2, <1>4, <2>2 DEF InBatches, Accounted
    <3>2. CASE c.success % PrintInterval = 0
      <4>1. progress' = [progress EXCEPT ![t] = Append(@, BaseKeys + c.success)]
        BY <1>1, <2>2, <3>1, <3>2 DEF ReportBatch, AtInterval, PrintProgress
      <4>2. progress'[t] = Append(Reported(due - 1), BaseKeys + due * PrintInterval)
        BY <1>1, <2>1, <3>1, <3>2, <4>1 DEF TypeOK
      <4>3. due - 1 \in Nat /\ (due - 1) + 1 = due
        BY <2>1, <3>1, <3>2
      <4> QED
        BY <4>2, <4>3, ReportedNext
    <3>3. CASE c.success % PrintInterval # 0
      <4>1. progress' = progress
        BY <3>3 DEF ReportBatch, AtInterval
      <4> QED
        BY <2>1, <3>1, <3>3, <4>1
    <3> QED
      BY <3>2, <3>3
  <2>3. CASE ~c.ok
    <3>1. progress' = progress
      BY <2>3 DEF ReportBatch
    <3>2. Accounted(t) = c.success
      BY <2>3 DEF Accounted
    <3> QED
      BY <1>4, <3>1, <3>2 DEF InBatches, due
  <2> QED
    BY <2>2, <2>3
<1>8. Accounted(t)' = c.success
  BY <1>5, <1>6 DEF Accounted
<1> QED
  BY <1>1, <1>4, <1>5, <1>6, <1>7, <1>8 DEF ProgressInv, InBatches

\* The last, partial batch crosses no multiple of the interval; if it failed, the
\* line of a count that is one may be printed again.
LEMMA FlushReports ==
    ASSUME PrintInterval % Batch = 0,
           NEW t \in Workers, Own(t), ProgressInv(t), NEW ok \in BOOLEAN, Flush(t, ok)
    PROVE  ProgressInv(t)'
<1> DEFINE c == call[t]
           success == IF ok THEN c.success + c.wb ELSE c.success
           r == [c EXCEPT !.success = success, !.wb = 0, !.ok = ok]
           due == c.success \div PrintInterval
<1>1. TypeOK /\ c \in CallType /\ c.success \in Nat /\ c.wb \in Nat /\ Batch \in Nat \ {0}
  BY CallFacts DEF Own
<1>2. c.pc = "flush" /\ c.wb > 0
  BY DEF Flush
<1>3. /\ call' = [call EXCEPT ![t] = r]
      /\ IF AtInterval(success) THEN PrintProgress(t, success) ELSE UNCHANGED progress
  BY <1>1 DEF Flush
<1>4. InBatches(t) /\ Accounted(t) = c.success /\ c.wb \in 1 .. Batch - 1
  BY <1>1, <1>2 DEF ProgressInv, InBatches, AfterFlush, Accounted
<1>5. progress[t] = Reported(due)
  BY <1>4 DEF InBatches
<1>6. /\ due \in Nat
      /\ (c.success + c.wb) \div PrintInterval = due /\ (c.success + c.wb) % PrintInterval # 0
      /\ c.success % PrintInterval = 0 => c.success = due * PrintInterval
  BY <1>1, <1>4, Multiples DEF InBatches
<1>7. r.pc = "flush" /\ r.success = success /\ r.ok = ok /\ r.wb = 0
  BY <1>1, <1>2 DEF CallType
<1> HIDE DEF r
<1>8. call'[t] = r
  BY <1>1, <1>3, CallAfter
<1>9. CASE ok
  <2>1. success = c.success + c.wb
    BY <1>9
  <2> HIDE DEF success
  <2>2. progress' = progress /\ success \div PrintInterval = due
    BY <1>3, <1>6, <2>1 DEF AtInterval
  <2> QED
    BY <1>5, <1>7, <1>8, <2>2 DEF ProgressInv, AfterFlush
<1>10. CASE ~ok
  <2>1. success = c.success
    BY <1>10
  <2> HIDE DEF success
  <2>2. CASE AtInterval(success)
    <3>1. progress' = [progress EXCEPT ![t] = Append(@, BaseKeys + success)]
          /\ success = due * PrintInterval
      BY <1>3, <1>6, <2>1, <2>2 DEF AtInterval, PrintProgress
    <3>2. progress'[t] = Append(Reported(due), BaseKeys + due * PrintInterval)
      BY <1>1, <1>5, <3>1 DEF TypeOK
    <3>3. success \div PrintInterval = due
      BY <2>1
    <3> QED
      BY <1>7, <1>8, <1>10, <3>2, <3>3 DEF ProgressInv, AfterFlush
  <2>3. CASE ~AtInterval(success)
    <3>1. progress' = progress /\ success \div PrintInterval = due
      BY <1>3, <2>1, <2>3
    <3> QED
      BY <1>5, <1>7, <1>8, <3>1 DEF ProgressInv, AfterFlush
  <2> QED
    BY <2>2, <2>3
<1> QED
  BY <1>9, <1>10

\* The progress lines are as ProgressInv says, if the batch divides the interval.
ProgressAll == PrintInterval % Batch = 0 => \A t \in Workers : ProgressInv(t)

LEMMA ProgressInit == Init => ProgressAll
<1> SUFFICES ASSUME Init, NEW t \in Workers PROVE ProgressInv(t)
  BY DEF ProgressAll
<1>1. /\ call[t].pc \in {"fill", "flush"} /\ call[t].success = 0 /\ call[t].wb = 0
      /\ progress[t] = <<>>
  BY DEF Init, Outer
<1>2. Batch \in Nat \ {0} /\ PrintInterval \in Nat \ {0}
  BY BatchAssumption, PrintAssumption
<1>3. Accounted(t) = 0
  BY <1>1 DEF Accounted
<1>4. 0 \div PrintInterval = 0 /\ 0 % Batch = 0
  BY <1>2, DivisionIs
<1>5. Reported(0) = <<>>
  BY ReportedNext
<1> QED
  BY <1>1, <1>2, <1>3, <1>4, <1>5 DEF ProgressInv, InBatches

LEMMA ProgressStep == IInv /\ ProgressAll /\ [Next]_vars => ProgressAll'
<1> SUFFICES ASSUME IInv, ProgressAll, PrintInterval % Batch = 0, [Next]_vars,
                    NEW u \in Workers
             PROVE  ProgressInv(u)'
  BY DEF ProgressAll
<1>1. ProgressInv(u)
  BY DEF ProgressAll
<1>2. ASSUME NEW t \in Workers, Step(t) PROVE ProgressInv(u)'
  <2>1. Own(t)
    BY DEF IInv, Own
  <2>2. CASE u = t
    BY <1>1, <1>2, <2>1, <2>2, QuietSteps, CountsBatch, ReportsBatch, FlushReports DEF Step
  <2>3. CASE u # t
    <3>1. call'[u] = call[u]
      BY <1>2, <2>1, <2>3, Frame DEF Own
    <3>2. progress'[u] = progress[u]
      BY <1>2, <2>1, <2>3 DEF Own, TypeOK, Step, Put, PutLast, WriteBatch, Flush, ReportBatch,
         EndBatch, PrintTotal, PrintProgress
    <3> QED
      BY <1>1, <3>1, <3>2 DEF ProgressInv, InBatches, AfterFlush, Accounted
  <2> QED
    BY <2>2, <2>3
<1>3. CASE UNCHANGED vars
  BY <1>1, <1>3 DEF vars, ProgressInv, InBatches, AfterFlush, Accounted
<1> QED
  BY <1>2, <1>3 DEF Next

\* Where --batch divides the print interval, the progress lines of a worker are
\* those of the multiples of the interval it has counted, each once and in order,
\* but for the last one, which a final flush that failed may repeat.
THEOREM ProgressIsExact == Spec => []ProgressExact
<1>1. IInv /\ ProgressAll => ProgressExact
  <2> SUFFICES ASSUME IInv, PrintInterval % Batch = 0, NEW t \in Workers, ProgressInv(t)
               PROVE  LET due == call[t].success \div PrintInterval
                          line(k) == BaseKeys + k * PrintInterval
                          p == progress[t]
                      IN  \/ p = [k \in 1 .. due |-> line(k)]
                          \/ /\ call[t].pc = "report" /\ call[t].ok
                             /\ p = [k \in 1 .. due - 1 |-> line(k)]
                          \/ /\ call[t].pc \in {"flush", "end"} /\ ~call[t].ok
                             /\ p = [k \in 1 .. due + 1 |-> line(IF k > due THEN due ELSE k)]
    BY DEF ProgressAll, ProgressExact
  <2> DEFINE s == call[t].success
             due == s \div PrintInterval
  <2>1. s \in Nat /\ Batch \in Nat \ {0} /\ PrintInterval \in Nat \ {0}
    BY CallFacts, PrintAssumption DEF IInv
  <2>2. due \in Nat
    BY <2>1, DivideBy
  <2>3. CASE InBatches(t) /\ Accounted(t) = s
    BY <2>3 DEF InBatches, Reported
  <2>4. CASE InBatches(t) /\ Accounted(t) # s
    <3>1. call[t].pc = "report" /\ call[t].ok /\ Accounted(t) = s - Batch /\ s >= Batch
      BY <2>1, <2>4 DEF InBatches, Accounted
    <3>2. (s - Batch) \div PrintInterval \in {due, due - 1}
      BY <2>1, <2>4, <3>1, Multiples DEF InBatches
    <3> HIDE DEF due, s
    <3>3. progress[t] \in {Reported(due), Reported(due - 1)}
      BY <2>4, <3>1, <3>2 DEF InBatches
    <3> QED
      BY <3>1, <3>3 DEF Reported, due, s
  <2>5. CASE AfterFlush(t) /\ progress[t] = Reported(due)
    BY <2>5 DEF Reported
  <2>6. CASE AfterFlush(t) /\ progress[t] # Reported(due)
    <3>1. call[t].pc \in {"flush", "end"} /\ ~call[t].ok
          /\ progress[t] = Append(Reported(due), BaseKeys + due * PrintInterval)
      BY <2>6 DEF AfterFlush
    <3> HIDE DEF due
    <3>2. Append(Reported(due), BaseKeys + due * PrintInterval)
             = [k \in 1 .. due + 1 |-> BaseKeys + (IF k > due THEN due ELSE k) * PrintInterval]
      BY <2>2 DEF Reported
    <3> QED
      BY <3>1, <3>2 DEF due
  <2> QED
    BY <2>3, <2>4, <2>5, <2>6 DEF ProgressInv
<1>2. Init => ProgressAll /\ IInv
  BY ProgressInit, LoopInit
<1>3. (IInv /\ ProgressAll) /\ [Next]_vars => (IInv /\ ProgressAll)'
  BY ProgressStep, LoopStep
<1> QED
  BY <1>1, <1>2, <1>3, PTL DEF Spec

------------------------------------------------------------------------------
\* The loop takes the steps of BulkLoad.

\* The keys a worker has tried change only with a write, by its batch.
LEMMA TriedStep ==
    ASSUME NEW t \in Workers, Own(t), Step(t)
    PROVE  \/ Written(t)' = Written(t) /\ db' = db /\ total' = total
           \/ Written(t)' = Written(t) /\ PrintTotal(t)
           \/ \E ok \in BOOLEAN :
                  /\ WriteOutcome(t, Written(t) + call[t].wb, ok)
                  /\ Written(t)' = Written(t) + call[t].wb
                  /\ Written(t)' <= Quota[t]
                  /\ call[t].wb \in 1 .. Batch /\ total' = total
<1> DEFINE c == call[t]
           d == call'[t]
           Tries(ok) == /\ WriteOutcome(t, Written(t) + c.wb, ok)
                        /\ Written(t)' = Written(t) + c.wb
                        /\ Written(t)' <= Quota[t]
                        /\ c.wb \in 1 .. Batch /\ total' = total
<1>1. /\ call \in [Workers -> CallType] /\ c \in CallType
      /\ c.ind \in 0 .. Quota[t] /\ Quota[t] \in Nat /\ c.j \in 0 .. Batch
      /\ c.wb \in 0 .. Batch /\ Batch \in Nat \ {0}
  BY CallFacts DEF Own
<1>2. CASE Put(t)
  <2>1. d.pc = "fill" /\ d.ind = c.ind + 1 /\ d.wb = c.wb + 1 /\ c.pc = "fill"
    BY <1>1, <1>2 DEF Put, CallType
  <2> QED  BY <1>1, <1>2, <2>1 DEF Written, Put
<1>3. CASE PutLast(t)
  <2>1. d.pc = "write" /\ d.ind = c.ind /\ d.wb = c.wb + 1 /\ c.pc = "fill"
    BY <1>1, <1>3 DEF PutLast, CallType
  <2> QED  BY <1>1, <1>3, <2>1 DEF Written, PutLast
<1>4. ASSUME NEW ok \in BOOLEAN, WriteBatch(t, ok) PROVE Tries(ok)
  <2>1. /\ d.pc = "report" /\ d.ind = c.ind /\ d.wb = 0 /\ c.pc = "write"
        /\ c.wb = Batch /\ c.ind < Quota[t]
    BY <1>1, <1>4 DEF WriteBatch, CallType, Own, LoopInv
  <2>2. /\ Written(t) = c.ind + 1 - c.wb /\ Written(t)' = c.ind + 1
        /\ Written(t) + c.wb = c.ind + 1
    BY <1>1, <2>1 DEF Written
  <2>3. WriteOutcome(t, Written(t) + c.wb, ok)
    BY <1>4, <2>2 DEF WriteBatch
  <2> QED  BY <1>1, <1>4, <2>1, <2>2, <2>3 DEF WriteBatch
<1>5. ASSUME NEW ok \in BOOLEAN, Flush(t, ok) PROVE Tries(ok)
  <2>1. /\ d.pc = "flush" /\ d.ind = c.ind /\ d.wb = 0 /\ c.pc = "flush"
        /\ c.wb > 0
    BY <1>1, <1>5 DEF Flush, CallType
  <2>2. /\ Written(t) = c.ind - c.wb /\ Written(t)' = c.ind
        /\ Written(t) + c.wb = c.ind
    BY <1>1, <2>1 DEF Written
  <2>3. WriteOutcome(t, Written(t) + c.wb, ok)
    BY <1>5, <2>2 DEF Flush
  <2> QED  BY <1>1, <1>5, <2>1, <2>2, <2>3 DEF Flush
<1>6. ASSUME NEW late \in BOOLEAN, ReportBatch(t, late)
      PROVE  Written(t)' = Written(t) /\ db' = db /\ total' = total
  <2>1. /\ d.pc = "fill" /\ d.ind = c.ind + 1 /\ d.wb = c.wb /\ c.pc = "report"
        /\ c.wb = 0
    BY <1>1, <1>6 DEF ReportBatch, CallType, Own, LoopInv
  <2> QED  BY <1>1, <1>6, <2>1 DEF Written, ReportBatch
<1>7. CASE EndBatch(t)
  <2>1. /\ d.pc \in {"fill", "flush"} /\ d.ind = c.ind /\ d.wb = c.wb
        /\ c.pc = "fill"
    BY <1>1, <1>7 DEF EndBatch, CallType, Outer
  <2> QED  BY <1>1, <1>7, <2>1 DEF Written, EndBatch
<1>8. CASE PrintTotal(t)
  <2>1. d.pc = "end" /\ d.ind = c.ind /\ d.wb = c.wb /\ c.pc = "flush"
    BY <1>1, <1>8 DEF PrintTotal, CallType
  <2> QED  BY <1>1, <1>8, <2>1 DEF Written
<1> QED  BY <1>2, <1>3, <1>4, <1>5, <1>6, <1>7, <1>8 DEF Step

\* The cardinality that BulkLoad's instance sees is the one used here.
LEMMA SameCardinality ==
    ASSUME NEW S
    PROVE  Load!Cardinality(S) = Cardinality(S)
BY DEF Load!Cardinality, Cardinality

\* Every step of the loop is a step of the abstract load, or changes nothing
\* that it knows of.
LEMMA LoadSimulation == IInv /\ [Next]_vars => [Load!Next]_(Load!vars)
<1> SUFFICES ASSUME IInv, [Next]_vars PROVE [Load!Next]_(Load!vars)
  OBVIOUS
<1> DEFINE tried == [t \in Workers |-> Written(t)]
<1>1. ASSUME UNCHANGED <<tried, db, total>> PROVE UNCHANGED Load!vars
  BY <1>1 DEF Load!vars
<1>2. ASSUME NEW t \in Workers, Step(t) PROVE [Load!Next]_(Load!vars)
  <2>1. Own(t)
    BY DEF IInv, Own
  <2>2. \A u \in Workers \ {t} : Written(u)' = Written(u)
    BY <1>2, <2>1, Frame DEF Own, Written
  <2>3. ASSUME Written(t)' = Written(t) PROVE tried' = tried
    BY <2>2, <2>3
  <2>4. CASE Written(t)' = Written(t) /\ db' = db /\ total' = total
    BY <1>1, <2>3, <2>4
  <2>5. CASE Written(t)' = Written(t) /\ PrintTotal(t)
    <3>1. /\ call[t].pc = "flush" /\ call[t].wb = 0 /\ db' = db
          /\ total' = [total EXCEPT ![t] = call[t].success]
      BY <2>5 DEF PrintTotal
    <3>2. total[t] = -1 /\ call[t].success = Cardinality({k \in db : k[1] = t})
      BY <2>1, <3>1 DEF Own, AccountInv, TypeOK, Stored
    <3>3. tried[t] = Quota[t]
      BY <2>1, <3>1, CallFacts DEF Own, LoopInv, Written
    <3>4. Load!Announce(t)
      <4>1. tried' = tried
        BY <2>3, <2>5
      <4>2. total' = [total EXCEPT ![t] = Cardinality({k \in db : k[1] = t})]
        BY <3>1, <3>2
      <4>3. total[t] = -1 /\ db' = db
        BY <3>1, <3>2
      <4> HIDE DEF tried
      <4>4. tried[t] = Quota[t] /\ UNCHANGED <<tried, db>>
        BY <3>3, <4>1, <4>3
      <4>5. total' = [total EXCEPT ![t] = Load!Cardinality({k \in db : k[1] = t})]
        BY <4>2, SameCardinality
      <4> QED  BY <4>3, <4>4, <4>5 DEF Load!Announce, tried
    <3> QED  BY <3>4 DEF Load!Next
  <2>6. ASSUME NEW ok \in BOOLEAN,
               WriteOutcome(t, Written(t) + call[t].wb, ok),
               Written(t)' = Written(t) + call[t].wb, Written(t)' <= Quota[t],
               call[t].wb \in 1 .. Batch, total' = total
        PROVE  [Load!Next]_(Load!vars)
    <3> DEFINE n == call[t].wb
    <3>1. Written(t) \in Int /\ n \in Int
      BY <2>1, CallFacts DEF Own, Written
    <3>2. Pending(t, Written(t) + n) = {t} \X (tried[t] + 1 .. tried[t] + n)
      BY <3>1 DEF Pending
    <3>3. db' = db \cup ({t} \X (tried[t] + 1 .. tried[t] + n)) \/ db' = db
      BY <2>6, <3>2 DEF WriteOutcome
    <3>4. tried' = [tried EXCEPT ![t] = @ + n]
      BY <2>2, <2>6
    <3>5. tried[t] + n <= Quota[t]
      BY <2>6
    <3>6. Load!Try(t, n)
      BY <2>6, <3>3, <3>4, <3>5 DEF Load!Try
    <3> QED  BY <2>6, <3>6 DEF Load!Next
  <2> QED  BY <1>2, <2>1, <2>4, <2>5, <2>6, TriedStep
<1>3. CASE UNCHANGED vars
  BY <1>1, <1>3 DEF vars, Written
<1> QED  BY <1>2, <1>3 DEF Next

\* The write loop implements the abstract load, up to fairness: each of its
\* steps stores or loses one group of keys, announces a true total, or
\* changes nothing that the abstract load knows of.
THEOREM BulkLoadRefinement == Spec => Load!Init /\ [][Load!Next]_(Load!vars)
<1>1. Init => Load!Init
  <2>1. ASSUME Init, NEW t \in Workers PROVE Written(t) = 0
    BY <2>1 DEF Init, Written, Outer
  <2> QED  BY <2>1 DEF Init, Load!Init
<1>2. IInv /\ [Next]_vars => [Load!Next]_(Load!vars)
  BY LoadSimulation
<1> QED  BY <1>1, <1>2, LoopInvariance, PTL DEF Spec

------------------------------------------------------------------------------
\* Every call comes to its end.

\* What a call has left is a number, and nothing only at its end.
LEMMA LeftType ==
    ASSUME IInv, NEW t \in Workers
    PROVE  Left(t) \in Nat /\ (Left(t) = 0 <=> call[t].pc = "end")
<1>1. /\ call[t].ind \in 0 .. Quota[t] /\ Quota[t] \in Nat
      /\ call[t].pc \in {"fill", "write", "report", "flush", "end"}
      /\ call[t].pc = "end" => call[t].ind = Quota[t]
  BY QuotaAssumption DEF IInv, TypeOK, LoopInv
<1> QED  BY <1>1 DEF Left

LEMMA LeftTypeNext == IInv' => \A t \in Workers : Left(t)' \in Nat
<1>1. IInv => \A t \in Workers : Left(t) \in Nat
  BY LeftType
<1>2. (IInv => \A t \in Workers : Left(t) \in Nat)'
  BY <1>1, PTL
<1> QED  BY <1>2

\* Each step of a call takes something away of what it has left.
LEMMA LeftStep ==
    ASSUME IInv, NEW t \in Workers, Step(t)
    PROVE  Left(t)' < Left(t)
<1>1. /\ call[t].ind \in 0 .. Quota[t] /\ Quota[t] \in Nat
      /\ call[t].j \in Nat /\ call[t].wb \in Nat /\ Batch \in Nat \ {0}
      /\ call \in [Workers -> CallType]
  BY QuotaAssumption, BatchAssumption DEF IInv, TypeOK, CallType
<1>2. CASE Put(t)
  <2>1. /\ call[t].pc = "fill" /\ call'[t].pc = "fill"
        /\ call'[t].ind = call[t].ind + 1
    BY <1>1, <1>2 DEF Put, CallType
  <2> QED  BY <1>1, <2>1 DEF Left
<1>3. CASE PutLast(t)
  <2>1. /\ call[t].pc = "fill" /\ call'[t].pc = "write"
        /\ call'[t].ind = call[t].ind
    BY <1>1, <1>3 DEF PutLast, CallType
  <2> QED  BY <1>1, <2>1 DEF Left
<1>4. ASSUME NEW ok \in BOOLEAN, WriteBatch(t, ok)
      PROVE  Left(t)' < Left(t)
  <2>1. /\ call[t].pc = "write" /\ call'[t].pc = "report"
        /\ call'[t].ind = call[t].ind
    BY <1>1, <1>4 DEF WriteBatch, CallType
  <2> QED  BY <1>1, <2>1 DEF Left
<1>5. ASSUME NEW ok \in BOOLEAN, Flush(t, ok)
      PROVE  Left(t)' < Left(t)
  <2>1. /\ call[t].pc = "flush" /\ call'[t].pc = "flush" /\ call[t].wb > 0
        /\ call'[t].ind = call[t].ind /\ call'[t].wb = 0
    BY <1>1, <1>5 DEF Flush, CallType
  <2> QED  BY <1>1, <2>1 DEF Left
<1>6. ASSUME NEW late \in BOOLEAN, ReportBatch(t, late)
      PROVE  Left(t)' < Left(t)
  <2>1. /\ call[t].pc = "report" /\ call'[t].pc = "fill"
        /\ call'[t].ind = call[t].ind + 1
    BY <1>1, <1>6 DEF ReportBatch, CallType
  <2> QED  BY <1>1, <2>1 DEF Left
<1>7. CASE EndBatch(t)
  <2>1. /\ call[t].pc = "fill" /\ call'[t].ind = call[t].ind /\ call'[t].j = 0
        /\ call'[t].pc = Outer(call[t].ind, t)
        /\ call[t].j >= Batch \/ call[t].ind >= Quota[t]
    BY <1>1, <1>7 DEF EndBatch, MoreForBatch, CallType
  <2> QED  BY <1>1, <2>1 DEF Left, Outer
<1>8. CASE PrintTotal(t)
  <2>1. /\ call[t].pc = "flush" /\ call'[t].pc = "end"
        /\ call'[t].ind = call[t].ind
    BY <1>1, <1>8 DEF PrintTotal, CallType
  <2> QED  BY <1>1, <2>1 DEF Left
<1> QED  BY <1>2, <1>3, <1>4, <1>5, <1>6, <1>7, <1>8 DEF Step

\* A call of DoSimpleRandomWrite takes a number of steps that its keys bound,
\* whichever writes fail: the loops make no turn for nothing.
THEOREM LoopsAreBounded ==
    Spec => /\ LoopsRunOut
            /\ [](\A t \in Workers : Left(t) \in Nat /\ (Left(t) = 0 <=> call[t].pc = "end"))
<1>1. IInv /\ IInv' /\ [Next]_vars =>
          [/\ \A t \in Workers : Left(t)' <= Left(t)
           /\ \E t \in Workers : Left(t)' < Left(t)]_vars
  <2> SUFFICES ASSUME IInv, IInv', NEW t \in Workers, Step(t)
               PROVE  /\ \A u \in Workers : Left(u)' <= Left(u)
                      /\ \E u \in Workers : Left(u)' < Left(u)
    BY DEF Next
  <2>1. Left(t)' < Left(t)
    BY LeftStep
  <2>2. ASSUME NEW u \in Workers \ {t} PROVE Left(u)' = Left(u)
    <3>1. call'[u] = call[u]
      BY Frame DEF IInv
    <3> QED  BY <3>1 DEF Left
  <2>3. \A u \in Workers : Left(u) \in Nat /\ Left(u)' \in Nat
    <3>1. \A u \in Workers : Left(u) \in Nat
      BY LeftType
    <3>2. \A u \in Workers : Left(u)' \in Nat
      BY LeftTypeNext
    <3> QED  BY <3>1, <3>2
  <2> QED  BY <2>1, <2>2, <2>3
<1>2. IInv => \A t \in Workers : Left(t) \in Nat /\ (Left(t) = 0 <=> call[t].pc = "end")
  BY LeftType
<1> QED  BY <1>1, <1>2, LoopInvariance, PTL DEF Spec, LoopsRunOut
==============================================================================
