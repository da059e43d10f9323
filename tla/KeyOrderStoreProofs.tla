-------------------------- MODULE KeyOrderStoreProofs --------------------------
(***************************************************************************)
(* Proofs about KeyOrderStore: the division of the key space among the     *)
(* workers, for any --num and --worker_threads, and the orders that runs   *)
(* with generated file names use, after any history of runs.               *)
(***************************************************************************)
EXTENDS KeyOrderStore, FiniteSetTheorems, TLAPS

------------------------------------------------------------------------------
\* The division of the key space.

\* Quotient and remainder, as the code divides --num by --worker_threads.
LEMMA Division ==
    ASSUME NEW n \in Nat \ {0}, NEW k \in Nat \ {0}
    PROVE  /\ n \div k \in Nat /\ (n % k) \in 0 .. k - 1
           /\ n = k * (n \div k) + (n % k)
OBVIOUS

\* The first key of a worker, and one past the last key of a worker, when q
\* is the quotient: the ranges of the workers follow each other.
LEMMA RangeBounds ==
    ASSUME NEW f, f.num \in Nat \ {0}, f.threads \in Nat \ {0},
           NEW t \in 0 .. f.threads - 1
    PROVE  UniformRange(f, t) =
               t * (f.num \div f.threads) + 1 ..
                   (IF t = f.threads - 1 THEN f.num
                    ELSE (t + 1) * (f.num \div f.threads))
<1> DEFINE n == f.num
           k == f.threads
           q == n \div k
           r == n % k
<1>1. q \in Nat /\ r \in Nat /\ n = k * q + r
  <2>1. n \in Nat \ {0} /\ k \in Nat \ {0}
    OBVIOUS
  <2> HIDE DEF n, k
  <2>2. q \in Nat /\ r \in 0 .. k - 1 /\ n = k * q + r
    BY <2>1, Division
  <2> QED  BY <2>1, <2>2
<1>2. Expected(f, t) = IF t = k - 1 THEN q + r ELSE q
  BY <1>1 DEF Expected
<1>3. UniformRange(f, t) = t * q + 1 .. (t * q + 1) + Expected(f, t) - 1
  BY DEF UniformRange
<1> HIDE DEF q, r
<1>4. (t + 1) * q = t * q + q /\ t * q \in Nat
  BY <1>1
<1>5. CASE t = k - 1
  <2>1. k * q = t * q + q
    BY <1>4, <1>5
  <2>2. (t * q + 1) + (q + r) - 1 = n
    BY <1>1, <1>4, <2>1
  <2> QED  BY <1>2, <1>3, <1>5, <2>2 DEF q
<1>6. CASE t # k - 1
  <2>1. (t * q + 1) + q - 1 = (t + 1) * q
    BY <1>1, <1>4
  <2> QED  BY <1>2, <1>3, <1>6, <2>1 DEF q
<1> QED  BY <1>5, <1>6

\* The uniform orders of the workers cover [1, num] and do not overlap.
THEOREM UniformPartition ==
    ASSUME NEW n \in Nat \ {0}, NEW k \in Nat \ {0}, NEW f,
           f.num = n, f.threads = k
    PROVE  /\ UNION {UniformRange(f, t) : t \in 0 .. k - 1} = 1 .. n
           /\ \A s, t \in 0 .. k - 1 :
                  s # t => UniformRange(f, s) \cap UniformRange(f, t) = {}
<1> DEFINE q == n \div k
           last(t) == IF t = k - 1 THEN n ELSE (t + 1) * q
<1>1. q \in Nat /\ n % k \in Nat /\ n = k * q + (n % k)
  OBVIOUS
<1>2. \A t \in 0 .. k - 1 : UniformRange(f, t) = t * q + 1 .. last(t)
  <2> SUFFICES ASSUME NEW t \in 0 .. k - 1
               PROVE  UniformRange(f, t) = t * q + 1 .. last(t)
    OBVIOUS
  <2>1. f.num \in Nat \ {0} /\ f.threads \in Nat \ {0}
    OBVIOUS
  <2>2. t \in 0 .. f.threads - 1
    OBVIOUS
  <2>3. UniformRange(f, t) =
            t * (f.num \div f.threads) + 1 ..
                (IF t = f.threads - 1 THEN f.num
                 ELSE (t + 1) * (f.num \div f.threads))
    BY <2>1, <2>2, RangeBounds
  <2> QED  BY <2>3
<1>3. \A t \in 0 .. k : t * q \in Nat /\ t * q <= n
  <2> SUFFICES ASSUME NEW t \in 0 .. k PROVE t * q \in Nat /\ t * q <= n
    OBVIOUS
  <2> HIDE DEF q
  <2>1. t * q <= k * q /\ t * q \in Nat /\ k * q \in Nat
    BY <1>1
  <2> QED  BY <1>1, <2>1
<1>4. ASSUME NEW s \in 0 .. k - 1, NEW t \in 0 .. k - 1, s < t
      PROVE  UniformRange(f, s) \cap UniformRange(f, t) = {}
  <2>1. (s + 1) * q <= t * q /\ (s + 1) * q \in Nat /\ t * q \in Nat
    <3> HIDE DEF q
    <3> QED  BY <1>1, <1>3, <1>4
  <2>2. last(s) = (s + 1) * q
    BY <1>4
  <2>3. last(t) \in Int
    BY <1>1, <1>3
  <2>4. \A x \in UniformRange(f, s) : x <= t * q
    <3>1. UniformRange(f, s) = s * q + 1 .. (s + 1) * q
      BY <1>2, <2>2
    <3>2. s * q \in Nat
      BY <1>3
    <3> HIDE DEF q
    <3> QED  BY <2>1, <3>1, <3>2
  <2>5. \A x \in UniformRange(f, t) : x > t * q
    <3>1. UniformRange(f, t) = t * q + 1 .. last(t)
      BY <1>2
    <3> HIDE DEF q, last
    <3> QED  BY <2>1, <2>3, <3>1
  <2>6. \A x \in UniformRange(f, s) : x \in Int
    <3>1. UniformRange(f, s) = s * q + 1 .. (s + 1) * q
      BY <1>2, <2>2
    <3> QED  BY <3>1
  <2> HIDE DEF q, last
  <2> QED  BY <2>1, <2>4, <2>5, <2>6
<1>5. \A s, t \in 0 .. k - 1 :
          s # t => UniformRange(f, s) \cap UniformRange(f, t) = {}
  BY <1>4
<1>6. ASSUME NEW x \in 1 .. n
      PROVE  \E t \in 0 .. k - 1 : x \in UniformRange(f, t)
  <2>1. CASE (k - 1) * q + 1 <= x
    <3>1. k - 1 \in 0 .. k - 1 /\ last(k - 1) = n
      OBVIOUS
    <3>2. (k - 1) * q \in Nat
      BY <1>3
    <3>3. x \in UniformRange(f, k - 1)
      <4>1. UniformRange(f, k - 1) = (k - 1) * q + 1 .. n
        BY <1>2, <3>1
      <4> HIDE DEF q
      <4> QED  BY <1>6, <2>1, <3>2, <4>1
    <3> QED  BY <3>1, <3>3
  <2>2. CASE ~((k - 1) * q + 1 <= x)
    <3> DEFINE d == (x - 1) \div q
    <3>1. q > 0
      <4>1. (k - 1) * q > 0
        BY <1>3, <2>2
      <4> HIDE DEF q
      <4> QED  BY <1>1, <4>1
    <3>2. /\ d \in Nat /\ (x - 1) % q \in 0 .. q - 1
          /\ x - 1 = q * d + ((x - 1) % q)
      <4> HIDE DEF q
      <4> QED  BY <1>1, <3>1
    <3> HIDE DEF d, q
    <3>3. d < k - 1
      <4>1. x <= (k - 1) * q
        BY <1>1, <2>2
      <4>2. q * d < (k - 1) * q
        BY <1>1, <3>1, <3>2, <4>1
      <4> QED  BY <1>1, <3>1, <3>2, <4>2
    <3>4. d * q + 1 <= x /\ x <= (d + 1) * q
      BY <1>1, <3>1, <3>2
    <3>5. last(d) = (d + 1) * q /\ d \in 0 .. k - 1
      BY <3>2, <3>3
    <3>6. d * q \in Nat /\ (d + 1) * q \in Nat
      BY <1>1, <3>2
    <3> HIDE DEF last
    <3>7. x \in UniformRange(f, d)
      BY <1>2, <1>6, <3>4, <3>5, <3>6
    <3> QED  BY <3>5, <3>7
  <2> QED  BY <2>1, <2>2
<1>7. ASSUME NEW t \in 0 .. k - 1, NEW x \in UniformRange(f, t)
      PROVE  x \in 1 .. n
  <2>1. last(t) \in Nat /\ last(t) <= n /\ t * q \in Nat
    <3>1. CASE t = k - 1
      BY <1>3, <3>1
    <3>2. CASE t # k - 1
      <4>1. t + 1 \in 0 .. k
        BY <3>2
      <4>2. last(t) = (t + 1) * q
        BY <3>2
      <4> QED  BY <1>3, <4>1, <4>2
    <3> QED  BY <3>1, <3>2
  <2> HIDE DEF q, last
  <2> QED  BY <1>2, <1>7, <2>1
<1> QED  BY <1>5, <1>6, <1>7

------------------------------------------------------------------------------
\* The inductive invariant.

\* Names, lengths and generated orders of a worker are of their types.
LEMMA NamesType ==
    ASSUME NEW f \in Flags, NEW t \in Tids(f)
    PROVE  /\ AutoPath(f, t) \in Origins /\ Path(f, t) \in Paths
           /\ AutoPath(f, t) # None /\ AutoPath(f, t) # User
           /\ Path(f, t) \in Origins => Path(f, t) = AutoPath(f, t)
           /\ Expected(f, t) \in Nat
           /\ Generated(f, t).origin = AutoPath(f, t)
           /\ Generated(f, t).len = Expected(f, t)
           /\ Generated(f, t) \in [origin : Origins \cup {User, None}, len : Nat]
           /\ Generated(f, t) # NoKeys
<1>1. f.num \in Nat \ {0} /\ f.threads \in Nat \ {0} /\ f.direct \in BOOLEAN
  BY FlagsAssumption
<1>2. AutoPath(f, t) \in Origins
  BY DEF Origins
<1>3. Expected(f, t) \in Nat
  <2>1. f.num \div f.threads \in Nat /\ (f.num % f.threads) \in Nat
    <3>1. (f.num % f.threads) \in 0 .. f.threads - 1
      BY <1>1, Division
    <3> QED  BY <1>1, <3>1, Division
  <2> QED  BY <2>1 DEF Expected
<1>4. AutoPath(f, t) # None /\ AutoPath(f, t) # User
  BY <1>2, NamesAssumption
<1>5. /\ Path(f, t) \in Paths
      /\ Path(f, t) \in Origins => Path(f, t) = AutoPath(f, t)
  BY <1>2, NamesAssumption DEF Path, Paths
<1> QED  BY <1>2, <1>3, <1>4, <1>5 DEF Generated, NoKeys

\* The names of two workers of a run differ, unless --key_file_path is given.
LEMMA NamesDiffer ==
    ASSUME NEW f \in Flags, NEW s \in Tids(f), NEW t \in Tids(f), s # t,
           f.direct => f.threads = 1
    PROVE  Path(f, s) # Path(f, t)
<1>1. ~f.direct
  BY FlagsAssumption DEF Tids
<1> QED  BY <1>1 DEF Path, AutoPath

\* The next worker is a worker of the run.
LEMMA NextTidType ==
    ASSUME NEW f \in Flags, flags = f, tid \in Tids(f),
           NEW phase, NEW after, NextTid(phase, after)
    PROVE  /\ tid' \in Tids(f)
           /\ \/ pc' = phase /\ tid' = tid + 1
              \/ pc' = after /\ tid' = 0 /\ tid = f.threads - 1
<1>1. f.threads \in Nat \ {0}
  BY FlagsAssumption
<1>2. CASE tid + 1 < flags.threads
  BY <1>1, <1>2 DEF NextTid, Tids
<1>3. CASE ~(tid + 1 < flags.threads)
  BY <1>1, <1>3 DEF NextTid, Tids
<1> QED  BY <1>2, <1>3

\* The files and flags the initial states start from satisfy the invariant.
LEMMA StoreInit == Init => IInv
<1> SUFFICES ASSUME Init PROVE IInv
  OBVIOUS
<1>1. files \in [Paths -> {None} \cup File]
  BY BoundsAssumption DEF Init, File
<1>2. NamesAreTrue
  <2> SUFFICES ASSUME NEW p \in Origins PROVE files[p] = None
    BY DEF NamesAreTrue
  <2>1. p \in Paths /\ p # DirectPath
    BY NamesAssumption DEF Paths
  <2> QED  BY <2>1 DEF Init
<1>3. TypeOK
  <2>1. flags \in Flags /\ pc = "idle" /\ allLoaded = TRUE /\ saved = TRUE
    BY DEF Init
  <2>2. runs = 0 /\ runs \in 0 .. MaxRuns
    BY BoundsAssumption DEF Init
  <2> QED  BY <1>1, <2>1, <2>2 DEF TypeOK
<1> QED  BY <1>2, <1>3 DEF Init, IInv


\* What IInv says while a run is under way.
LEMMA Running ==
    ASSUME IInv, pc # "idle"
    PROVE  /\ flags \in Flags /\ tid \in Tids(flags)
           /\ keys \in [Tids(flags) -> [origin : Origins \cup {User, None},
                                        len : Nat]]
           /\ files \in [Paths -> {None} \cup File] /\ runs > 0
           /\ NamesAreTrue /\ LoopsInv /\ OwnInv /\ SaveInv /\ FilesInv
BY DEF IInv, TypeOK

\* Starting a run: no worker has an order yet.
LEMMA StartRunStep ==
    ASSUME IInv, NEW f \in Flags, StartRun(f) PROVE IInv'
<1>1. f.threads \in Nat \ {0}
  BY FlagsAssumption
<1>2. runs' \in 0 .. MaxRuns /\ runs' > 0
  BY BoundsAssumption DEF IInv, TypeOK, StartRun
<1>3. TypeOK'
  <2>1. tid' \in Tids(flags')
    BY <1>1 DEF StartRun, Tids
  <2>2. keys' \in [Tids(flags') -> [origin : Origins \cup {User, None},
                                    len : Nat]]
    BY DEF StartRun, NoKeys
  <2> QED  BY <1>2, <2>1, <2>2 DEF IInv, TypeOK, StartRun
<1>4. NamesAreTrue'
  BY DEF IInv, NamesAreTrue, StartRun
<1>5. \A t \in Tids(flags') : keys'[t] = NoKeys /\ ~(t < tid')
  BY <1>1 DEF StartRun, Tids
<1>6. pc' = "load"
  BY DEF StartRun
<1>7. LoopsInv' /\ OwnInv' /\ SaveInv' /\ FilesInv'
  BY <1>5, <1>6 DEF LoopsInv, OwnInv, SaveInv, FilesInv, NoKeys
<1> QED  BY <1>2, <1>3, <1>4, <1>7 DEF IInv

\* Loading: an order is kept only if it is whole.
LEMMA LoadStep ==
    ASSUME IInv, NEW readable \in BOOLEAN, Load(readable) PROVE IInv'
<1> DEFINE file == files[Path(flags, tid)]
           k == FileKeys(file, readable)
           good == k.origin # None /\ k.len = Expected(flags, tid)
<1>1. pc = "load" /\ UNCHANGED <<files, flags, saved, runs>>
  BY DEF Load
<1>2. /\ flags \in Flags /\ tid \in Tids(flags)
      /\ keys \in [Tids(flags) -> [origin : Origins \cup {User, None},
                                   len : Nat]]
      /\ files \in [Paths -> {None} \cup File] /\ runs > 0
      /\ NamesAreTrue /\ LoopsInv /\ OwnInv /\ SaveInv /\ FilesInv
  BY <1>1, Running
<1>3. Path(flags, tid) \in Paths
  BY <1>2, NamesType
<1>4. k \in [origin : Origins \cup {User, None}, len : Nat]
  BY <1>2, <1>3 DEF FileKeys, NoKeys, File
<1>5. good => /\ file = [origin |-> k.origin, len |-> k.len, ragged |-> FALSE]
              /\ k # NoKeys
  BY <1>2, <1>3 DEF FileKeys, NoKeys, File
<1>6. ~flags.direct /\ good => k = Generated(flags, tid)
  <2> SUFFICES ASSUME ~flags.direct, good PROVE k = Generated(flags, tid)
    OBVIOUS
  <2>1. Path(flags, tid) = AutoPath(flags, tid) /\ AutoPath(flags, tid) \in Origins
    BY <1>2, NamesType DEF Path
  <2>2. file.origin = AutoPath(flags, tid)
    <3>1. file # None
      BY DEF FileKeys, NoKeys
    <3> QED  BY <1>2, <2>1, <3>1 DEF NamesAreTrue
  <2>3. k.origin = AutoPath(flags, tid)
    BY <1>5, <2>2
  <2> QED  BY <1>4, <2>3 DEF Generated
<1>7. /\ keys' = [keys EXCEPT ![tid] = IF good THEN k ELSE NoKeys]
      /\ allLoaded' = (allLoaded /\ good)
      /\ NextTid("load", IF allLoaded' THEN "use" ELSE "generate")
  BY DEF Load
<1> HIDE DEF k, good, file
<1>8. /\ tid' \in Tids(flags)
      /\ \/ pc' = "load" /\ tid' = tid + 1
         \/ /\ pc' = (IF allLoaded' THEN "use" ELSE "generate")
            /\ tid' = 0 /\ tid = flags.threads - 1
  BY <1>2, <1>7, NextTidType
<1>9. /\ keys'[tid] = IF good THEN k ELSE NoKeys
      /\ \A t \in Tids(flags) : t # tid => keys'[t] = keys[t]
      /\ keys' \in [Tids(flags) -> [origin : Origins \cup {User, None},
                                    len : Nat]]
  BY <1>2, <1>4, <1>7 DEF NoKeys
<1>10. pc' \in {"load", "use", "generate"}
  BY <1>8
<1>11. TypeOK'
  BY <1>1, <1>2, <1>7, <1>8, <1>9, <1>10 DEF IInv, TypeOK
<1>12. NamesAreTrue'
  BY <1>1, <1>2 DEF NamesAreTrue
<1>13. LoopsInv'
  <2> SUFFICES ASSUME NEW t \in Tids(flags)
               PROVE  /\ keys'[t] # NoKeys =>
                             /\ keys'[t].origin # None
                             /\ keys'[t].len = Expected(flags, t)
                      /\ \/ pc' = "use"
                         \/ t < tid' /\ (pc' = "load" => allLoaded')
                         => keys'[t] # NoKeys
    BY <1>1 DEF LoopsInv
  <2>1. keys'[t] # NoKeys => /\ keys'[t].origin # None
                             /\ keys'[t].len = Expected(flags, t)
    BY <1>2, <1>9 DEF LoopsInv, good
  <2>2. ASSUME pc' = "use" \/ (t < tid' /\ (pc' = "load" => allLoaded'))
        PROVE  allLoaded' /\ t <= tid
    <3>1. tid \in 0 .. flags.threads - 1 /\ t \in 0 .. flags.threads - 1
          /\ flags.threads \in Nat
      BY <1>2, FlagsAssumption DEF Tids
    <3>2. CASE pc' = "load" /\ tid' = tid + 1
      BY <2>2, <3>1, <3>2
    <3>3. CASE pc' = (IF allLoaded' THEN "use" ELSE "generate") /\ tid' = 0
               /\ tid = flags.threads - 1
      <4>1. pc' = "use"
        BY <2>2, <3>1, <3>3
      <4>2. allLoaded'
        BY <3>3, <4>1, Zenon
      <4> QED  BY <3>1, <3>3, <4>2
    <3> QED  BY <1>8, <3>2, <3>3
  <2>3. ASSUME allLoaded', t <= tid PROVE keys'[t] # NoKeys
    <3>1. allLoaded /\ good
      BY <1>7, <2>3, Zenon
    <3>2. CASE t = tid
      BY <1>5, <1>9, <3>1, <3>2
    <3>3. CASE t # tid
      <4>1. t < tid
        BY <1>2, <2>3, <3>3, FlagsAssumption DEF Tids
      <4>2. keys[t] # NoKeys
        BY <1>1, <1>2, <3>1, <4>1, Zenon DEF LoopsInv
      <4> QED  BY <1>9, <3>3, <4>2
    <3> QED  BY <3>2, <3>3
  <2> QED  BY <2>1, <2>2, <2>3
<1>14. OwnInv'
  BY <1>1, <1>2, <1>6, <1>9 DEF OwnInv
<1>15. SaveInv'
  BY <1>10 DEF SaveInv
<1>16. FilesInv'
  <2> SUFFICES ASSUME saved, flags.direct => flags.threads = 1,
                      NEW t \in Tids(flags), keys'[t] # NoKeys
               PROVE  files[Path(flags, t)] =
                          [origin |-> keys'[t].origin, len |-> keys'[t].len,
                           ragged |-> FALSE]
    BY <1>1 DEF FilesInv
  <2>1. CASE t = tid
    BY <1>5, <1>9, <2>1 DEF file
  <2>2. CASE t # tid
    BY <1>1, <1>2, <1>9, <2>2 DEF FilesInv
  <2> QED  BY <2>1, <2>2
<1> QED  BY <1>1, <1>2, <1>11, <1>12, <1>13, <1>14, <1>15, <1>16 DEF IInv


\* A turn of the second loop ends with an order for its worker.
LEMMA TurnEnds ==
    ASSUME flags \in Flags, tid \in Tids(flags), LoopsInv,
           pc \in {"generate", "open", "save"}, keys[tid] # NoKeys,
           UNCHANGED <<keys, flags>>, NextTid("generate", "use")
    PROVE  LoopsInv' /\ tid' \in Tids(flags) /\ pc' \in {"generate", "use"}
<1>1. /\ tid' \in Tids(flags)
      /\ \/ pc' = "generate" /\ tid' = tid + 1
         \/ pc' = "use" /\ tid' = 0 /\ tid = flags.threads - 1
  BY NextTidType
<1>2. ASSUME NEW t \in Tids(flags), t <= tid PROVE keys[t] # NoKeys
  <2>1. CASE t = tid
    BY <2>1
  <2>2. CASE t # tid
    <3>1. t < tid
      BY <1>2, <2>2, FlagsAssumption DEF Tids
    <3> QED  BY <3>1 DEF LoopsInv
  <2> QED  BY <2>1, <2>2
<1>3. ASSUME NEW t \in Tids(flags), pc' = "use" \/ t < tid'
      PROVE  t <= tid
  <2>1. tid \in 0 .. flags.threads - 1 /\ t \in 0 .. flags.threads - 1
        /\ flags.threads \in Nat
    BY FlagsAssumption DEF Tids
  <2> QED  BY <1>1, <1>3, <2>1
<1>4. LoopsInv'
  BY <1>2, <1>3 DEF LoopsInv
<1> QED  BY <1>1, <1>4

\* A worker whose order was loaded keeps it.
LEMMA KeepLoadedStep == ASSUME IInv, KeepLoaded PROVE IInv'
<1>1. pc = "generate" /\ UNCHANGED <<files, flags, keys, allLoaded, saved, runs>>
      /\ NextTid("generate", "use")
  BY DEF KeepLoaded
<1>2. /\ flags \in Flags /\ tid \in Tids(flags) /\ runs > 0
      /\ NamesAreTrue /\ LoopsInv /\ OwnInv /\ FilesInv
  BY <1>1, Running
<1>3. keys[tid] # NoKeys
  BY DEF KeepLoaded, NoKeys
<1>4. LoopsInv' /\ tid' \in Tids(flags) /\ pc' \in {"generate", "use"}
  BY <1>1, <1>2, <1>3, TurnEnds
<1>5. TypeOK'
  BY <1>1, <1>4 DEF IInv, TypeOK
<1>6. NamesAreTrue' /\ OwnInv' /\ SaveInv'
  BY <1>1, <1>2, <1>4 DEF NamesAreTrue, OwnInv, SaveInv
<1>7. FilesInv'
  BY <1>1, <1>2 DEF FilesInv
<1> QED  BY <1>1, <1>2, <1>4, <1>5, <1>6, <1>7 DEF IInv

\* Generating gives the worker its own order.
LEMMA GenerateStep == ASSUME IInv, Generate PROVE IInv'
<1>1. /\ pc = "generate" /\ pc' = "open"
      /\ keys' = [keys EXCEPT ![tid] = Generated(flags, tid)]
      /\ UNCHANGED <<files, flags, tid, allLoaded, saved, runs>>
  BY DEF Generate
<1>2. /\ flags \in Flags /\ tid \in Tids(flags)
      /\ keys \in [Tids(flags) -> [origin : Origins \cup {User, None},
                                   len : Nat]]
      /\ runs > 0 /\ NamesAreTrue /\ LoopsInv /\ OwnInv /\ FilesInv
  BY <1>1, Running
<1> DEFINE own == Generated(flags, tid)
<1>3. /\ own \in [origin : Origins \cup {User, None}, len : Nat]
      /\ own # NoKeys /\ own.origin # None /\ own.len = Expected(flags, tid)
  BY <1>2, NamesType
<1> HIDE DEF own
<1>4. /\ keys'[tid] = own
      /\ \A t \in Tids(flags) : t # tid => keys'[t] = keys[t]
      /\ keys' \in [Tids(flags) -> [origin : Origins \cup {User, None},
                                    len : Nat]]
  BY <1>1, <1>2, <1>3 DEF own
<1>5. TypeOK'
  BY <1>1, <1>4 DEF IInv, TypeOK
<1>6. NamesAreTrue'
  BY <1>1, <1>2 DEF NamesAreTrue
<1>7. LoopsInv'
  BY <1>1, <1>2, <1>3, <1>4 DEF LoopsInv
<1>8. OwnInv' /\ SaveInv'
  BY <1>1, <1>2, <1>4 DEF OwnInv, SaveInv, own
<1>9. FilesInv'
  BY <1>1, <1>2, <1>4 DEF FilesInv
<1> QED  BY <1>1, <1>2, <1>5, <1>6, <1>7, <1>8, <1>9 DEF IInv

\* A file that cannot be opened: the save has failed.
LEMMA OpenFailsStep == ASSUME IInv, OpenFails PROVE IInv'
<1>1. /\ pc = "open" /\ saved' = FALSE
      /\ UNCHANGED <<files, flags, keys, allLoaded, runs>>
      /\ NextTid("generate", "use")
  BY DEF OpenFails
<1>2. /\ flags \in Flags /\ tid \in Tids(flags) /\ runs > 0
      /\ NamesAreTrue /\ LoopsInv /\ OwnInv /\ SaveInv
  BY <1>1, Running
<1>3. keys[tid] # NoKeys
  <2>1. keys[tid] = Generated(flags, tid)
    BY <1>1, <1>2 DEF SaveInv
  <2> QED  BY <1>2, <2>1, NamesType
<1>4. LoopsInv' /\ tid' \in Tids(flags) /\ pc' \in {"generate", "use"}
  BY <1>1, <1>2, <1>3, TurnEnds
<1>5. TypeOK'
  BY <1>1, <1>4 DEF IInv, TypeOK
<1>6. NamesAreTrue' /\ OwnInv' /\ SaveInv' /\ FilesInv'
  BY <1>1, <1>2, <1>4 DEF NamesAreTrue, OwnInv, SaveInv, FilesInv
<1> QED  BY <1>1, <1>2, <1>4, <1>5, <1>6 DEF IInv

\* Opening empties the worker's own file and no other.
LEMMA OpenFileStep == ASSUME IInv, OpenFile PROVE IInv'
<1> DEFINE path == Path(flags, tid)
           new == [origin |-> keys[tid].origin, len |-> 0, ragged |-> FALSE]
<1>1. /\ pc = "open" /\ pc' = "save"
      /\ files' = [files EXCEPT ![path] = new]
      /\ UNCHANGED <<flags, tid, keys, allLoaded, saved, runs>>
  BY DEF OpenFile, Holding
<1>2. /\ flags \in Flags /\ tid \in Tids(flags)
      /\ files \in [Paths -> {None} \cup File] /\ runs > 0
      /\ NamesAreTrue /\ LoopsInv /\ OwnInv /\ SaveInv /\ FilesInv
  BY <1>1, Running
<1>3. /\ path \in Paths /\ keys[tid] = Generated(flags, tid)
      /\ keys[tid].origin = AutoPath(flags, tid)
      /\ AutoPath(flags, tid) \in Origins
      /\ path \in Origins => path = AutoPath(flags, tid)
  <2>1. keys[tid] = Generated(flags, tid)
    BY <1>1, <1>2 DEF SaveInv
  <2> QED  BY <1>2, <2>1, NamesType
<1>4. new \in File /\ new # None
  <2>1. new \in File
    BY <1>3 DEF File
  <2> HIDE DEF new
  <2> QED  BY <2>1, FileAssumption
<1> HIDE DEF path, new
<1>5. /\ files'[path] = new
      /\ \A p \in Paths : p # path => files'[p] = files[p]
      /\ files' \in [Paths -> {None} \cup File]
  BY <1>1, <1>2, <1>3, <1>4
<1>6. new.origin = keys[tid].origin
  BY DEF new
<1>7. TypeOK'
  BY <1>1, <1>5 DEF IInv, TypeOK
<1>8. NamesAreTrue'
  BY <1>2, <1>3, <1>5, <1>6 DEF NamesAreTrue, Paths
<1>9. LoopsInv' /\ OwnInv'
  BY <1>1, <1>2 DEF LoopsInv, OwnInv
<1>10. SaveInv'
  BY <1>1, <1>3 DEF SaveInv, Generated, Expected, AutoPath
<1>11. FilesInv'
  <2> SUFFICES ASSUME saved, flags.direct => flags.threads = 1,
                      NEW t \in Tids(flags), keys[t] # NoKeys, t # tid
               PROVE  files'[Path(flags, t)] =
                          [origin |-> keys[t].origin, len |-> keys[t].len,
                           ragged |-> FALSE]
    BY <1>1 DEF FilesInv
  <2>1. Path(flags, t) # path /\ Path(flags, t) \in Paths
    BY <1>2, NamesDiffer, NamesType DEF path
  <2>2. files[Path(flags, t)] = [origin |-> keys[t].origin,
                                 len |-> keys[t].len, ragged |-> FALSE]
    BY <1>2 DEF FilesInv
  <2> QED  BY <1>5, <2>1, <2>2
<1> QED  BY <1>1, <1>2, <1>7, <1>8, <1>9, <1>10, <1>11 DEF IInv

\* Writing: the whole order, or a part of it and a failed save.
LEMMA WriteFileStep ==
    ASSUME IInv, NEW n \in Nat, NEW cut \in BOOLEAN, WriteFile(n, cut)
    PROVE  IInv'
<1> DEFINE path == Path(flags, tid)
           new == [origin |-> keys[tid].origin, len |-> n, ragged |-> cut]
<1>1. /\ pc = "save" /\ UNCHANGED <<flags, keys, allLoaded, runs>>
      /\ n <= keys[tid].len /\ (cut => n < keys[tid].len)
      /\ files' = [files EXCEPT ![path] = new]
      /\ saved' = (saved /\ n = keys[tid].len)
      /\ NextTid("generate", "use")
  BY DEF WriteFile, Holding
<1>2. /\ flags \in Flags /\ tid \in Tids(flags)
      /\ files \in [Paths -> {None} \cup File] /\ runs > 0
      /\ keys \in [Tids(flags) -> [origin : Origins \cup {User, None},
                                   len : Nat]]
      /\ NamesAreTrue /\ LoopsInv /\ OwnInv /\ SaveInv /\ FilesInv
  BY <1>1, Running
<1>3. /\ path \in Paths /\ keys[tid] = Generated(flags, tid)
      /\ keys[tid] # NoKeys
      /\ keys[tid].origin = AutoPath(flags, tid)
      /\ AutoPath(flags, tid) \in Origins
      /\ path \in Origins => path = AutoPath(flags, tid)
  <2>1. keys[tid] = Generated(flags, tid)
    BY <1>1, <1>2 DEF SaveInv
  <2> QED  BY <1>2, <2>1, NamesType
<1>4. new \in File
  BY <1>3 DEF File
<1> HIDE DEF path, new
<1>5. /\ files'[path] = new /\ new \in File
      /\ \A p \in Paths : p # path => files'[p] = files[p]
      /\ files' \in [Paths -> {None} \cup File]
  BY <1>1, <1>2, <1>3, <1>4
<1>6. LoopsInv' /\ tid' \in Tids(flags) /\ pc' \in {"generate", "use"}
  BY <1>1, <1>2, <1>3, TurnEnds
<1>7. TypeOK'
  BY <1>1, <1>5, <1>6 DEF IInv, TypeOK
<1>8. NamesAreTrue'
  BY <1>2, <1>3, <1>5 DEF NamesAreTrue, Paths, new
<1>9. OwnInv' /\ SaveInv'
  BY <1>1, <1>2, <1>6 DEF OwnInv, SaveInv
<1>10. FilesInv'
  <2> SUFFICES ASSUME saved', flags.direct => flags.threads = 1,
                      NEW t \in Tids(flags), keys[t] # NoKeys
               PROVE  files'[Path(flags, t)] =
                          [origin |-> keys[t].origin, len |-> keys[t].len,
                           ragged |-> FALSE]
    BY <1>1 DEF FilesInv
  <2>1. saved /\ n = keys[tid].len
    BY <1>1, Zenon
  <2>2. CASE t = tid
    <3>1. cut = FALSE
      BY <1>1, <1>2, <2>1
    <3> QED  BY <1>5, <2>1, <2>2, <3>1 DEF path, new
  <2>3. CASE t # tid
    <3>1. Path(flags, t) # path /\ Path(flags, t) \in Paths
      BY <1>2, <2>3, NamesDiffer, NamesType DEF path
    <3>2. files[Path(flags, t)] = [origin |-> keys[t].origin,
                                   len |-> keys[t].len, ragged |-> FALSE]
      BY <1>2, <2>1, <2>3 DEF FilesInv
    <3> QED  BY <1>5, <3>1, <3>2
  <2> QED  BY <2>2, <2>3
<1> QED  BY <1>1, <1>2, <1>6, <1>7, <1>8, <1>9, <1>10 DEF IInv

\* Every step preserves the invariant.
LEMMA StoreStep == IInv /\ [Next]_vars => IInv'
<1> SUFFICES ASSUME IInv, [Next]_vars PROVE IInv'
  OBVIOUS
<1>1. CASE \E f \in Flags : StartRun(f)
  BY <1>1, StartRunStep
<1>2. CASE \E b \in BOOLEAN : Load(b)
  BY <1>2, LoadStep
<1>3. CASE KeepLoaded
  BY <1>3, KeepLoadedStep
<1>4. CASE Generate
  BY <1>4, GenerateStep
<1>5. CASE OpenFails
  BY <1>5, OpenFailsStep
<1>6. CASE OpenFile
  BY <1>6, OpenFileStep
<1>7. CASE pc = "save" /\ \E n \in 0 .. keys[tid].len, b \in BOOLEAN :
                              WriteFile(n, b)
  <2>1. PICK n \in 0 .. keys[tid].len, b \in BOOLEAN : WriteFile(n, b)
    BY <1>7
  <2>2. n \in Nat
    BY <1>7, Running
  <2> QED  BY <2>1, <2>2, WriteFileStep
<1>8. CASE EndRun
  <2>1. pc = "use" /\ pc' = "idle"
        /\ UNCHANGED <<files, flags, tid, keys, allLoaded, saved, runs>>
    BY <1>8 DEF EndRun
  <2> QED  BY <2>1 DEF IInv, TypeOK, NamesAreTrue
<1>9. CASE Crash
  <2>1. pc # "idle" /\ pc' = "idle"
        /\ UNCHANGED <<files, flags, tid, keys, allLoaded, saved, runs>>
    BY <1>9 DEF Crash
  <2> QED  BY <2>1 DEF IInv, TypeOK, NamesAreTrue
<1>10. CASE UNCHANGED vars
  BY <1>10 DEF vars, IInv, TypeOK, NamesAreTrue, LoopsInv, OwnInv, SaveInv,
               FilesInv
<1>11. CASE Finished
  BY <1>10, <1>11 DEF Finished
<1> QED  BY <1>1, <1>2, <1>3, <1>4, <1>5, <1>6, <1>7, <1>8, <1>9, <1>10, <1>11
         DEF Next

------------------------------------------------------------------------------
\* The results.

\* The invariant holds in every reachable state, for any flags, any user's
\* file and any number of runs.
THEOREM StoreInvariance == Spec => []IInv
BY StoreInit, StoreStep, PTL DEF Spec

\* PrepareShuffledKeys keeps its state within its types.
THEOREM StoreTypeCorrect == Spec => []TypeOK
<1>1. IInv => TypeOK
  BY DEF IInv
<1> QED  BY <1>1, StoreInvariance, PTL

\* With generated names a run uses exactly the orders its flags describe.
THEOREM OrdersAreRight == Spec => []RightOrders
<1>1. IInv => RightOrders
  BY DEF IInv, RightOrders, LoopsInv, OwnInv
<1> QED  BY <1>1, StoreInvariance, PTL

\* When --key_file_path is only given to single-worker runs, a run whose saves
\* all succeeded leaves every order it used where the next run looks for it.
THEOREM OrdersAreSaved ==
    ASSUME \A f \in Flags : f.direct => f.threads = 1
    PROVE  Spec => []SavedForNextRun
<1>1. IInv => SavedForNextRun
  <2> SUFFICES ASSUME IInv, pc = "use", saved, NEW t \in Tids(flags)
               PROVE  files[Path(flags, t)] =
                          [origin |-> keys[t].origin, len |-> keys[t].len,
                           ragged |-> FALSE]
    BY DEF SavedForNextRun
  <2>1. flags \in Flags /\ LoopsInv /\ FilesInv
    BY Running
  <2>2. keys[t] # NoKeys
    BY <2>1 DEF LoopsInv
  <2> QED  BY <2>1, <2>2 DEF FilesInv
<1> QED  BY <1>1, StoreInvariance, PTL


\* The keys of an order that a worker generated are those of its own range.
LEMMA KeysOfGenerated ==
    ASSUME NEW t \in Tids(flags), flags \in Flags
    PROVE  KeysOf(Generated(flags, t), t) = UniformRange(flags, t)
<1> DEFINE k == Generated(flags, t)
           g == [num |-> k.origin[1], threads |-> k.origin[2]]
           whole == UniformRange(g, k.origin[4])
<1>1. k.origin # User /\ k.len = Expected(flags, t) /\ Expected(flags, t) \in Nat
  BY NamesType
<1>2. g.num = flags.num /\ g.threads = flags.threads /\ k.origin[4] = t
  BY DEF Generated, AutoPath
<1> HIDE DEF k, g
<1>3. Expected(g, t) = Expected(flags, t)
  BY <1>2 DEF Expected
<1>4. whole = UniformRange(flags, t)
  BY <1>2, <1>3 DEF UniformRange
<1>5. Cardinality(whole) = k.len
  <2>1. flags.num \div flags.threads \in Nat /\ t \in Nat
    BY FlagsAssumption, Division DEF Tids
  <2> DEFINE first == t * (flags.num \div flags.threads) + 1
  <2>2. first \in Nat
    BY <2>1
  <2>3. whole = first .. first + Expected(flags, t) - 1
    BY <1>4 DEF UniformRange
  <2> HIDE DEF first, whole
  <2>4. first + Expected(flags, t) - 1 \in Int
    BY <1>1, <2>2
  <2>5. Cardinality(whole) = IF first > first + Expected(flags, t) - 1 THEN 0
                             ELSE (first + Expected(flags, t) - 1) - first + 1
    BY <2>2, <2>3, <2>4, FS_Interval
  <2> QED  BY <1>1, <2>2, <2>5
<1>6. KeysOf(k, t) = IF k.origin = User THEN UniformRange(flags, t)
                     ELSE IF k.len = Cardinality(whole) THEN whole ELSE {}
  BY DEF KeysOf, g
<1> HIDE DEF whole
<1> QED  BY <1>1, <1>4, <1>5, <1>6 DEF k

\* When the keys of each worker's order are those of its own range, nothing is
\* left out and nothing is written twice.
LEMMA RangesCover ==
    ASSUME flags \in Flags,
           \A t \in Tids(flags) : KeysOf(keys[t], t) = UniformRange(flags, t)
    PROVE  CoversKeySpace
<1> DEFINE n == flags.num
           k == flags.threads
<1>1. n \in Nat \ {0} /\ k \in Nat \ {0}
  BY FlagsAssumption
<1>2. flags.num = n /\ flags.threads = k
  OBVIOUS
<1> HIDE DEF n, k
<1>3. /\ UNION {UniformRange(flags, t) : t \in 0 .. k - 1} = 1 .. n
      /\ \A s, t \in 0 .. k - 1 :
             s # t => UniformRange(flags, s) \cap UniformRange(flags, t) = {}
  BY <1>1, <1>2, UniformPartition
<1>4. Tids(flags) = 0 .. k - 1
  BY <1>2 DEF Tids
<1>5. {KeysOf(keys[t], t) : t \in Tids(flags)} =
          {UniformRange(flags, t) : t \in 0 .. k - 1}
  BY <1>4
<1> QED  BY <1>2, <1>3, <1>4, <1>5 DEF CoversKeySpace

------------------------------------------------------------------------------
\* When --key_file_path keeps its word.

\* What a step with readable files keeps of the user's file and orders.
LEMMA UserStep ==
    ASSUME FitsUser, IInv, UserInv, [Next /\ (pc = "load" => Load(TRUE) \/ Crash)]_vars
    PROVE  UserInv'
<1> SUFFICES ASSUME UserLength > 0 PROVE UserInv'
  BY DEF UserInv, UserFileKept
<1> DEFINE mine == [origin |-> User, len |-> UserLength, ragged |-> FALSE]
<1>1. files[DirectPath] = mine /\ DirectPath \in Paths /\ DirectPath \notin Origins
  BY NamesAssumption DEF UserInv, UserFileKept, Paths
<1>2. flags.direct /\ pc # "idle" =>
        /\ pc \in {"load", "use"} /\ allLoaded
        /\ \A t \in Tids(flags) : t < tid \/ pc = "use" => keys[t].origin = User
  BY DEF UserInv
<1>3. ASSUME files' = files, pc' = "idle" \/ ~flags'.direct PROVE UserInv'
  BY <1>1, <1>3 DEF UserInv, UserFileKept
<1>4. CASE \E f \in Flags : StartRun(f)
  <2>1. PICK f \in Flags : StartRun(f)
    BY <1>4
  <2>2. /\ files' = files /\ flags' = f /\ pc' = "load" /\ tid' = 0 /\ allLoaded'
    BY <2>1 DEF StartRun
  <2>3. \A t \in Tids(f) : ~(t < 0)
    BY FlagsAssumption DEF Tids
  <2> QED  BY <1>1, <2>2, <2>3 DEF UserInv, UserFileKept
<1>5. CASE pc = "load" /\ Load(TRUE)
  <2>1. /\ UNCHANGED <<files, flags>> /\ flags \in Flags /\ tid \in Tids(flags)
        /\ keys \in [Tids(flags) -> [origin : Origins \cup {User, None}, len : Nat]]
    BY <1>5, Running DEF Load
  <2>2. CASE ~flags.direct
    BY <1>3, <2>1, <2>2
  <2>3. CASE flags.direct
    <3>1. FileKeys(files[Path(flags, tid)], TRUE) = [origin |-> User, len |-> UserLength]
      <4>1. Path(flags, tid) = DirectPath
        BY <2>3 DEF Path
      <4>2. mine # None
        <5>1. mine \in File
          BY BoundsAssumption DEF File
        <5> QED  BY <5>1, FileAssumption
      <4> QED  BY <1>1, <4>1, <4>2 DEF FileKeys
    <3>2. Expected(flags, tid) = UserLength
      BY <2>1, <2>3 DEF FitsUser
    <3>3. /\ keys' = [keys EXCEPT ![tid] = [origin |-> User, len |-> UserLength]]
          /\ allLoaded' = allLoaded
          /\ NextTid("load", IF allLoaded' THEN "use" ELSE "generate")
      <4>1. User # None
        BY NamesAssumption
      <4>2. allLoaded
        BY <1>2, <1>5, <2>3
      <4> DEFINE k == FileKeys(files[Path(flags, tid)], TRUE)
                 good == k.origin # None /\ k.len = Expected(flags, tid)
      <4>3. good
        <5>1. k = [origin |-> User, len |-> UserLength]
          BY <3>1
        <5> HIDE DEF k
        <5>2. k.origin = User /\ k.len = UserLength
          BY <5>1
        <5> QED  BY <3>2, <4>1, <5>2
      <4>4. /\ keys' = [keys EXCEPT ![tid] = IF good THEN k ELSE NoKeys]
            /\ allLoaded' = (allLoaded /\ good)
            /\ NextTid("load", IF allLoaded' THEN "use" ELSE "generate")
        BY <1>5 DEF Load
      <4>5. allLoaded' = allLoaded
        BY <4>2, <4>3, <4>4, Zenon
      <4>6. keys' = [keys EXCEPT ![tid] = k]
        BY <4>3, <4>4, Zenon
      <4> QED  BY <3>1, <4>4, <4>5, <4>6
    <3>4. NextTid("load", "use") /\ allLoaded'
      BY <1>2, <1>5, <2>3, <3>3, Zenon
    <3>5. /\ \/ pc' = "load" /\ tid' = tid + 1
             \/ pc' = "use" /\ tid' = 0 /\ tid = flags.threads - 1
      BY <2>1, <3>4, NextTidType
    <3>6. \A t \in Tids(flags) : t <= tid => keys'[t].origin = User
      <4>1. \A t \in Tids(flags) : t < tid => keys[t].origin = User
        BY <1>2, <1>5, <2>3
      <4>2. \A t \in Tids(flags) : t <= tid => t < tid \/ t = tid
        BY <2>1, FlagsAssumption DEF Tids
      <4> QED  BY <2>1, <3>3, <4>1, <4>2
    <3>7. \A t \in Tids(flags) : t < tid' \/ pc' = "use" => t <= tid
      BY <2>1, <3>5, FlagsAssumption DEF Tids
    <3> QED  BY <1>1, <2>1, <3>4, <3>5, <3>6, <3>7, Zenon DEF UserInv, UserFileKept
  <2> QED  BY <2>2, <2>3
<1>6. CASE pc \in {"generate", "open", "save"} /\ flags' = flags
  <2>1. ~flags.direct
    BY <1>2, <1>6
  <2>2. files' = files \/ (\E new : files' = [files EXCEPT ![Path(flags, tid)] = new])
    BY <1>6 DEF Next, StartRun, Load, KeepLoaded, Generate, OpenFails, OpenFile, WriteFile, EndRun,
                Crash, Finished, vars
  <2>3. Path(flags, tid) # DirectPath
    BY <1>1, <1>6, <2>1, Running, NamesType DEF Path
  <2>4. files'[DirectPath] = files[DirectPath]
    <3>1. files \in [Paths -> {None} \cup File]
      BY DEF IInv, TypeOK
    <3> QED  BY <1>1, <2>2, <2>3, <3>1
  <2> QED  BY <1>1, <1>6, <2>1, <2>4 DEF UserInv, UserFileKept
<1>7. CASE EndRun \/ Crash
  BY <1>3, <1>7 DEF EndRun, Crash
<1>8. CASE UNCHANGED vars
  BY <1>8 DEF vars, UserInv, UserFileKept
<1> QED
  <2>1. \/ Load(TRUE) /\ pc = "load"
        \/ KeepLoaded \/ Generate \/ OpenFails \/ OpenFile
        \/ pc = "save" /\ \E n \in 0 .. keys[tid].len, b \in BOOLEAN : WriteFile(n, b)
        \/ (\E f \in Flags : StartRun(f)) \/ EndRun \/ Crash \/ UNCHANGED vars
    BY DEF Next, Finished, Load
  <2>2. CASE \/ KeepLoaded \/ Generate \/ OpenFails \/ OpenFile
             \/ pc = "save" /\ \E n \in 0 .. keys[tid].len, b \in BOOLEAN : WriteFile(n, b)
    BY <1>6, <2>2 DEF KeepLoaded, Generate, OpenFails, OpenFile, WriteFile
  <2> QED  BY <1>4, <1>5, <1>7, <1>8, <2>1, <2>2

\* A run with --key_file_path uses the user's order for every worker and leaves
\* the file alone, as long as the file has the keys that the run needs and can
\* be read.
THEOREM UserOrdersAreUsed ==
    ASSUME FitsUser
    PROVE  ReadableSpec => [](UserOrderUsed /\ UserFileKept)
<1>1. Init => UserInv
  BY NamesAssumption DEF Init, UserInv, UserFileKept, Paths
<1>2. [Next /\ (pc = "load" => Load(TRUE) \/ Crash)]_vars => [Next]_vars
  OBVIOUS
<1>3. ReadableSpec => Spec
  BY <1>2, PTL DEF ReadableSpec, Spec
<1>4. UserInv => UserOrderUsed /\ UserFileKept
  BY DEF UserInv, UserOrderUsed
<1>5. IInv /\ UserInv /\ [Next /\ (pc = "load" => Load(TRUE) \/ Crash)]_vars => UserInv'
  BY UserStep
<1> QED  BY <1>1, <1>3, <1>4, <1>5, StoreInvariance, PTL DEF ReadableSpec

------------------------------------------------------------------------------
\* Runs of one worker that share the path of --key_file_path.

LEMMA SharedStep ==
    ASSUME OneDirectSize, IInv, SharedInv, [Next]_vars
    PROVE  SharedInv'
<1>1. /\ files[DirectPath] # None => files[DirectPath].origin \in DirectOrigins
      /\ DirectPath \in Paths /\ DirectPath \notin Origins
      /\ files \in [Paths -> {None} \cup File]
  BY NamesAssumption DEF SharedInv, Paths, IInv, TypeOK
<1>2. pc # "idle" /\ flags.direct =>
        \A t \in Tids(flags) : keys[t] # NoKeys => keys[t].origin \in DirectOrigins
  BY DEF SharedInv
<1>3. ASSUME files' = files, pc' = "idle" PROVE SharedInv'
  BY <1>1, <1>3 DEF SharedInv
<1>4. ASSUME files' = files, keys' = keys, flags' = flags, pc # "idle" PROVE SharedInv'
  BY <1>1, <1>2, <1>4 DEF SharedInv
<1>5. ASSUME NEW f \in Flags, NEW t \in Tids(f), f.direct PROVE AutoPath(f, t) \in DirectOrigins
  <2>1. t = 0
    BY <1>5, FlagsAssumption DEF OneDirectSize, Tids
  <2> QED  BY <1>5, <2>1 DEF DirectOrigins
<1>6. CASE \E f \in Flags : StartRun(f)
  <2>1. PICK f \in Flags : StartRun(f)
    BY <1>6
  <2>2. files' = files /\ flags' = f /\ keys' = [t \in Tids(f) |-> NoKeys]
    BY <2>1 DEF StartRun
  <2> QED  BY <1>1, <2>2 DEF SharedInv
<1>7. ASSUME NEW readable \in BOOLEAN, Load(readable) PROVE SharedInv'
  <2> DEFINE k == FileKeys(files[Path(flags, tid)], readable)
  <2>1. /\ pc = "load" /\ UNCHANGED <<files, flags>>
        /\ keys' = [keys EXCEPT ![tid] = k] \/ keys' = [keys EXCEPT ![tid] = NoKeys]
    BY <1>7 DEF Load
  <2>2. flags.direct /\ k # NoKeys => k.origin \in DirectOrigins
    BY <1>1 DEF FileKeys, Path
  <2>3. /\ flags \in Flags /\ tid \in Tids(flags)
        /\ keys \in [Tids(flags) -> [origin : Origins \cup {User, None}, len : Nat]]
    BY <2>1, Running
  <2> HIDE DEF k
  <2>4. \A t \in Tids(flags) :
            keys'[t] = keys[t] \/ (t = tid /\ (keys'[t] = k \/ keys'[t] = NoKeys))
    BY <2>1, <2>3
  <2> QED  BY <1>1, <1>2, <2>1, <2>2, <2>4 DEF SharedInv
<1>8. CASE Generate
  <2>1. /\ pc = "generate" /\ UNCHANGED <<files, flags>>
        /\ keys' = [keys EXCEPT ![tid] = Generated(flags, tid)]
    BY <1>8 DEF Generate
  <2>2. /\ flags \in Flags /\ tid \in Tids(flags)
        /\ keys \in [Tids(flags) -> [origin : Origins \cup {User, None}, len : Nat]]
    BY <2>1, Running
  <2>3. flags.direct => Generated(flags, tid).origin \in DirectOrigins
    BY <1>5, <2>2, NamesType
  <2>4. \A t \in Tids(flags) : keys'[t] = keys[t] \/ (t = tid /\ keys'[t] = Generated(flags, tid))
    BY <2>1, <2>2
  <2> QED  BY <1>1, <1>2, <2>1, <2>3, <2>4 DEF SharedInv
<1>9. ASSUME NEW new, new.origin = keys[tid].origin, pc \in {"open", "save"},
             files' = [files EXCEPT ![Path(flags, tid)] = new], UNCHANGED <<keys, flags>>
      PROVE  SharedInv'
  <2>1. flags \in Flags /\ tid \in Tids(flags) /\ keys[tid] = Generated(flags, tid)
    BY <1>9, Running DEF SaveInv
  <2>2. new.origin = AutoPath(flags, tid)
    BY <1>9, <2>1, NamesType
  <2>3. CASE flags.direct
    <3>1. files'[DirectPath] = new
      BY <1>1, <1>9, <2>3 DEF Path
    <3> QED  BY <1>2, <1>5, <1>9, <2>1, <2>2, <2>3, <3>1 DEF SharedInv
  <2>4. CASE ~flags.direct
    <3>1. Path(flags, tid) # DirectPath
      BY <1>1, <2>1, <2>4, NamesType DEF Path
    <3>2. files'[DirectPath] = files[DirectPath]
      BY <1>1, <1>9, <3>1
    <3> QED  BY <1>1, <1>9, <2>4, <3>2 DEF SharedInv
  <2> QED  BY <2>3, <2>4
<1>10. CASE OpenFile
  BY <1>9, <1>10 DEF OpenFile, Holding
<1>11. CASE pc = "save" /\ \E n \in 0 .. keys[tid].len, b \in BOOLEAN : WriteFile(n, b)
  BY <1>9, <1>11 DEF WriteFile, Holding
<1>12. CASE KeepLoaded \/ OpenFails
  BY <1>4, <1>12 DEF KeepLoaded, OpenFails
<1>13. CASE EndRun \/ Crash
  BY <1>3, <1>13 DEF EndRun, Crash
<1>14. CASE UNCHANGED vars
  BY <1>14 DEF vars, SharedInv
<1> QED  BY <1>6, <1>7, <1>8, <1>10, <1>11, <1>12, <1>13, <1>14 DEF Next, Finished

\* An order that fits the run is one of all its keys.
LEMMA KeysOfShared ==
    ASSUME OneDirectSize, IInv, SharedInv, pc # "idle", flags.direct,
           NEW t \in Tids(flags), keys[t] # NoKeys
    PROVE  KeysOf(keys[t], t) = UniformRange(flags, t)
<1>1. flags \in Flags /\ LoopsInv
  BY Running
<1>2. keys[t].len = Expected(flags, t) /\ keys[t].origin \in DirectOrigins
  BY <1>1 DEF LoopsInv, SharedInv
<1>3. CASE keys[t].origin = User
  BY <1>3 DEF KeysOf
<1>4. CASE keys[t].origin # User
  <2>1. PICK f \in Flags : f.direct /\ keys[t].origin = AutoPath(f, 0)
    BY <1>2, <1>4 DEF DirectOrigins
  <2>2. f.num = flags.num /\ f.threads = 1 /\ flags.threads = 1
    BY <1>1, <2>1 DEF OneDirectSize
  <2>3. t = 0
    BY <2>2 DEF Tids
  <2>4. KeysOf(Generated(flags, t), t) = UniformRange(flags, t)
    BY <1>1, KeysOfGenerated
  <2>5. /\ Generated(flags, t).len = keys[t].len
        /\ Generated(flags, t).origin # User
        /\ Generated(flags, t).origin = <<flags.num, 1, flags.order, 0>>
        /\ keys[t].origin = <<flags.num, 1, f.order, 0>>
    BY <1>1, <1>2, <2>1, <2>2, <2>3, NamesType DEF AutoPath
  <2> QED  BY <1>4, <2>4, <2>5 DEF KeysOf
<1> QED  BY <1>3, <1>4

\* Also with --key_file_path, and whatever runs that were killed or ran out of
\* space left in that file, each key of [1, num] is written exactly once, as
\* long as the path is only given to runs of one worker and one --num.
THEOREM SharedKeySpaceIsCovered ==
    ASSUME OneDirectSize
    PROVE  Spec => []CoversKeySpace
<1>1. ASSUME IInv, SharedInv PROVE CoversKeySpace
  <2> SUFFICES ASSUME pc = "use" PROVE CoversKeySpace
    BY DEF CoversKeySpace
  <2>1. flags \in Flags /\ LoopsInv /\ OwnInv
    BY <1>1, Running
  <2>2. \A t \in Tids(flags) : KeysOf(keys[t], t) = UniformRange(flags, t)
    <3> SUFFICES ASSUME NEW t \in Tids(flags)
                 PROVE  KeysOf(keys[t], t) = UniformRange(flags, t)
      OBVIOUS
    <3>1. keys[t] # NoKeys
      BY <2>1 DEF LoopsInv
    <3>2. CASE flags.direct
      BY <1>1, <3>1, <3>2, KeysOfShared
    <3>3. CASE ~flags.direct
      BY <2>1, <3>1, <3>3, KeysOfGenerated DEF OwnInv
    <3> QED  BY <3>2, <3>3
  <2> QED  BY <2>1, <2>2, RangesCover
<1>2. Init => SharedInv
  BY NamesAssumption DEF Init, SharedInv, Paths, DirectOrigins
<1>3. IInv /\ SharedInv /\ [Next]_vars => SharedInv'
  BY SharedStep
<1>4. IInv /\ SharedInv => CoversKeySpace
  BY <1>1
<1> QED  BY <1>2, <1>3, <1>4, StoreInvariance, PTL DEF Spec

\* With generated names, for any --num and --worker_threads and after any
\* history, the workers write each key of [1, num] exactly once.
THEOREM KeySpaceIsCovered ==
    ASSUME \A f \in Flags : ~f.direct
    PROVE  Spec => []CoversKeySpace
BY SharedKeySpaceIsCovered DEF OneDirectSize
==============================================================================
