---------------------------- MODULE PrefillProofs ----------------------------
(***************************************************************************)
(* Proofs about Prefill, for any number of processes and runs, any sizes   *)
(* and whatever fails: a file of a run that ended well is whole, it has    *)
(* the bytes that were checked, the reserve is kept where no size wraps,   *)
(* and the file behaves as PrefillFile says.                               *)
(***************************************************************************)
EXTENDS Prefill, TLAPS

------------------------------------------------------------------------------
\* Sizes.

\* The factors of fill and of numfmt are numbers, and numfmt's is no smaller.
LEMMA Factors ==
    ASSUME NEW u \in Units
    PROVE  /\ Multiplier(u) \in Nat /\ IecUnit(u) \in Nat
           /\ IecUnit(u) # 0 => Multiplier(u) <= IecUnit(u)
           /\ u \in {"none", "K", "M", "G", "T"} =>
               IecUnit(u) = Multiplier(u) /\ Multiplier(u) > 0
<1> DEFINE k2 == Kilo * Kilo
           k3 == k2 * Kilo
           k4 == k2 * k2
           k5 == k4 * Kilo
<1>1. ASSUME NEW a \in Nat \ {0}, NEW b \in Nat \ {0} PROVE a * b \in Nat \ {0}
  BY <1>1
<1>2. Kilo \in Nat \ {0} /\ k2 \in Nat \ {0}
  BY <1>1, KiloAssumption
<1>3. k3 \in Nat \ {0} /\ k4 \in Nat \ {0}
  BY <1>1, <1>2
<1>4. k5 \in Nat \ {0}
  BY <1>1, <1>2, <1>3
<1>5. Kilo2 = k2 /\ Kilo2 * Kilo = k3 /\ Kilo4 = k4 /\ Kilo4 * Kilo = k5
  BY DEF Kilo2, Kilo4
<1> HIDE DEF k2, k3, k4, k5
<1>6. CASE u = "none"
  <2>1. Multiplier(u) = 1
    BY <1>6 DEF Multiplier
  <2>2. IecUnit(u) = Multiplier(u)
    BY <1>6 DEF IecUnit
  <2> QED  BY <1>6, <2>1, <2>2
<1>7. CASE u = "K"
  <2>1. Multiplier(u) = Kilo
    BY <1>7 DEF Multiplier
  <2>2. IecUnit(u) = Multiplier(u)
    BY <1>7 DEF IecUnit
  <2> QED  BY <1>7, <2>1, <2>2, KiloAssumption
<1>8. CASE u = "M"
  <2>1. Multiplier(u) = Kilo2
    BY <1>8 DEF Multiplier
  <2>2. IecUnit(u) = Multiplier(u)
    BY <1>8 DEF IecUnit
  <2> QED  BY <1>8, <2>1, <2>2, <1>2, <1>5
<1>9. CASE u = "G"
  <2>1. Multiplier(u) = Kilo2 * Kilo
    BY <1>9 DEF Multiplier
  <2>2. IecUnit(u) = Multiplier(u)
    BY <1>9 DEF IecUnit
  <2> QED  BY <1>9, <2>1, <2>2, <1>3, <1>5
<1>10. CASE u = "T"
  <2>1. Multiplier(u) = Kilo4
    BY <1>10 DEF Multiplier
  <2>2. IecUnit(u) = Multiplier(u)
    BY <1>10 DEF IecUnit
  <2> QED  BY <1>10, <2>1, <2>2, <1>3, <1>5
<1>11. CASE u \in {"k", "m", "g", "t", "other"}
  <2>1. Multiplier(u) \in {Kilo, Kilo2, Kilo2 * Kilo, Kilo4, 0}
    BY <1>11 DEF Multiplier
  <2>2. IecUnit(u) = 0
    BY <1>11 DEF IecUnit
  <2>3. Multiplier(u) \in Nat
    BY <1>2, <1>3, <1>5, <2>1, KiloAssumption
  <2> QED  BY <1>11, <2>2, <2>3
<1>12. CASE u = "P"
  <2>1. Multiplier(u) = 0
    BY <1>12 DEF Multiplier
  <2>2. IecUnit(u) = Kilo4 * Kilo
    BY <1>12 DEF IecUnit
  <2> QED  BY <1>12, <2>1, <2>2, <1>4, <1>5
<1> QED  BY <1>6, <1>7, <1>8, <1>9, <1>10, <1>11, <1>12 DEF Units

\* What fill makes of a text is a number of 64 bits.
LEMMA ParsedRange ==
    ASSUME NEW s \in Sizes
    PROVE  ParseSize(s) \in 0 .. ULL - 1
<1>1. ULL \in Nat \ {0} /\ Multiplier(s.unit) \in Nat
  BY Factors, ULLAssumption DEF Sizes
<1>2. CASE Throws(s)
  BY <1>1, <1>2 DEF ParseSize
<1>3. CASE ~Throws(s)
  <2>1. s.whole \in Nat
    BY <1>3 DEF Throws, Sizes
  <2>2. Stoull(s) \in Nat
    BY <1>1, <2>1 DEF Stoull
  <2>3. Stoull(s) * Multiplier(s.unit) \in Nat
    BY <1>1, <2>2
  <2> QED  BY <1>1, <1>3, <2>3 DEF ParseSize
<1> QED  BY <1>2, <1>3

\* What numfmt makes of it, by the whole part and the tenths.
LEMMA IecParts ==
    ASSUME NEW s \in Sizes, Numfmt(s), s.whole # NoDigits
    PROVE  /\ s.whole \in Nat /\ s.whole * IecUnit(s.unit) \in Nat
           /\ s.whole * IecUnit(s.unit) <= IecBytes(s)
           /\ ~s.point => IecBytes(s) = s.whole * IecUnit(s.unit)
<1>1. s.whole \in Nat /\ s.tenths \in 0 .. 9 /\ IecUnit(s.unit) \in Nat
  BY Factors DEF Sizes
<1> DEFINE u == IecUnit(s.unit)
           t == IF s.point THEN s.tenths ELSE 0
           a == s.whole * u
           b == t * u
<1>2. t \in 0 .. 9 /\ u \in Nat
  BY <1>1
<1>3. a \in Nat /\ b \in Nat
  BY <1>1, <1>2
<1>4. Tenths(s) * u = 10 * a + b
  <2>1. Tenths(s) = 10 * s.whole + t
    BY <1>1 DEF Tenths
  <2>2. ASSUME NEW w \in Nat, NEW x \in Nat, NEW y \in Nat
        PROVE  (10 * w + x) * y = 10 * (w * y) + x * y
    BY <2>2
  <2> QED  BY <1>1, <1>2, <2>1, <2>2
<1>5. IecBytes(s) = (10 * a + b + 9) \div 10
  BY <1>4 DEF IecBytes
<1>6. ~s.point => b = 0
  BY <1>2
<1> HIDE DEF a, b
<1>7. a <= IecBytes(s) /\ (~s.point => IecBytes(s) = a)
  BY <1>3, <1>5, <1>6
<1> QED  BY <1>1, <1>3, <1>7 DEF a

\* The bytes of numfmt are a number.
LEMMA IecRange ==
    ASSUME NEW s \in Sizes
    PROVE  IecBytes(s) \in Nat
<1> DEFINE u == IecUnit(s.unit)
<1>1. u \in Nat
  BY Factors DEF Sizes
<1>2. Tenths(s) \in Nat
  BY DEF Sizes, Tenths, NoDigits
<1>3. Tenths(s) * u \in Nat
  BY <1>1, <1>2
<1> HIDE DEF u
<1>4. (Tenths(s) * u + 9) \div 10 \in Nat
  BY <1>3
<1> QED  BY <1>4 DEF IecBytes, u

\* fill never makes more of a text than numfmt did.
LEMMA ParsedIsChecked ==
    ASSUME NEW s \in Sizes, Numfmt(s)
    PROVE  ParseSize(s) <= IecBytes(s)
<1>1. ULL \in Nat \ {0} /\ Multiplier(s.unit) \in Nat /\ IecBytes(s) \in Nat
  BY Factors, IecRange, ULLAssumption DEF Sizes
<1>2. CASE Throws(s)
  BY <1>1, <1>2 DEF ParseSize
<1>3. CASE ~Throws(s)
  <2>1. s.whole \in Nat /\ s.whole # NoDigits
    BY <1>3 DEF Throws, Sizes
  <2>2. Stoull(s) = s.whole
    BY DEF Stoull, Numfmt
  <2>3. IecUnit(s.unit) \in Nat /\ Multiplier(s.unit) <= IecUnit(s.unit)
    BY Factors DEF Numfmt, Sizes
  <2>4. /\ s.whole * Multiplier(s.unit) \in Nat
        /\ s.whole * Multiplier(s.unit) <= s.whole * IecUnit(s.unit)
    <3>1. ASSUME NEW w \in Nat, NEW x \in Nat, NEW y \in Nat, x <= y
          PROVE  w * x \in Nat /\ w * x <= w * y
      BY <3>1
    <3> QED  BY <1>1, <2>1, <2>3, <3>1
  <2> DEFINE m == s.whole * Multiplier(s.unit)
  <2>5. m \in Nat /\ m <= IecBytes(s)
    BY <1>1, <2>1, <2>4, IecParts
  <2>6. ParseSize(s) = m % ULL
    BY <1>3, <2>2 DEF ParseSize
  <2> HIDE DEF m
  <2>7. m % ULL <= m
    BY <1>1, <2>5
  <2> QED  BY <1>1, <2>5, <2>6, <2>7
<1> QED  BY <1>2, <1>3

\* Of a size as the documentation writes it, fill makes what numfmt made.
LEMMA PlainAgrees ==
    ASSUME NEW s \in Sizes, Numfmt(s), Plain(s)
    PROVE  ParseSize(s) = IecBytes(s)
<1> DEFINE u == IecUnit(s.unit)
           m == s.whole * u
<1>1. Multiplier(s.unit) = u /\ u \in Nat /\ u > 0
  BY Factors DEF Sizes, Plain
<1>2. s.whole \in Nat /\ m \in Nat /\ IecBytes(s) = m
  BY IecParts DEF Plain
<1>3. s.whole <= m
  <2>1. ASSUME NEW w \in Nat, NEW y \in Nat, y > 0 PROVE w <= w * y
    BY <2>1
  <2> QED  BY <1>1, <1>2, <2>1
<1> HIDE DEF m
<1>4. m < ULL
  BY <1>2, ULLAssumption, MaxDecimalAssumption DEF Numfmt
<1>5. ~Throws(s)
  BY <1>2, <1>3, <1>4, ULLAssumption DEF Throws, Plain
<1>6. Stoull(s) = s.whole
  BY DEF Stoull, Plain
<1>7. ParseSize(s) = m % ULL
  BY <1>1, <1>5, <1>6 DEF ParseSize, m
<1>8. m % ULL = m
  BY <1>2, <1>4, ULLAssumption
<1> QED  BY <1>2, <1>7, <1>8

\* A sum that does not wrap is what the shell compares.
LEMMA SignedSmall ==
    ASSUME NEW n \in Nat, n < ULL \div 2
    PROVE  Signed(n) = n
<1> DEFINE h == ULL \div 2
<1>1. h \in Nat /\ ULL = 2 * h /\ ULL > 0
  BY ULLAssumption
<1> HIDE DEF h
<1>2. (n + h) % ULL = n + h
  BY <1>1 DEF h
<1> QED  BY <1>1, <1>2 DEF Signed, h

------------------------------------------------------------------------------
\* The invariant.

\* The records that jobs and files are.
Jobs == [pc : Positions, run : 0 .. MaxRuns, asked : Asked, bytes : Nat,
         free : 0 .. Capacity, target : 0 .. ULL - 1, written : Nat, verdict : Verdicts]
Files == [run : 0 .. MaxRuns, size : 0 .. Capacity, synced : Nat, target : 0 .. ULL - 1]

LEMMA NoJobType == NoJob \in Jobs /\ NoJob.pc = "idle" /\ NoFile \in Files
<1>1. NoJob.asked \in Asked
  BY AskedAssumption DEF NoJob
<1> QED  BY <1>1, BytesAssumption, MaxRunsAssumption, ULLAssumption
         DEF NoJob, NoFile, Jobs, Files, Positions, Verdicts

\* Whoever leaves, whatever the verdict, leaves a job of no run behind.
LEMMA Leaving ==
    ASSUME TypeOK, NEW p \in Procs, NEW how \in Verdicts, Leave(p, how)
    PROVE  /\ job' \in [Procs -> Jobs] /\ job'[p].pc = "idle"
           /\ job'[p].written = 0 /\ job'[p].target = 0
           /\ \A q \in Procs \ {p} : job'[q] = job[q]
<1>1. [NoJob EXCEPT !.verdict = how] \in Jobs
  BY NoJobType DEF Jobs
<1>2. /\ [NoJob EXCEPT !.verdict = how].pc = "idle"
      /\ [NoJob EXCEPT !.verdict = how].written = 0
      /\ [NoJob EXCEPT !.verdict = how].target = 0
  BY DEF NoJob
<1>3. job \in [Procs -> Jobs]
  BY DEF TypeOK, Jobs
<1> QED  BY <1>1, <1>2, <1>3 DEF Leave

\* A process that goes on is left as it is but for its position.
LEMMA Going ==
    ASSUME TypeOK, NEW p \in Procs, NEW pc \in Positions, Goto(p, pc)
    PROVE  /\ job' \in [Procs -> Jobs] /\ job'[p].pc = pc
           /\ \A q \in Procs :
               /\ job'[q].run = job[q].run /\ job'[q].asked = job[q].asked
               /\ job'[q].bytes = job[q].bytes /\ job'[q].free = job[q].free
               /\ job'[q].target = job[q].target /\ job'[q].written = job[q].written
           /\ \A q \in Procs \ {p} : job'[q] = job[q]
<1>1. job \in [Procs -> Jobs]
  BY DEF TypeOK, Jobs
<1> QED  BY <1>1 DEF Goto, Jobs

\* Either way the process writes nothing.
LEMMA GoOrLeave ==
    ASSUME TypeOK, NEW p \in Procs, UNCHANGED <<file, runs, done>>,
           \/ \E pc \in Positions : Goto(p, pc)
           \/ \E how \in Verdicts : Leave(p, how)
    PROVE  TypeOK'
<1>1. CASE \E pc \in Positions : Goto(p, pc)
  BY <1>1, Going DEF TypeOK, Jobs
<1>2. CASE \E how \in Verdicts : Leave(p, how)
  <2>1. job' \in [Procs -> Jobs]
    BY <1>2, Leaving
  <2>2. \A q \in Procs : job'[q].written <= job'[q].target
    BY <1>2, Leaving DEF TypeOK
  <2> QED  BY <2>1, <2>2 DEF TypeOK, Jobs
<1> QED  BY <1>1, <1>2

\* Kinds of values are kept.
LEMMA TypeStep == IInv /\ [Next]_vars => TypeOK'
<1> SUFFICES ASSUME IInv, [Next]_vars PROVE TypeOK'
  OBVIOUS
<1>1. /\ TypeOK /\ OwnerInv /\ FileInv
      /\ job \in [Procs -> Jobs] /\ file \in Files /\ NoFile \in Files
  BY NoJobType DEF IInv, TypeOK, Jobs, Files
<1>2. ASSUME NEW p \in Procs, Begin(p) PROVE TypeOK'
  <2>1. runs' \in 0 .. MaxRuns /\ done' \subseteq 1 .. runs'
    BY <1>1, <1>2, MaxRunsAssumption DEF Begin, TypeOK
  <2>2. PICK size \in Asked :
          job' = [job EXCEPT ![p] =
                   [NoJob EXCEPT !.pc = IF ViaScript THEN "guards" ELSE "parse",
                                 !.run = runs + 1, !.asked = size]]
    BY <1>2 DEF Begin
  <2> DEFINE new == [NoJob EXCEPT !.pc = IF ViaScript THEN "guards" ELSE "parse",
                                  !.run = runs + 1, !.asked = size]
  <2>3. runs + 1 \in 0 .. MaxRuns /\ (IF ViaScript THEN "guards" ELSE "parse") \in Positions
    BY <1>1, <1>2, MaxRunsAssumption DEF Begin, TypeOK, Positions
  <2>4. new \in Jobs
    BY <2>3, NoJobType DEF Jobs
  <2>5. new.written = 0 /\ new.target = 0
    BY DEF NoJob
  <2> HIDE DEF new
  <2>6. job' \in [Procs -> Jobs]
    BY <1>1, <2>2, <2>4 DEF new
  <2>7. \A q \in Procs : job'[q].written <= job'[q].target
    BY <1>1, <2>2, <2>5 DEF new, TypeOK
  <2> QED  BY <1>1, <1>2, <2>1, <2>6, <2>7 DEF TypeOK, Jobs, Begin
<1>3. ASSUME NEW p \in Procs,
             \/ TestExists(p) \/ TestRoom(p) \/ Kill(p)
             \/ \E ok \in BOOLEAN : Guards(p, ok) \/ Build(p, ok)
      PROVE TypeOK'
  <2>1. UNCHANGED <<file, runs, done>>
    BY <1>3 DEF TestExists, TestRoom, Kill, Guards, Build
  <2>2. \/ \E pc \in Positions : Goto(p, pc)
        \/ \E how \in Verdicts : Leave(p, how)
    BY <1>3 DEF TestExists, TestRoom, Kill, Guards, Build, Positions, Verdicts
  <2> QED  BY <1>1, <2>1, <2>2, GoOrLeave
<1>4. ASSUME NEW p \in Procs, NEW ok \in BOOLEAN, Preflight(p, ok) PROVE TypeOK'
  <2>1. CASE ok /\ Numfmt(job[p].asked)
    <3>1. IecBytes(job[p].asked) \in Nat
      BY <1>1, IecRange, AskedAssumption DEF Jobs
    <3> QED  BY <1>1, <1>4, <2>1, <3>1 DEF Preflight, TypeOK, Jobs, Positions
  <2>2. CASE ~(ok /\ Numfmt(job[p].asked))
    BY <1>1, <1>4, <2>2, GoOrLeave DEF Preflight, Verdicts
  <2> QED  BY <2>1, <2>2
<1>5. ASSUME NEW p \in Procs, Df(p) PROVE TypeOK'
  <2>1. Capacity - file.size \in 0 .. Capacity
    BY <1>1, BytesAssumption DEF Files
  <2>2. job' \in [Procs -> Jobs]
    BY <1>1, <1>5, <2>1 DEF Df, Jobs, Positions
  <2>3. \A q \in Procs : job'[q].written <= job'[q].target
    BY <1>1, <1>5 DEF Df, TypeOK
  <2> QED  BY <1>1, <1>5, <2>2, <2>3 DEF Df, TypeOK, Jobs, Files
<1>6. ASSUME NEW p \in Procs, Parse(p) PROVE TypeOK'
  <2> DEFINE t == ParseSize(job[p].asked)
  <2>1. t \in 0 .. ULL - 1
    BY <1>1, ParsedRange, AskedAssumption DEF Jobs
  <2>2. CASE t = 0 \/ t % Align # 0
    BY <1>1, <1>6, <2>2, GoOrLeave DEF Parse, Verdicts
  <2>3. CASE ~(t = 0 \/ t % Align # 0)
    <3>1. job' = [job EXCEPT ![p].pc = "create", ![p].target = t]
      BY <1>6, <2>3 DEF Parse
    <3> HIDE DEF t
    <3>2. job[p].written = 0
      BY <1>6 DEF IInv, CheckedInv, Owner, Parse
    <3> QED  BY <1>1, <1>6, <2>1, <3>1, <3>2, ULLAssumption DEF Parse, TypeOK, Jobs, Positions
  <2> QED  BY <2>2, <2>3
<1>7. ASSUME NEW p \in Procs, NEW ok \in BOOLEAN, Create(p, ok) PROVE TypeOK'
  <2>1. CASE ok /\ file = NoFile
    <3>1. file' \in Files
      BY <1>1, <1>7, <2>1 DEF Create, Files, Jobs
    <3>2. Goto(p, "allocate") /\ UNCHANGED <<runs, done>>
      BY <1>7, <2>1 DEF Create
    <3> QED  BY <1>1, <3>1, <3>2, Going DEF TypeOK, Jobs, Files, Positions
  <2>2. CASE ~(ok /\ file = NoFile)
    BY <1>1, <1>7, <2>2, GoOrLeave DEF Create, Verdicts
  <2> QED  BY <2>1, <2>2
<1>8. ASSUME NEW p \in Procs, NEW ok \in BOOLEAN, Allocate(p, ok) PROVE TypeOK'
  <2>1. CASE ok
    BY <1>1, <1>8, <2>1, ULLAssumption DEF Allocate, TypeOK, Jobs, Positions
  <2>2. CASE ~ok
    <3>1. Leave(p, "failed") /\ file' \in Files /\ UNCHANGED <<runs, done>>
      BY <1>1, <1>8, <2>2 DEF Allocate
    <3>2. job' \in [Procs -> Jobs]
      BY <1>1, <3>1, Leaving DEF Verdicts
    <3>3. \A q \in Procs : job'[q].written <= job'[q].target
      BY <1>1, <3>1, Leaving DEF TypeOK, Verdicts
    <3> QED  BY <1>1, <3>1, <3>2, <3>3 DEF TypeOK, Jobs, Files
  <2> QED  BY <2>1, <2>2
<1>9. ASSUME NEW p \in Procs, NEW n \in 0 .. Buffer, Write(p, n) PROVE TypeOK'
  <2>1. CASE n = 0
    BY <1>1, <1>9, <2>1, GoOrLeave DEF Write, Verdicts
  <2>2. CASE n # 0
    <3>1. file.size = job[p].written /\ n \in Nat /\ n <= Capacity - file.size
      BY <1>1, <1>9, BytesAssumption DEF Write, OwnerInv, Owner
    <3>2. file' = [file EXCEPT !.size = job[p].written + n]
      BY <1>1, <1>9, <2>2, <3>1, BytesAssumption DEF Write, Written, Jobs, Files
    <3>3. file' \in Files
      BY <1>1, <3>1, <3>2, BytesAssumption DEF Files
    <3>4. job[p].written + n <= job[p].target
      BY <1>1, <1>9, BytesAssumption, ULLAssumption DEF Write, Chunk, Jobs
    <3>5. job' = [job EXCEPT ![p].written = @ + n]
      BY <1>9, <2>2 DEF Write
    <3>6. job' \in [Procs -> Jobs]
      BY <1>1, <3>1, <3>5 DEF Jobs
    <3>7. \A q \in Procs : job'[q].written <= job'[q].target
      BY <1>1, <3>4, <3>5 DEF Jobs, TypeOK
    <3> QED  BY <1>1, <1>9, <3>3, <3>6, <3>7 DEF TypeOK, Jobs, Files, Write
  <2> QED  BY <2>1, <2>2
<1>10. ASSUME NEW p \in Procs, NEW ok \in BOOLEAN, Sync(p, ok) PROVE TypeOK'
  <2>1. CASE ok
    <3>1. file' \in Files
      BY <1>1, <1>10, <2>1, BytesAssumption DEF Sync, Files
    <3>2. Goto(p, "report") /\ UNCHANGED <<runs, done>>
      BY <1>10, <2>1 DEF Sync
    <3> QED  BY <1>1, <3>1, <3>2, Going DEF TypeOK, Jobs, Files, Positions
  <2>2. CASE ~ok
    BY <1>1, <1>10, <2>2, GoOrLeave DEF Sync, Verdicts
  <2> QED  BY <2>1, <2>2
<1>11. ASSUME NEW p \in Procs, Report(p) PROVE TypeOK'
  <2>1. Leave(p, "ok") /\ done' = done \cup {job[p].run} /\ UNCHANGED <<file, runs>>
    BY <1>11 DEF Report
  <2>2. job[p].run \in 1 .. runs
    BY <1>11 DEF IInv, IdentityInv, Report
  <2>3. job' \in [Procs -> Jobs]
    BY <1>1, <2>1, Leaving DEF Verdicts
  <2>4. \A q \in Procs : job'[q].written <= job'[q].target
    BY <1>1, <2>1, Leaving DEF TypeOK, Verdicts
  <2> QED  BY <1>1, <2>1, <2>2, <2>3, <2>4 DEF TypeOK, Jobs
<1>12. ASSUME PowerFailure PROVE TypeOK'
  <2>1. [NoJob EXCEPT !.verdict = "killed"] \in Jobs
    BY NoJobType DEF Jobs, Verdicts
  <2>2. job' \in [Procs -> Jobs]
    BY <1>1, <1>12, <2>1 DEF PowerFailure
  <2>3. \A q \in Procs : job'[q].written <= job'[q].target
    BY <1>1, <1>12 DEF PowerFailure, NoJob, TypeOK
  <2>4. file' \in Files
    BY <1>1, <1>12, BytesAssumption DEF PowerFailure, Files
  <2> QED  BY <1>1, <1>12, <2>2, <2>3, <2>4 DEF TypeOK, Jobs, Files, PowerFailure
<1>13. ASSUME Remove PROVE TypeOK'
  BY <1>1, <1>13 DEF Remove, TypeOK, Files
<1>14. CASE UNCHANGED vars
  BY <1>1, <1>14 DEF TypeOK, vars
<1> QED  BY <1>2, <1>3, <1>4, <1>5, <1>6, <1>7, <1>8, <1>9, <1>10, <1>11, <1>12,
            <1>13, <1>14 DEF Next, Step

\* A step of a process leaves the other processes and the number of runs
\* alone; it ends the run, or goes on with the same run and size.
LEMMA Frame ==
    ASSUME TypeOK, NEW p \in Procs, Step(p) \/ Kill(p)
    PROVE  /\ runs' = runs /\ job[p].pc # "idle"
           /\ \A q \in Procs \ {p} : job'[q] = job[q]
           /\ \/ job'[p].pc = "idle" /\ job'[p].written = 0
              \/ /\ job'[p].run = job[p].run /\ job'[p].asked = job[p].asked
                 /\ done' = done
<1> DEFINE Good ==
      /\ runs' = runs /\ job[p].pc # "idle"
      /\ \A q \in Procs \ {p} : job'[q] = job[q]
      /\ \/ job'[p].pc = "idle" /\ job'[p].written = 0
         \/ job'[p].run = job[p].run /\ job'[p].asked = job[p].asked /\ done' = done
<1>1. job \in [Procs -> Jobs]
  BY DEF TypeOK, Jobs
<1>2. ASSUME \/ \E pc \in Positions : Goto(p, pc) /\ done' = done
             \/ \E how \in Verdicts : Leave(p, how),
             runs' = runs, job[p].pc # "idle"
      PROVE Good
  BY <1>2, Going, Leaving
<1> SUFFICES Good
  OBVIOUS
<1> HIDE DEF Good
<1>3. CASE TestExists(p) \/ TestRoom(p) \/ Report(p) \/ Kill(p)
  <2>1. CASE TestExists(p) \/ TestRoom(p)
    BY <1>2, <2>1 DEF TestExists, TestRoom, Positions, Verdicts
  <2>2. CASE Report(p) \/ Kill(p)
    BY <1>2, <2>2 DEF Report, Kill, Verdicts
  <2> QED  BY <1>3, <2>1, <2>2
<1>4. ASSUME NEW ok \in BOOLEAN, Guards(p, ok) \/ Build(p, ok) \/ Create(p, ok) \/ Sync(p, ok)
      PROVE Good
  BY <1>2, <1>4 DEF Guards, Build, Create, Sync, Positions, Verdicts
<1>5. CASE Df(p)
  BY <1>1, <1>5 DEF Good, Df, Jobs
<1>6. CASE Parse(p)
  <2> DEFINE t == ParseSize(job[p].asked)
             bad == t = 0 \/ t % Align # 0
  <2>1. CASE bad
    <3>1. Leave(p, "badsize") /\ runs' = runs /\ job[p].pc # "idle"
      BY <1>6, <2>1 DEF Parse
    <3> QED  BY <1>2, <3>1 DEF Verdicts
  <2>2. CASE ~bad
    <3>1. job' = [job EXCEPT ![p].pc = "create", ![p].target = t]
      BY <1>6, <2>2 DEF Parse
    <3> HIDE DEF t
    <3> QED  BY <1>1, <1>6, <3>1 DEF Good, Parse, Jobs
  <2> QED  BY <2>1, <2>2
<1>7. ASSUME NEW ok \in BOOLEAN, Preflight(p, ok) PROVE Good
  <2>1. CASE ok /\ Numfmt(job[p].asked)
    BY <1>1, <1>7, <2>1 DEF Good, Preflight, Jobs
  <2>2. CASE ~(ok /\ Numfmt(job[p].asked))
    BY <1>2, <1>7, <2>2 DEF Preflight, Verdicts
  <2> QED  BY <2>1, <2>2
<1>8. ASSUME NEW ok \in BOOLEAN, Allocate(p, ok) PROVE Good
  <2>1. CASE ok
    BY <1>1, <1>8, <2>1 DEF Good, Allocate, Jobs
  <2>2. CASE ~ok
    BY <1>2, <1>8, <2>2 DEF Allocate, Verdicts
  <2> QED  BY <2>1, <2>2
<1>9. ASSUME NEW n \in 0 .. Buffer, Write(p, n) PROVE Good
  <2>1. CASE n = 0
    BY <1>2, <1>9, <2>1 DEF Write, Verdicts
  <2>2. CASE n # 0
    BY <1>1, <1>9, <2>2 DEF Good, Write, Jobs
  <2> QED  BY <2>1, <2>2
<1> QED  BY <1>3, <1>4, <1>5, <1>6, <1>7, <1>8, <1>9 DEF Step

\* What Begin makes.
LEMMA Begun ==
    ASSUME TypeOK, NEW p \in Procs, Begin(p)
    PROVE  /\ runs' = runs + 1 /\ UNCHANGED <<file, done>> /\ job[p].pc = "idle"
           /\ \A q \in Procs \ {p} : job'[q] = job[q]
           /\ job'[p].run = runs + 1 /\ job'[p].pc \in {"guards", "parse"}
           /\ ViaScript => job'[p].pc = "guards"
           /\ job'[p].written = 0
<1>1. job \in [Procs -> Jobs]
  BY DEF TypeOK, Jobs
<1> QED  BY <1>1 DEF Begin, NoJob

\* Runs in progress stay distinct and are not among the done.
LEMMA IdentityStep == IInv /\ [Next]_vars => IdentityInv'
<1> SUFFICES ASSUME IInv, [Next]_vars PROVE IdentityInv'
  OBVIOUS
<1>1. TypeOK /\ IdentityInv /\ runs \in Nat /\ done \subseteq 1 .. runs
  BY MaxRunsAssumption DEF IInv, TypeOK
<1>2. ASSUME NEW p \in Procs, Begin(p) PROVE IdentityInv'
  BY <1>1, <1>2, Begun DEF IdentityInv
<1>3. ASSUME NEW p \in Procs, Step(p) \/ Kill(p), done' = done PROVE IdentityInv'
  BY <1>1, <1>3, Frame DEF IdentityInv
<1>4. ASSUME NEW p \in Procs, Report(p) PROVE IdentityInv'
  <2>1. done' = done \cup {job[p].run} /\ Leave(p, "ok") /\ runs' = runs
        /\ job[p].pc # "idle"
    BY <1>4 DEF Report
  <2>2. job'[p].pc = "idle" /\ \A q \in Procs \ {p} : job'[q] = job[q]
    BY <1>1, <2>1, Leaving DEF Verdicts
  <2> QED  BY <1>1, <2>1, <2>2 DEF IdentityInv
<1>5. ASSUME NEW p \in Procs, Step(p) \/ Kill(p), ~Report(p) PROVE done' = done
  BY <1>5 DEF Step, Kill, TestExists, Df, TestRoom, Parse, Guards, Preflight, Build,
              Create, Allocate, Sync, Write
<1>6. CASE PowerFailure
  BY <1>1, <1>6 DEF PowerFailure, IdentityInv, TypeOK, NoJob
<1>7. CASE Remove \/ UNCHANGED vars
  BY <1>1, <1>7 DEF Remove, vars, IdentityInv
<1> QED  BY <1>2, <1>3, <1>4, <1>5, <1>6, <1>7 DEF Next, Step

\* The steps before the file is created, and those that end a run, leave the
\* file alone.
Early(p) ==
    \/ Begin(p) \/ TestExists(p) \/ Df(p) \/ TestRoom(p) \/ Parse(p) \/ Report(p) \/ Kill(p)
    \/ \E ok \in BOOLEAN : Guards(p, ok) \/ Preflight(p, ok) \/ Build(p, ok)

LEMMA EarlyFrame ==
    ASSUME TypeOK, NEW p \in Procs, Early(p)
    PROVE  /\ file' = file /\ ~Owner(p)' /\ \A q \in Procs \ {p} : job'[q] = job[q]
           /\ runs \in Nat => runs' >= runs
<1>1. job \in [Procs -> Jobs]
  BY DEF TypeOK, Jobs
<1>2. CASE Begin(p)
  BY <1>2, Begun DEF Owner
<1>3. CASE ~Begin(p)
  <2>1. Step(p) \/ Kill(p)
    BY <1>3 DEF Early, Step
  <2>2. runs' = runs /\ \A q \in Procs \ {p} : job'[q] = job[q]
    BY <2>1, Frame
  <2>3. file' = file
    BY <1>3 DEF Early, TestExists, Df, TestRoom, Parse, Report, Kill, Guards, Preflight, Build
  <2>4. ~Owner(p)'
    <3>1. CASE TestExists(p) \/ TestRoom(p) \/ \E ok \in BOOLEAN : Guards(p, ok) \/ Build(p, ok)
      <4>1. \/ \E pc \in {"exists", "preflight", "build", "parse"} : Goto(p, pc)
            \/ \E how \in Verdicts : Leave(p, how)
        BY <3>1 DEF TestExists, TestRoom, Guards, Build, Verdicts
      <4> QED  BY <4>1, Going, Leaving DEF Owner, Positions
    <3>2. CASE Report(p) \/ Kill(p)
      <4>1. \E how \in Verdicts : Leave(p, how)
        BY <3>2 DEF Report, Kill, Verdicts
      <4> QED  BY <4>1, Leaving DEF Owner
    <3>3. CASE Df(p)
      BY <1>1, <3>3 DEF Df, Owner
    <3>4. CASE Parse(p)
      <4>1. \/ job' = [job EXCEPT ![p].pc = "create", ![p].target = ParseSize(job[p].asked)]
            \/ Leave(p, "badsize")
        BY <3>4 DEF Parse
      <4>2. CASE Leave(p, "badsize")
        BY <4>2, Leaving DEF Owner, Verdicts
      <4>3. CASE job' = [job EXCEPT ![p].pc = "create", ![p].target = ParseSize(job[p].asked)]
        BY <1>1, <4>3 DEF Owner
      <4> QED  BY <4>1, <4>2, <4>3
    <3>5. ASSUME NEW ok \in BOOLEAN, Preflight(p, ok) PROVE ~Owner(p)'
      <4>1. \/ job' = [job EXCEPT ![p].pc = "df", ![p].bytes = IecBytes(job[p].asked)]
            \/ Leave(p, "refused")
        BY <3>5 DEF Preflight
      <4>2. CASE Leave(p, "refused")
        BY <4>2, Leaving DEF Owner, Verdicts
      <4>3. CASE job' = [job EXCEPT ![p].pc = "df", ![p].bytes = IecBytes(job[p].asked)]
        BY <1>1, <4>3 DEF Owner
      <4> QED  BY <4>1, <4>2, <4>3
    <3> QED  BY <1>3, <3>1, <3>2, <3>3, <3>4, <3>5 DEF Early
  <2> QED  BY <2>2, <2>3, <2>4
<1> QED  BY <1>2, <1>3

\* The later ones, on the file of their own run.
LEMMA LaterSteps ==
    ASSUME NEW p \in Procs, Begin(p) \/ Step(p) \/ Kill(p)
    PROVE  \/ Early(p)
           \/ \E ok \in BOOLEAN : Create(p, ok) \/ Allocate(p, ok) \/ Sync(p, ok)
           \/ \E n \in 0 .. Buffer : Write(p, n)
BY DEF Early, Step

\* One run at most is writing, and there is a file then.
LEMMA OneOwner ==
    ASSUME IInv, NEW p \in Procs, Owner(p)
    PROVE  /\ file.run = job[p].run /\ job[p].run \in 1 .. runs /\ job[p].run \notin done
           /\ file # NoFile /\ \A q \in Procs : Owner(q) => p = q
<1>1. job[p].run \in 1 .. runs /\ job[p].run \notin done /\ file.run = job[p].run
  BY DEF IInv, IdentityInv, OwnerInv, Owner
<1>2. \A q \in Procs : Owner(q) => job[q].run = job[p].run
  BY DEF IInv, OwnerInv
<1>3. \A q \in Procs : Owner(q) => p = q
  BY <1>2 DEF IInv, IdentityInv, Owner
<1>4. runs \in Nat
  BY MaxRunsAssumption DEF IInv, TypeOK
<1>5. file # NoFile
  BY <1>1, <1>4 DEF NoFile
<1> QED  BY <1>1, <1>3, <1>5

\* What the write of n bytes does, to the file and to the run.
LEMMA WriteEffect ==
    ASSUME IInv, NEW p \in Procs, NEW n \in 0 .. Buffer, Write(p, n), n # 0
    PROVE  /\ Owner(p) /\ job[p].pc = "write" /\ file.synced = 0
           /\ file.size \in Nat /\ n \in Nat
           /\ file' = [file EXCEPT !.size = file.size + n]
           /\ job' = [job EXCEPT ![p].written = file.size + n]
           /\ file.size + n <= file.target /\ file.target = job[p].target
           /\ UNCHANGED <<runs, done>>
<1>1. /\ TypeOK /\ job \in [Procs -> Jobs] /\ file \in Files
      /\ Capacity \in Nat /\ Buffer \in Nat \ {0}
  BY BytesAssumption DEF IInv, TypeOK, Jobs, Files
<1>2. Owner(p) /\ job[p].pc = "write"
  BY DEF Write, Owner
<1>3. file.size = job[p].written /\ file.target = job[p].target /\ file.synced = 0
  BY <1>2 DEF IInv, OwnerInv
<1>4. file.size \in Nat /\ n \in Nat
  BY <1>1 DEF Files
<1>5. file' = [file EXCEPT !.size = file.size + n]
  BY <1>1, <1>3, <1>4 DEF Write, Written, Files
<1>6. job' = [job EXCEPT ![p].written = file.size + n]
  BY <1>3 DEF Write
<1>7. file.size + n <= file.target
  BY <1>1, <1>3, <1>4, ULLAssumption DEF Write, Chunk, Jobs
<1> QED  BY <1>2, <1>3, <1>4, <1>5, <1>6, <1>7 DEF Write

\* A run and its file agree.
LEMMA OwnerStep == IInv /\ [Next]_vars => OwnerInv'
<1> SUFFICES ASSUME IInv, [Next]_vars PROVE OwnerInv'
  OBVIOUS
<1>1. /\ TypeOK /\ OwnerInv /\ FileInv /\ CheckedInv
      /\ job \in [Procs -> Jobs] /\ file \in Files
  BY DEF IInv, TypeOK, Jobs, Files
<1>2. ASSUME NEW p \in Procs, file' = file, ~Owner(p)',
             \A q \in Procs \ {p} : job'[q] = job[q]
      PROVE OwnerInv'
  BY <1>1, <1>2 DEF OwnerInv, Owner
<1>3. ASSUME NEW p \in Procs, Early(p) PROVE OwnerInv'
  BY <1>1, <1>2, <1>3, EarlyFrame
<1>4. ASSUME NEW p \in Procs, UNCHANGED file, NEW how \in Verdicts, Leave(p, how)
      PROVE OwnerInv'
  BY <1>1, <1>2, <1>4, Leaving DEF Owner
<1>5. ASSUME NEW p \in Procs, NEW ok \in BOOLEAN, Create(p, ok) PROVE OwnerInv'
  <2>1. CASE ok /\ file = NoFile
    <3>1. file' = [NoFile EXCEPT !.run = job[p].run, !.target = job[p].target]
          /\ Goto(p, "allocate") /\ job[p].pc = "create"
      BY <1>5, <2>1 DEF Create
    <3>2. /\ job'[p].run = job[p].run /\ job'[p].target = job[p].target
          /\ job'[p].written = 0 /\ job'[p].pc = "allocate"
      BY <1>1, <3>1, Going DEF CheckedInv, Owner, Positions
    <3>3. \A q \in Procs \ {p} : ~Owner(q) /\ job'[q] = job[q]
      BY <1>1, <2>1, <3>1, Going, OneOwner DEF Positions
    <3>4. /\ file'.run = job[p].run /\ file'.target = job[p].target
          /\ file'.size = 0 /\ file'.synced = 0
      BY <3>1 DEF NoFile
    <3> QED  BY <3>2, <3>3, <3>4 DEF OwnerInv, Owner
  <2>2. CASE ~(ok /\ file = NoFile)
    BY <1>4, <1>5, <2>2 DEF Create, Verdicts
  <2> QED  BY <2>1, <2>2
<1>6. ASSUME NEW p \in Procs, NEW ok \in BOOLEAN, Allocate(p, ok) PROVE OwnerInv'
  <2>1. Owner(p) /\ \A q \in Procs \ {p} : ~Owner(q)
    BY <1>6, OneOwner DEF Allocate, Owner
  <2>2. CASE ok
    <3>1. file' = file /\ job' = [job EXCEPT ![p].pc = "write", ![p].written = 0]
      BY <1>6, <2>2 DEF Allocate
    <3>2. /\ job'[p].run = job[p].run /\ job'[p].target = job[p].target
          /\ job'[p].written = 0 /\ job'[p].pc = "write"
          /\ \A q \in Procs \ {p} : job'[q] = job[q]
      BY <1>1, <3>1 DEF Jobs
    <3>3. file.size = 0 /\ file.synced = 0
      BY <1>1, <1>6, <2>1 DEF OwnerInv, Allocate
    <3> QED  BY <1>1, <2>1, <3>1, <3>2, <3>3 DEF OwnerInv, Owner
  <2>3. CASE ~ok
    <3>1. Leave(p, "failed")
      BY <1>6, <2>3 DEF Allocate
    <3>2. \A q \in Procs : ~Owner(q)'
      BY <1>1, <2>1, <3>1, Leaving DEF Owner, Verdicts
    <3> QED  BY <3>2 DEF OwnerInv
  <2> QED  BY <2>2, <2>3
<1>7. ASSUME NEW p \in Procs, NEW n \in 0 .. Buffer, Write(p, n) PROVE OwnerInv'
  <2>1. CASE n = 0
    BY <1>4, <1>7, <2>1 DEF Write, Verdicts
  <2>2. CASE n # 0
    <3>1. /\ Owner(p) /\ job[p].pc = "write" /\ file.synced = 0
          /\ file' = [file EXCEPT !.size = file.size + n]
          /\ job' = [job EXCEPT ![p].written = file.size + n]
      BY <1>7, <2>2, WriteEffect
    <3>2. \A q \in Procs \ {p} : ~Owner(q)
      BY <3>1, OneOwner
    <3>3. /\ job'[p].run = job[p].run /\ job'[p].target = job[p].target
          /\ job'[p].written = file.size + n /\ job'[p].pc = "write"
          /\ \A q \in Procs \ {p} : job'[q] = job[q]
      BY <1>1, <3>1 DEF Jobs
    <3>4. /\ file'.run = file.run /\ file'.target = file.target
          /\ file'.size = file.size + n /\ file'.synced = 0
      BY <1>1, <3>1 DEF Files
    <3> QED  BY <1>1, <3>1, <3>2, <3>3, <3>4 DEF OwnerInv, Owner
  <2> QED  BY <2>1, <2>2
<1>8. ASSUME NEW p \in Procs, NEW ok \in BOOLEAN, Sync(p, ok) PROVE OwnerInv'
  <2>1. CASE ok
    <3>1. /\ Owner(p) /\ Goto(p, "report") /\ job[p].written >= job[p].target
          /\ file' = [file EXCEPT !.synced = file.size]
      BY <1>8, <2>1 DEF Sync, Owner
    <3>2. \A q \in Procs \ {p} : ~Owner(q)
      BY <3>1, OneOwner
    <3>3. file.size = job[p].written /\ file.target = job[p].target /\ file.run = job[p].run
      BY <1>1, <3>1 DEF OwnerInv
    <3>4. file.size = file.target
      BY <1>1, <3>1, <3>3, ULLAssumption, BytesAssumption DEF FileInv, Files
    <3>5. /\ file'.run = file.run /\ file'.target = file.target
          /\ file'.size = file.size /\ file'.synced = file.size
      BY <1>1, <3>1 DEF Files
    <3>6. /\ job'[p].run = job[p].run /\ job'[p].target = job[p].target
          /\ job'[p].written = job[p].written /\ job'[p].pc = "report"
          /\ \A q \in Procs \ {p} : job'[q] = job[q]
      BY <1>1, <3>1, Going DEF Positions
    <3> QED  BY <3>2, <3>3, <3>4, <3>5, <3>6 DEF OwnerInv, Owner
  <2>2. CASE ~ok
    BY <1>4, <1>8, <2>2 DEF Sync, Verdicts
  <2> QED  BY <2>1, <2>2
<1>9. CASE PowerFailure
  BY <1>1, <1>9 DEF PowerFailure, OwnerInv, Owner, NoJob
<1>10. CASE Remove
  <2>1. \A q \in Procs : ~Owner(q)'
    BY <1>1, <1>10 DEF Remove, OwnerInv, Owner
  <2> QED  BY <2>1 DEF OwnerInv
<1>11. CASE UNCHANGED vars
  BY <1>1, <1>11 DEF vars, OwnerInv, Owner
<1> QED  BY <1>3, <1>5, <1>6, <1>7, <1>8, <1>9, <1>10, <1>11, LaterSteps DEF Next

\* The file keeps its promises to the runs that ended well.
LEMMA FileStep == IInv /\ [Next]_vars => FileInv'
<1> SUFFICES ASSUME IInv, [Next]_vars PROVE FileInv'
  OBVIOUS
<1>1. /\ TypeOK /\ OwnerInv /\ FileInv /\ CheckedInv /\ IdentityInv
      /\ job \in [Procs -> Jobs] /\ file \in Files /\ runs \in Nat
  BY MaxRunsAssumption DEF IInv, TypeOK, Jobs, Files
<1>2. ASSUME file' = file, runs' >= runs, done' = done, runs' \in Nat PROVE FileInv'
  BY <1>1, <1>2, MaxRunsAssumption DEF FileInv, CompletedIsWhole, Files, NoFile
<1>3. ASSUME file' = NoFile PROVE FileInv'
  <2>1. NoFile.run = 0 /\ NoFile.size = 0 /\ NoFile.synced = 0 /\ NoFile.target = 0
    BY DEF NoFile
  <2> QED  BY <1>3, <2>1 DEF FileInv, CompletedIsWhole, NoFile
<1>4. ASSUME NEW p \in Procs, Begin(p) PROVE FileInv'
  BY <1>1, <1>2, <1>4, Begun
<1>5. ASSUME NEW p \in Procs, Report(p) PROVE FileInv'
  <2>1. Owner(p) /\ job[p].pc = "report" /\ UNCHANGED <<file, runs>>
        /\ done' = done \cup {job[p].run}
    BY <1>5 DEF Report, Owner
  <2>2. file.run = job[p].run /\ file.size = file.target /\ file.synced = file.target
    BY <1>1, <2>1 DEF OwnerInv
  <2> QED  BY <1>1, <2>1, <2>2 DEF FileInv, CompletedIsWhole, NoFile
<1>6. ASSUME NEW p \in Procs, Early(p), ~Begin(p), ~Report(p) PROVE FileInv'
  <2>1. UNCHANGED <<file, runs, done>>
    BY <1>6 DEF Early, TestExists, Df, TestRoom, Parse, Kill, Guards, Preflight, Build
  <2> QED  BY <1>1, <1>2, <2>1
<1>7. ASSUME NEW p \in Procs, NEW ok \in BOOLEAN, Create(p, ok) PROVE FileInv'
  <2>1. CASE ok /\ file = NoFile
    <3>1. /\ file' = [NoFile EXCEPT !.run = job[p].run, !.target = job[p].target]
          /\ job[p].pc = "create" /\ UNCHANGED <<runs, done>>
      BY <1>7, <2>1 DEF Create
    <3>2. job[p].run \in 1 .. runs /\ job[p].run \notin done /\ job[p].target > 0
          /\ job[p].target \in Nat
      BY <1>1, <3>1, ULLAssumption DEF IdentityInv, CheckedInv, Jobs
    <3>3. /\ file'.run = job[p].run /\ file'.target = job[p].target
          /\ file'.size = 0 /\ file'.synced = 0
      BY <3>1 DEF NoFile
    <3> QED  BY <1>1, <3>1, <3>2, <3>3 DEF FileInv, CompletedIsWhole
  <2>2. CASE ~(ok /\ file = NoFile)
    BY <1>1, <1>2, <1>7, <2>2 DEF Create
  <2> QED  BY <2>1, <2>2
<1>8. ASSUME NEW p \in Procs, NEW ok \in BOOLEAN, Allocate(p, ok) PROVE FileInv'
  BY <1>1, <1>2, <1>3, <1>8 DEF Allocate
<1>9. ASSUME NEW p \in Procs, NEW n \in 0 .. Buffer, Write(p, n) PROVE FileInv'
  <2>1. CASE n = 0
    BY <1>1, <1>2, <1>9, <2>1 DEF Write
  <2>2. CASE n # 0
    <3>1. /\ Owner(p) /\ file.size \in Nat /\ n \in Nat /\ file.synced = 0
          /\ file' = [file EXCEPT !.size = file.size + n]
          /\ file.size + n <= file.target /\ UNCHANGED <<runs, done>>
      BY <1>9, <2>2, WriteEffect
    <3>2. /\ file'.run = file.run /\ file'.target = file.target
          /\ file'.size = file.size + n /\ file'.synced = 0
      BY <1>1, <3>1 DEF Files
    <3>3. file.run \notin done /\ file.run # 0
      BY <1>1, <3>1, OneOwner
    <3> QED  BY <1>1, <3>1, <3>2, <3>3 DEF FileInv, CompletedIsWhole
  <2> QED  BY <2>1, <2>2
<1>10. ASSUME NEW p \in Procs, NEW ok \in BOOLEAN, Sync(p, ok) PROVE FileInv'
  <2>1. CASE ok
    <3>1. /\ Owner(p) /\ job[p].written >= job[p].target
          /\ file' = [file EXCEPT !.synced = file.size] /\ UNCHANGED <<runs, done>>
      BY <1>10, <2>1 DEF Sync, Owner
    <3>2. file.size = job[p].written /\ file.target = job[p].target
      BY <1>1, <3>1 DEF OwnerInv
    <3>3. file.size = file.target
      BY <1>1, <3>1, <3>2, ULLAssumption, BytesAssumption DEF FileInv, Files
    <3>4. /\ file'.run = file.run /\ file'.target = file.target
          /\ file'.size = file.size /\ file'.synced = file.size
      BY <1>1, <3>1 DEF Files
    <3>5. file.run # 0 /\ file.size \in Nat
      BY <1>1, <3>1, OneOwner, BytesAssumption DEF Files
    <3> QED  BY <1>1, <3>1, <3>3, <3>4, <3>5 DEF FileInv, CompletedIsWhole
  <2>2. CASE ~ok
    BY <1>1, <1>2, <1>10, <2>2 DEF Sync
  <2> QED  BY <2>1, <2>2
<1>11. CASE PowerFailure
  <2>1. CASE file' = NoFile
    BY <1>3, <2>1
  <2>2. ASSUME NEW n \in file.synced .. file.size, file' = [file EXCEPT !.size = n]
        PROVE FileInv'
    <3>1. /\ file'.run = file.run /\ file'.target = file.target
          /\ file'.size = n /\ file'.synced = file.synced
      BY <1>1, <2>2 DEF Files
    <3>2. n \in Int /\ file.synced <= n /\ n <= file.size /\ UNCHANGED <<runs, done>>
      BY <1>1, <1>11, <2>2, BytesAssumption DEF PowerFailure, Files
    <3>3. file.run = 0 => file' = NoFile
      BY <1>1, <2>2, <3>2 DEF FileInv, NoFile
    <3>4. file.run \in done => n = file.target
      BY <1>1, <3>2, ULLAssumption DEF FileInv, CompletedIsWhole, Files
    <3>5. n <= file.target
      BY <1>1, <3>2, ULLAssumption, BytesAssumption DEF FileInv, Files
    <3> QED  BY <1>1, <3>1, <3>2, <3>3, <3>4, <3>5 DEF FileInv, CompletedIsWhole
  <2> QED  BY <1>11, <2>1, <2>2 DEF PowerFailure
<1>12. CASE Remove
  BY <1>3, <1>12 DEF Remove
<1>13. CASE UNCHANGED vars
  BY <1>1, <1>2, <1>13 DEF vars
<1> QED  BY <1>4, <1>5, <1>6, <1>7, <1>8, <1>9, <1>10, <1>11, <1>12, <1>13,
            LaterSteps DEF Next

\* What CheckedInv says of one process.
Checked(p) ==
    /\ ~Owner(p) => job[p].written = 0
    /\ job[p].pc = "create" \/ Owner(p) =>
        job[p].target = ParseSize(job[p].asked) /\ job[p].target > 0
    /\ ViaScript /\ (job[p].pc \in {"df", "room"} \/ AfterRoom(p)) =>
        Numfmt(job[p].asked) /\ job[p].bytes = IecBytes(job[p].asked)
    /\ ViaScript /\ AfterRoom(p) => Signed(job[p].bytes + Reserve) <= Capacity

\* What was checked for a run stays true of it.
LEMMA CheckedStep == IInv /\ [Next]_vars => CheckedInv'
<1> SUFFICES ASSUME IInv, [Next]_vars PROVE CheckedInv'
  OBVIOUS
<1>1. /\ TypeOK /\ job \in [Procs -> Jobs] /\ file \in Files
      /\ \A q \in Procs : Checked(q)
  BY DEF IInv, TypeOK, Jobs, Files, CheckedInv, Checked
<1>2. ASSUME NEW p \in Procs, \A q \in Procs \ {p} : job'[q] = job[q], Checked(p)'
      PROVE CheckedInv'
  BY <1>1, <1>2 DEF CheckedInv, Checked, Owner, AfterRoom
<1>3. ASSUME NEW p \in Procs, NEW how \in Verdicts, Leave(p, how) PROVE CheckedInv'
  <2>1. Checked(p)'
    BY <1>1, <1>3, Leaving DEF Checked, Owner, AfterRoom
  <2> QED  BY <1>1, <1>2, <1>3, <2>1, Leaving
\* A step that only goes on: what the new position asks was true before.
<1>4. ASSUME NEW p \in Procs, NEW pc \in Positions, Goto(p, pc),
             \/ pc \in {"exists", "preflight", "parse"} /\ job[p].pc \in {"guards", "exists", "build"}
             \/ pc \in {"allocate", "report"} /\ job[p].pc \in {"create", "write"},
             pc = "parse" => job[p].pc = "build"
      PROVE CheckedInv'
  <2>1. Checked(p)'
    BY <1>1, <1>4, Going DEF Checked, Owner, AfterRoom
  <2> QED  BY <1>1, <1>2, <1>4, <2>1, Going
<1>5. ASSUME NEW p \in Procs, Begin(p) PROVE CheckedInv'
  <2>1. Checked(p)'
    BY <1>1, <1>5, Begun DEF Checked, Owner, AfterRoom
  <2> QED  BY <1>1, <1>2, <1>5, <2>1, Begun
<1>6. ASSUME NEW p \in Procs, NEW ok \in BOOLEAN,
             \/ TestExists(p) \/ Report(p) \/ Kill(p)
             \/ Guards(p, ok) \/ Build(p, ok) \/ Create(p, ok) \/ Sync(p, ok)
      PROVE CheckedInv'
  <2>1. CASE Report(p) \/ Kill(p)
    <3>1. \E how \in Verdicts : Leave(p, how)
      BY <2>1 DEF Report, Kill, Verdicts
    <3> QED  BY <1>3, <3>1
  <2>2. CASE Guards(p, ok)
    BY <1>3, <1>4, <2>2 DEF Guards, Positions, Verdicts
  <2>3. CASE TestExists(p)
    BY <1>3, <1>4, <2>3 DEF TestExists, Positions, Verdicts
  <2>4. CASE Build(p, ok)
    BY <1>3, <1>4, <2>4 DEF Build, Positions, Verdicts
  <2>5. CASE Create(p, ok)
    BY <1>3, <1>4, <2>5 DEF Create, Positions, Verdicts
  <2>6. CASE Sync(p, ok)
    BY <1>3, <1>4, <2>6 DEF Sync, Positions, Verdicts
  <2> QED  BY <1>6, <2>1, <2>2, <2>3, <2>4, <2>5, <2>6
<1>7. ASSUME NEW p \in Procs, NEW ok \in BOOLEAN, Preflight(p, ok) PROVE CheckedInv'
  <2>1. CASE ok /\ Numfmt(job[p].asked)
    <3>1. job' = [job EXCEPT ![p].pc = "df", ![p].bytes = IecBytes(job[p].asked)]
          /\ job[p].pc = "preflight"
      BY <1>7, <2>1 DEF Preflight
    <3>2. /\ job'[p].pc = "df" /\ job'[p].bytes = IecBytes(job[p].asked)
          /\ job'[p].asked = job[p].asked /\ job'[p].written = job[p].written
          /\ \A q \in Procs \ {p} : job'[q] = job[q]
      BY <1>1, <3>1 DEF Jobs
    <3>3. Checked(p)'
      BY <1>1, <2>1, <3>1, <3>2 DEF Checked, Owner, AfterRoom
    <3> QED  BY <1>2, <3>2, <3>3
  <2>2. CASE ~(ok /\ Numfmt(job[p].asked))
    BY <1>3, <1>7, <2>2 DEF Preflight, Verdicts
  <2> QED  BY <2>1, <2>2
<1>8. ASSUME NEW p \in Procs, Df(p) PROVE CheckedInv'
  <2>1. /\ job'[p].pc = "room" /\ job'[p].bytes = job[p].bytes
        /\ job'[p].asked = job[p].asked /\ job'[p].written = job[p].written
        /\ \A q \in Procs \ {p} : job'[q] = job[q]
    BY <1>1, <1>8 DEF Df, Jobs
  <2>2. Checked(p)'
    BY <1>1, <1>8, <2>1 DEF Checked, Owner, AfterRoom, Df
  <2> QED  BY <1>2, <2>1, <2>2
<1>9. ASSUME NEW p \in Procs, TestRoom(p) PROVE CheckedInv'
  <2>1. CASE job[p].free >= Signed(job[p].bytes + Reserve)
    <3>1. Goto(p, "build") /\ job[p].pc = "room"
      BY <1>9, <2>1 DEF TestRoom
    <3>2. Signed(job[p].bytes + Reserve) <= Capacity
      <4>1. job[p].bytes + Reserve \in Int /\ ULL \in Nat \ {0} /\ ULL \div 2 \in Int
        BY <1>1, BytesAssumption, ULLAssumption DEF Jobs
      <4>2. Signed(job[p].bytes + Reserve) \in Int
        BY <4>1 DEF Signed
      <4>3. job[p].free \in Int /\ job[p].free <= Capacity /\ Capacity \in Int
        BY <1>1, BytesAssumption DEF Jobs
      <4> QED  BY <2>1, <4>2, <4>3
    <3>3. Checked(p)'
      BY <1>1, <3>1, <3>2, Going DEF Checked, Owner, AfterRoom, Positions
    <3> QED  BY <1>1, <1>2, <3>1, <3>3, Going DEF Positions
  <2>2. CASE ~(job[p].free >= Signed(job[p].bytes + Reserve))
    BY <1>3, <1>9, <2>2 DEF TestRoom, Verdicts
  <2> QED  BY <2>1, <2>2
<1>10. ASSUME NEW p \in Procs, Parse(p) PROVE CheckedInv'
  <2> DEFINE t == ParseSize(job[p].asked)
             bad == t = 0 \/ t % Align # 0
  <2>1. CASE bad
    <3>1. Leave(p, "badsize")
      BY <1>10, <2>1 DEF Parse
    <3> QED  BY <1>3, <3>1 DEF Verdicts
  <2>2. CASE ~bad
    <3>1. job' = [job EXCEPT ![p].pc = "create", ![p].target = t] /\ job[p].pc = "parse"
      BY <1>10, <2>2 DEF Parse
    <3>2. t \in 0 .. ULL - 1 /\ t # 0
      BY <1>1, <2>2, ParsedRange, AskedAssumption DEF Jobs
    <3>3. /\ job'[p].pc = "create" /\ job'[p].target = t /\ job'[p].bytes = job[p].bytes
          /\ job'[p].asked = job[p].asked /\ job'[p].written = job[p].written
          /\ \A q \in Procs \ {p} : job'[q] = job[q]
      BY <1>1, <3>1 DEF Jobs
    <3>4. t > 0
      BY <3>2, ULLAssumption
    <3>5. Checked(p)'
      BY <1>1, <3>1, <3>3, <3>4 DEF Checked, Owner, AfterRoom
    <3> QED  BY <1>2, <3>3, <3>5
  <2> QED  BY <2>1, <2>2
<1>11. ASSUME NEW p \in Procs, NEW ok \in BOOLEAN, Allocate(p, ok) PROVE CheckedInv'
  <2>1. CASE ok
    <3>1. /\ job'[p].pc = "write" /\ job'[p].target = job[p].target
          /\ job'[p].bytes = job[p].bytes /\ job'[p].asked = job[p].asked
          /\ \A q \in Procs \ {p} : job'[q] = job[q]
          /\ job[p].pc = "allocate"
      BY <1>1, <1>11, <2>1 DEF Allocate, Jobs
    <3>2. Checked(p)'
      BY <1>1, <3>1 DEF Checked, Owner, AfterRoom
    <3> QED  BY <1>2, <3>1, <3>2
  <2>2. CASE ~ok
    BY <1>3, <1>11, <2>2 DEF Allocate, Verdicts
  <2> QED  BY <2>1, <2>2
<1>12. ASSUME NEW p \in Procs, NEW n \in 0 .. Buffer, Write(p, n) PROVE CheckedInv'
  <2>1. CASE n = 0
    BY <1>3, <1>12, <2>1 DEF Write, Verdicts
  <2>2. CASE n # 0
    <3>1. /\ job'[p].pc = "write" /\ job'[p].target = job[p].target
          /\ job'[p].bytes = job[p].bytes /\ job'[p].asked = job[p].asked
          /\ \A q \in Procs \ {p} : job'[q] = job[q]
          /\ job[p].pc = "write"
      BY <1>1, <1>12, <2>2 DEF Write, Jobs
    <3>2. Checked(p)'
      BY <1>1, <3>1 DEF Checked, Owner, AfterRoom
    <3> QED  BY <1>2, <3>1, <3>2
  <2> QED  BY <2>1, <2>2
<1>13. CASE PowerFailure
  BY <1>1, <1>13 DEF PowerFailure, CheckedInv, Checked, Owner, AfterRoom, NoJob
<1>14. CASE Remove \/ UNCHANGED vars
  BY <1>1, <1>14 DEF Remove, vars, CheckedInv, Checked, Owner, AfterRoom
<1> QED  BY <1>5, <1>6, <1>7, <1>8, <1>9, <1>10, <1>11, <1>12, <1>13, <1>14 DEF Next, Step

\* A file leaves the reserve, if the sum that was compared did not wrap.
LEMMA RoomStep == IInv /\ [Next]_vars => RoomInv'
<1> SUFFICES ASSUME IInv, [Next]_vars PROVE RoomInv'
  OBVIOUS
<1>1. TypeOK /\ RoomInv /\ CheckedInv /\ job \in [Procs -> Jobs] /\ file \in Files
  BY DEF IInv, TypeOK, Jobs, Files
<1>2. ASSUME file # NoFile, file'.target = file.target PROVE RoomInv'
  BY <1>1, <1>2 DEF RoomInv, NoWrap
<1>3. ASSUME file' = file PROVE RoomInv'
  BY <1>1, <1>3 DEF RoomInv, NoWrap
<1>4. ASSUME file' = NoFile PROVE RoomInv'
  BY <1>4 DEF RoomInv
<1>5. ASSUME NEW p \in Procs, Early(p) PROVE RoomInv'
  BY <1>1, <1>3, <1>5, EarlyFrame
<1>6. ASSUME NEW p \in Procs, NEW ok \in BOOLEAN, Create(p, ok) PROVE RoomInv'
  <2>1. CASE ok /\ file = NoFile
    <3> SUFFICES ASSUME ViaScript, NoWrap PROVE file'.target + Reserve <= Capacity
      BY DEF RoomInv, NoWrap
    <3>1. file'.target = job[p].target /\ job[p].pc = "create"
      BY <1>6, <2>1 DEF Create, NoFile
    <3> DEFINE s == job[p].asked
    <3>2. s \in Sizes /\ s \in Asked
      BY <1>1, AskedAssumption DEF Jobs
    <3>3. job[p].target = ParseSize(s) /\ Numfmt(s) /\ job[p].bytes = IecBytes(s)
          /\ Signed(job[p].bytes + Reserve) <= Capacity
      BY <1>1, <3>1 DEF CheckedInv, AfterRoom
    <3> HIDE DEF s
    <3>4. IecBytes(s) \in Nat /\ IecBytes(s) + Reserve < ULL \div 2
      BY <3>2, <3>3, IecRange DEF NoWrap
    <3>5. Signed(IecBytes(s) + Reserve) = IecBytes(s) + Reserve
      BY <3>4, SignedSmall, BytesAssumption
    <3>6. ParseSize(s) <= IecBytes(s) /\ ParseSize(s) \in 0 .. ULL - 1
      BY <3>2, <3>3, ParsedIsChecked, ParsedRange
    <3> QED  BY <3>1, <3>3, <3>4, <3>5, <3>6, BytesAssumption, ULLAssumption
  <2>2. CASE ~(ok /\ file = NoFile)
    BY <1>3, <1>6, <2>2 DEF Create
  <2> QED  BY <2>1, <2>2
<1>7. ASSUME NEW p \in Procs, NEW ok \in BOOLEAN, Allocate(p, ok) PROVE RoomInv'
  BY <1>3, <1>7, <1>4 DEF Allocate
<1>8. ASSUME NEW p \in Procs, NEW n \in 0 .. Buffer, Write(p, n) PROVE RoomInv'
  <2>1. CASE n = 0
    BY <1>3, <1>8, <2>1 DEF Write
  <2>2. CASE n # 0
    <3>1. Owner(p) /\ file' = [file EXCEPT !.size = file.size + n]
      BY <1>8, <2>2, WriteEffect
    <3>2. file # NoFile /\ file'.target = file.target
      BY <1>1, <3>1, OneOwner DEF Files
    <3> QED  BY <1>2, <3>2
  <2> QED  BY <2>1, <2>2
<1>9. ASSUME NEW p \in Procs, NEW ok \in BOOLEAN, Sync(p, ok) PROVE RoomInv'
  <2>1. Owner(p) /\ (file' = [file EXCEPT !.synced = file.size] \/ file' = file)
    BY <1>9 DEF Sync, Owner
  <2>2. file # NoFile /\ file'.target = file.target
    BY <1>1, <2>1, OneOwner DEF Files
  <2> QED  BY <1>2, <2>2
<1>10. CASE PowerFailure
  <2>1. CASE file' = NoFile
    BY <1>4, <2>1
  <2>2. ASSUME NEW n \in file.synced .. file.size, file' = [file EXCEPT !.size = n]
        PROVE RoomInv'
    <3>1. CASE file = NoFile
      <4>1. n = 0
        BY <2>2, <3>1 DEF NoFile
      <4> QED  BY <1>4, <2>2, <3>1, <4>1 DEF NoFile
    <3>2. CASE file # NoFile
      BY <1>1, <1>2, <2>2, <3>2 DEF Files
    <3> QED  BY <3>1, <3>2
  <2> QED  BY <1>10, <2>1, <2>2 DEF PowerFailure
<1>11. CASE Remove
  BY <1>11, <1>4 DEF Remove
<1>12. CASE UNCHANGED vars
  BY <1>3, <1>12 DEF vars
<1> QED  BY <1>5, <1>6, <1>7, <1>8, <1>9, <1>10, <1>11, <1>12, LaterSteps DEF Next

LEMMA InitInvariant == Init => IInv
<1> SUFFICES ASSUME Init PROVE IInv
  OBVIOUS
<1>1. /\ NoFile.run = 0 /\ NoFile.size = 0 /\ NoFile.synced = 0 /\ NoFile.target = 0
      /\ NoJob.pc = "idle" /\ NoJob.written = 0 /\ NoJob.target = 0
  BY DEF NoFile, NoJob
<1>2. TypeOK
  BY <1>1, NoJobType, MaxRunsAssumption DEF Init, TypeOK, Jobs, Files
<1>3. IdentityInv /\ OwnerInv /\ FileInv /\ CheckedInv /\ RoomInv
  BY <1>1 DEF Init, IdentityInv, OwnerInv, Owner, AfterRoom, FileInv, CompletedIsWhole,
              CheckedInv, RoomInv
<1> QED  BY <1>2, <1>3 DEF IInv

THEOREM PrefillInvariance == Spec => []IInv
<1>1. IInv /\ [Next]_vars => IInv'
  BY TypeStep, IdentityStep, OwnerStep, FileStep, CheckedStep, RoomStep DEF IInv
<1> QED  BY <1>1, InitInvariant, PTL DEF Spec

------------------------------------------------------------------------------
\* The properties of the runs.

\* Jobs and the file hold values of their kinds, and no run writes more than
\* its target.
THEOREM PrefillTypeCorrect == Spec => []TypeOK
<1>1. IInv => TypeOK
  BY DEF IInv
<1> QED  BY <1>1, PrefillInvariance, PTL

\* The file of a run that ended well is whole and on the device.
THEOREM CompletedFilesAreWhole == Spec => []CompletedIsWhole
<1>1. IInv => CompletedIsWhole
  BY DEF IInv, FileInv
<1> QED  BY <1>1, PrefillInvariance, PTL

\* With sizes as the documentation writes them, a run ends with the bytes that
\* the script computed and checked.
THEOREM PlainSizesAreExact == Spec => []PlainIsExact
<1>1. ASSUME IInv, NEW p \in Procs, job[p].pc = "report", ViaScript, Plain(job[p].asked)
      PROVE file.size = job[p].bytes
  <2>1. Owner(p) /\ job[p].asked \in Sizes
    BY <1>1, AskedAssumption DEF Owner, IInv, TypeOK
  <2>2. file.size = job[p].target
    BY <1>1, <2>1 DEF IInv, OwnerInv
  <2>3. job[p].target = ParseSize(job[p].asked) /\ Numfmt(job[p].asked)
        /\ job[p].bytes = IecBytes(job[p].asked)
    BY <1>1, <2>1 DEF IInv, CheckedInv, AfterRoom
  <2> QED  BY <1>1, <2>1, <2>2, <2>3, PlainAgrees
<1>2. IInv => PlainIsExact
  BY <1>1 DEF PlainIsExact
<1> QED  BY <1>2, PrefillInvariance, PTL

\* A prefill started by the script leaves the reserve free at every moment, as
\* docs/SAFETY.md says, if no size that numfmt prints reaches 2^63 together
\* with the reserve.
THEOREM ReserveIsKept == ASSUME NoWrap PROVE Spec => []ReserveKept
<1>1. ASSUME IInv PROVE ReserveKept
  <2> SUFFICES ASSUME file # NoFile, ViaScript PROVE Capacity - file.size >= Reserve
    BY DEF ReserveKept
  <2>1. file.target + Reserve <= Capacity
    BY <1>1 DEF IInv, RoomInv
  <2>2. file.size <= file.target /\ file.size \in 0 .. Capacity /\ file.target \in 0 .. ULL - 1
    BY <1>1 DEF IInv, FileInv, TypeOK
  <2> QED  BY <2>1, <2>2, BytesAssumption, ULLAssumption
<1>2. IInv => ReserveKept
  BY <1>1
<1> QED  BY <1>2, PrefillInvariance, PTL

------------------------------------------------------------------------------
\* The refinement.

\* A step of the runs is a step of PrefillFile, or none of its business.
LEMMA FileSimulation == IInv /\ [Next]_vars => [File!Next]_(File!vars)
<1> SUFFICES ASSUME IInv, [Next]_vars PROVE [File!Next]_(File!vars)
  OBVIOUS
<1> DEFINE whole == file.run # 0 /\ file.synced = file.target
<1>1. /\ TypeOK /\ OwnerInv /\ FileInv /\ CheckedInv /\ IdentityInv
      /\ job \in [Procs -> Jobs] /\ file \in Files /\ runs \in Nat
  BY MaxRunsAssumption DEF IInv, TypeOK, Jobs, Files
<1>2. ASSUME UNCHANGED <<file, done>> PROVE UNCHANGED File!vars
  BY <1>2 DEF File!vars
<1>3. ASSUME file' = NoFile, done' = done PROVE [File!Next]_(File!vars)
  <2>1. NoFile.run = 0 /\ NoFile.size = 0
    BY DEF NoFile
  <2>2. CASE file.run = 0
    <3>1. file = NoFile
      BY <1>1, <2>2 DEF FileInv
    <3> QED  BY <1>2, <1>3, <3>1
  <2>3. CASE file.run # 0
    BY <1>3, <2>1, <2>3 DEF File!Next, File!Remove
  <2> QED  BY <2>2, <2>3
<1>4. ASSUME NEW p \in Procs, Begin(p) PROVE UNCHANGED File!vars
  BY <1>1, <1>2, <1>4, Begun
<1>5. ASSUME NEW p \in Procs, Report(p) PROVE [File!Next]_(File!vars)
  <2>1. Owner(p) /\ file' = file /\ done' = done \cup {job[p].run}
    BY <1>5 DEF Report, Owner
  <2>2. whole /\ file.run = job[p].run
    BY <1>1, <1>5, <2>1, OneOwner DEF OwnerInv, Report
  <2> QED  BY <2>1, <2>2 DEF File!Next, File!Accept
<1>6. ASSUME NEW p \in Procs, Early(p), ~Begin(p), ~Report(p) PROVE UNCHANGED File!vars
  BY <1>2, <1>6 DEF Early, TestExists, Df, TestRoom, Parse, Kill, Guards, Preflight, Build
<1>7. ASSUME NEW p \in Procs, NEW ok \in BOOLEAN, Create(p, ok)
      PROVE [File!Next]_(File!vars)
  <2>1. CASE ok /\ file = NoFile
    <3>1. /\ file' = [NoFile EXCEPT !.run = job[p].run, !.target = job[p].target]
          /\ job[p].pc = "create" /\ UNCHANGED <<runs, done>>
      BY <1>7, <2>1 DEF Create
    <3>2. job[p].run \in 1 .. runs /\ job[p].run \notin done /\ job[p].target > 0
      BY <1>1, <3>1 DEF IdentityInv, CheckedInv
    <3>3. /\ file'.run = job[p].run /\ file'.target = job[p].target
          /\ file'.size = 0 /\ file'.synced = 0 /\ file.run = 0
      BY <2>1, <3>1 DEF NoFile
    <3>4. ~whole'
      BY <1>1, <3>2, <3>3, ULLAssumption DEF Jobs
    <3>5. job[p].run \in Nat \ ({0} \cup done)
      BY <1>1, <3>2
    <3> QED  BY <3>1, <3>3, <3>4, <3>5 DEF File!Next, File!Create
  <2>2. CASE ~(ok /\ file = NoFile)
    BY <1>2, <1>7, <2>2 DEF Create
  <2> QED  BY <2>1, <2>2
<1>8. ASSUME NEW p \in Procs, NEW ok \in BOOLEAN, Allocate(p, ok)
      PROVE [File!Next]_(File!vars)
  BY <1>2, <1>3, <1>8 DEF Allocate
<1>9. ASSUME NEW p \in Procs, NEW n \in 0 .. Buffer, Write(p, n)
      PROVE [File!Next]_(File!vars)
  <2>1. CASE n = 0
    BY <1>2, <1>9, <2>1 DEF Write
  <2>2. CASE n # 0
    <3>1. /\ Owner(p) /\ file.size \in Nat /\ n \in Nat /\ file.synced = 0
          /\ file' = [file EXCEPT !.size = file.size + n] /\ done' = done
      BY <1>9, <2>2, WriteEffect
    <3>2. /\ file'.run = file.run /\ file'.target = file.target
          /\ file'.size = file.size + n /\ file'.synced = 0
      BY <1>1, <3>1 DEF Files
    <3>3. file.run # 0 /\ file.target > 0
      BY <1>1, <3>1, OneOwner DEF FileInv
    <3>4. ~whole /\ ~whole'
      BY <1>1, <3>1, <3>2, <3>3, ULLAssumption DEF Files
    <3>5. file'.size \in Nat /\ file'.size > file.size
      BY <2>2, <3>1, <3>2
    <3> QED  BY <3>1, <3>2, <3>3, <3>4, <3>5 DEF File!Next, File!Grow
  <2> QED  BY <2>1, <2>2
<1>10. ASSUME NEW p \in Procs, NEW ok \in BOOLEAN, Sync(p, ok)
       PROVE [File!Next]_(File!vars)
  <2>1. CASE ok
    <3>1. /\ Owner(p) /\ job[p].pc = "write" /\ job[p].written >= job[p].target
          /\ file' = [file EXCEPT !.synced = file.size] /\ done' = done
      BY <1>10, <2>1 DEF Sync, Owner
    <3>2. file.size = job[p].written /\ file.target = job[p].target /\ file.synced = 0
      BY <1>1, <3>1 DEF OwnerInv
    <3>3. file.size = file.target
      BY <1>1, <3>1, <3>2, ULLAssumption, BytesAssumption DEF FileInv, Files
    <3>4. /\ file'.run = file.run /\ file'.target = file.target
          /\ file'.size = file.size /\ file'.synced = file.size
      BY <1>1, <3>1 DEF Files
    <3>5. file.run # 0 /\ file.target > 0
      BY <1>1, <3>1, OneOwner DEF FileInv
    <3>6. ~whole /\ whole'
      BY <1>1, <3>2, <3>3, <3>4, <3>5, ULLAssumption DEF Files
    <3> QED  BY <3>1, <3>4, <3>5, <3>6 DEF File!Next, File!Complete
  <2>2. CASE ~ok
    BY <1>2, <1>10, <2>2 DEF Sync
  <2> QED  BY <2>1, <2>2
<1>11. CASE PowerFailure
  <2>1. CASE file' = NoFile
    BY <1>3, <1>11, <2>1 DEF PowerFailure
  <2>2. ASSUME NEW n \in file.synced .. file.size, file' = [file EXCEPT !.size = n]
        PROVE [File!Next]_(File!vars)
    <3>1. /\ file'.run = file.run /\ file'.target = file.target
          /\ file'.size = n /\ file'.synced = file.synced /\ done' = done
      BY <1>1, <1>11, <2>2 DEF Files, PowerFailure
    <3>2. n \in Nat /\ file.synced <= n /\ n <= file.size /\ file.size \in Nat
      BY <1>1, <2>2, BytesAssumption DEF Files
    <3>3. CASE whole
      <4>1. n = file.size
        BY <1>1, <3>2, <3>3, ULLAssumption DEF FileInv, Files
      <4> QED  BY <3>1, <4>1 DEF File!vars
    <3>4. CASE ~whole
      <4>1. n \in 0 .. file.size
        BY <3>2
      <4> QED  BY <3>1, <3>4, <4>1 DEF File!Next, File!Shrink
    <3> QED  BY <3>3, <3>4
  <2> QED  BY <1>11, <2>1, <2>2 DEF PowerFailure
<1>12. CASE Remove
  BY <1>3, <1>12 DEF Remove
<1>13. CASE UNCHANGED vars
  BY <1>2, <1>13 DEF vars
<1> QED  BY <1>4, <1>5, <1>6, <1>7, <1>8, <1>9, <1>10, <1>11, <1>12, <1>13,
            LaterSteps DEF Next

\* The file behaves as PrefillFile says: only its own run changes it until it
\* is whole, and a whole file changes no more.
THEOREM PrefillFileRefinement == Spec => ImplementsPrefillFile
<1>1. Init => File!Init
  BY DEF Init, NoFile, File!Init
<1> QED  BY <1>1, FileSimulation, PrefillInvariance, PTL
         DEF Spec, File!Spec, ImplementsPrefillFile

------------------------------------------------------------------------------
\* Why a run ends.

\* What is left is a number, none only when the run has ended.
LEMMA WhatIsLeft ==
    ASSUME TypeOK, NEW p \in Procs
    PROVE  /\ Left(p) \in Nat /\ job[p].pc \in Positions /\ StepsAfter[job[p].pc] \in 0 .. 11
           /\ Left(p) <= StepsAfter[job[p].pc] + ULL
           /\ job[p].pc \notin {"idle", "report", "write"} =>
               Left(p) = StepsAfter[job[p].pc] + ULL
           /\ job[p].pc = "write" => Left(p) = 2 + (job[p].target - job[p].written)
           /\ job[p].pc = "report" => Left(p) = 1
           /\ job[p].pc = "idle" <=> Left(p) = 0
           /\ job[p].target \in Nat /\ job[p].written \in Nat
           /\ job[p].written <= job[p].target
<1>1. /\ job[p].pc \in Positions /\ job[p].target \in 0 .. ULL - 1
      /\ job[p].written \in Nat /\ job[p].written <= job[p].target /\ ULL \in Nat \ {0}
  BY ULLAssumption DEF TypeOK
<1>2. StepsAfter[job[p].pc] \in 0 .. 11 /\ (job[p].pc # "idle" => StepsAfter[job[p].pc] >= 1)
  BY <1>1 DEF StepsAfter, Positions
<1>3. StepsAfter["idle"] = 0 /\ StepsAfter["report"] = 1 /\ StepsAfter["write"] = 2
  BY DEF StepsAfter
<1> QED  BY <1>1, <1>2, <1>3 DEF Left

LEMMA WhatIsLeftNext ==
    (TypeOK => \A p \in Procs :
        /\ Left(p) \in Nat /\ job[p].pc \in Positions /\ StepsAfter[job[p].pc] \in 0 .. 11
        /\ Left(p) <= StepsAfter[job[p].pc] + ULL
        /\ job[p].pc = "write" => Left(p) = 2 + (job[p].target - job[p].written)
        /\ job[p].pc = "report" => Left(p) = 1
        /\ job[p].pc = "idle" => Left(p) = 0)'
<1>1. TypeOK => \A p \in Procs :
        /\ Left(p) \in Nat /\ job[p].pc \in Positions /\ StepsAfter[job[p].pc] \in 0 .. 11
        /\ Left(p) <= StepsAfter[job[p].pc] + ULL
        /\ job[p].pc = "write" => Left(p) = 2 + (job[p].target - job[p].written)
        /\ job[p].pc = "report" => Left(p) = 1
        /\ job[p].pc = "idle" => Left(p) = 0
  BY WhatIsLeft
<1> QED  BY <1>1, PTL

\* Before the writes, it is enough to go forward.
LEMMA Forward ==
    ASSUME TypeOK, TypeOK', NEW p \in Procs,
           job[p].pc \notin {"idle", "report", "write"},
           StepsAfter[job'[p].pc] < StepsAfter[job[p].pc]
    PROVE  Left(p)' < Left(p)
BY WhatIsLeft, WhatIsLeftNext, ULLAssumption

\* Whoever leaves has nothing left.
LEMMA Ended ==
    ASSUME TypeOK, TypeOK', NEW p \in Procs, job[p].pc # "idle",
           NEW how \in Verdicts, Leave(p, how)
    PROVE  Left(p)' < Left(p)
<1>1. job'[p].pc = "idle"
  BY Leaving
<1> QED  BY <1>1, WhatIsLeft, WhatIsLeftNext

LEMMA GoneOn ==
    ASSUME TypeOK, TypeOK', NEW p \in Procs, NEW pc \in Positions, Goto(p, pc),
           job[p].pc \notin {"idle", "report", "write"},
           StepsAfter[pc] < StepsAfter[job[p].pc]
    PROVE  Left(p)' < Left(p)
<1>1. job'[p].pc = pc
  BY Going
<1> QED  BY <1>1, Forward

LEMMA StepLeavesFewer ==
    ASSUME IInv, TypeOK', NEW p \in Procs, Step(p)
    PROVE  Left(p)' < Left(p)
<1> DEFINE Goal == Left(p)' < Left(p)
<1>1. TypeOK /\ job \in [Procs -> Jobs]
  BY DEF IInv, TypeOK, Jobs
<1>2. {"refused", "exists", "noroom", "failed", "badsize", "ok"} \subseteq Verdicts
  BY DEF Verdicts
<1>3. {"exists", "preflight", "build", "parse", "allocate", "report", "idle"} \subseteq Positions
  BY DEF Positions
<1>4. /\ StepsAfter["guards"] = 11 /\ StepsAfter["exists"] = 10 /\ StepsAfter["preflight"] = 9
      /\ StepsAfter["df"] = 8 /\ StepsAfter["room"] = 7 /\ StepsAfter["build"] = 6
      /\ StepsAfter["parse"] = 5 /\ StepsAfter["create"] = 4 /\ StepsAfter["allocate"] = 3
      /\ StepsAfter["write"] = 2
  BY DEF StepsAfter
<1>5. CASE TestExists(p)
  BY <1>1, <1>2, <1>3, <1>4, <1>5, Ended, GoneOn DEF TestExists
<1>6. CASE Df(p)
  <2>1. job[p].pc = "df" /\ job'[p].pc = "room"
    BY <1>1, <1>6 DEF Df, Jobs
  <2> QED  BY <1>1, <1>4, <2>1, Forward
<1>7. CASE TestRoom(p)
  BY <1>1, <1>2, <1>3, <1>4, <1>7, Ended, GoneOn DEF TestRoom
<1>8. CASE Parse(p)
  <2>1. job[p].pc = "parse" /\ (Leave(p, "badsize") \/ job'[p].pc = "create")
    BY <1>1, <1>8 DEF Parse, Jobs
  <2> QED  BY <1>1, <1>2, <1>4, <2>1, Ended, Forward
<1>9. CASE Report(p)
  BY <1>1, <1>2, <1>9, Ended DEF Report
<1>10. ASSUME NEW ok \in BOOLEAN, Guards(p, ok) PROVE Goal
  BY <1>1, <1>2, <1>3, <1>4, <1>10, Ended, GoneOn DEF Guards
<1>11. ASSUME NEW ok \in BOOLEAN, Preflight(p, ok) PROVE Goal
  <2>1. job[p].pc = "preflight" /\ (Leave(p, "refused") \/ job'[p].pc = "df")
    BY <1>1, <1>11 DEF Preflight, Jobs
  <2> QED  BY <1>1, <1>2, <1>4, <2>1, Ended, Forward
<1>12. ASSUME NEW ok \in BOOLEAN, Build(p, ok) PROVE Goal
  BY <1>1, <1>2, <1>3, <1>4, <1>12, Ended, GoneOn DEF Build
<1>13. ASSUME NEW ok \in BOOLEAN, Create(p, ok) PROVE Goal
  BY <1>1, <1>2, <1>3, <1>4, <1>13, Ended, GoneOn DEF Create
<1>14. ASSUME NEW ok \in BOOLEAN, Allocate(p, ok) PROVE Goal
  <2>1. job[p].pc = "allocate" /\ (Leave(p, "failed") \/ job'[p].pc = "write")
    BY <1>1, <1>14 DEF Allocate, Jobs
  <2> QED  BY <1>1, <1>2, <1>4, <2>1, Ended, Forward
<1>15. ASSUME NEW ok \in BOOLEAN, Sync(p, ok) PROVE Goal
  <2>1. job[p].pc = "write" /\ (Leave(p, "failed") \/ Goto(p, "report"))
    BY <1>15 DEF Sync
  <2>2. CASE Goto(p, "report")
    <3>1. job'[p].pc = "report"
      BY <1>1, <1>3, <2>2, Going
    <3> QED  BY <1>1, <2>1, <3>1, WhatIsLeft, WhatIsLeftNext
  <2> QED  BY <1>1, <1>2, <2>1, <2>2, Ended
<1>16. ASSUME NEW n \in 0 .. Buffer, Write(p, n) PROVE Goal
  <2>1. job[p].pc = "write"
    BY <1>16 DEF Write
  <2>2. CASE n = 0
    BY <1>1, <1>2, <1>16, <2>1, <2>2, Ended DEF Write
  <2>3. CASE n # 0
    <3>1. job'[p].pc = "write" /\ job'[p].target = job[p].target
          /\ job'[p].written = job[p].written + n
      BY <1>1, <1>16, <2>1, <2>3 DEF Write, Jobs
    <3>2. n \in Nat /\ n > 0
      BY <2>3, BytesAssumption
    <3> QED  BY <1>1, <2>1, <3>1, <3>2, WhatIsLeft, WhatIsLeftNext
  <2> QED  BY <2>2, <2>3
<1> QED  BY <1>5, <1>6, <1>7, <1>8, <1>9, <1>10, <1>11, <1>12, <1>13, <1>14, <1>15, <1>16
         DEF Step

\* A job that a step leaves as it is, or ends, has no more left than before.
LEMMA NoMoreLeft ==
    ASSUME TypeOK, TypeOK', NEW q \in Procs, job'[q] = job[q] \/ job'[q].pc = "idle"
    PROVE  Left(q)' <= Left(q)
<1>1. CASE job'[q] = job[q]
  <2>1. Left(q)' = Left(q)
    BY <1>1 DEF Left
  <2> QED  BY <2>1, WhatIsLeft
<1>2. CASE job'[q].pc = "idle"
  BY <1>2, WhatIsLeft, WhatIsLeftNext
<1> QED  BY <1>1, <1>2

LEMMA RunsEndStep ==
    IInv /\ TypeOK' /\ [Next]_vars =>
        \A p \in Procs : /\ job[p].pc # "idle" => Left(p)' <= Left(p)
                         /\ Step(p) => Left(p)' < Left(p)
<1> SUFFICES ASSUME IInv, TypeOK', [Next]_vars, NEW q \in Procs, job[q].pc # "idle"
             PROVE Left(q)' <= Left(q)
  <2>1. \A q \in Procs : IInv /\ TypeOK' /\ Step(q) => Left(q)' < Left(q)
    BY StepLeavesFewer
  <2> QED  BY <2>1
<1>1. TypeOK /\ job \in [Procs -> Jobs]
  BY DEF IInv, TypeOK, Jobs
<1>2. ASSUME NEW p \in Procs, Begin(p) PROVE Left(q)' <= Left(q)
  BY <1>1, <1>2, Begun, NoMoreLeft
<1>3. ASSUME NEW p \in Procs, Step(p) PROVE Left(q)' <= Left(q)
  <2>1. CASE p = q
    <3>1. Left(q)' < Left(q)
      BY <1>3, <2>1, StepLeavesFewer
    <3> QED  BY <1>1, <3>1, WhatIsLeft, WhatIsLeftNext
  <2>2. CASE p # q
    <3>1. job'[q] = job[q]
      BY <1>1, <1>3, <2>2, Frame
    <3> QED  BY <1>1, <3>1, NoMoreLeft
  <2> QED  BY <2>1, <2>2
<1>4. ASSUME NEW p \in Procs, Kill(p) PROVE Left(q)' <= Left(q)
  <2>1. "killed" \in Verdicts
    BY DEF Verdicts
  <2>2. job'[p].pc = "idle" /\ (q # p => job'[q] = job[q])
    BY <1>1, <1>4, <2>1, Leaving DEF Kill
  <2> QED  BY <1>1, <2>2, NoMoreLeft
<1>5. CASE PowerFailure
  <2>1. job'[q].pc = "idle"
    BY <1>5 DEF PowerFailure, NoJob
  <2> QED  BY <1>1, <2>1, NoMoreLeft
<1>6. CASE Remove \/ UNCHANGED vars
  <2>1. job'[q] = job[q]
    BY <1>6 DEF Remove, vars
  <2> QED  BY <1>1, <2>1, NoMoreLeft
<1> QED  BY <1>2, <1>3, <1>4, <1>5, <1>6 DEF Next

\* A run takes a number of steps that is bounded by its target: each of its
\* steps leaves fewer to take, a short write also, and nobody else adds any.
THEOREM PrefillsGoForward ==
    Spec => /\ RunsComeToAnEnd
            /\ [](\A p \in Procs :
                    Left(p) \in 0 .. ULL + 11 /\ (Left(p) = 0 <=> job[p].pc = "idle"))
<1>1. IInv /\ IInv' /\ [Next]_vars =>
        [\A p \in Procs : /\ job[p].pc # "idle" => Left(p)' <= Left(p)
                          /\ Step(p) => Left(p)' < Left(p)]_vars
  BY RunsEndStep DEF IInv
<1>2. IInv => \A p \in Procs :
                  Left(p) \in 0 .. ULL + 11 /\ (Left(p) = 0 <=> job[p].pc = "idle")
  BY WhatIsLeft, ULLAssumption DEF IInv
<1> QED  BY <1>1, <1>2, PrefillInvariance, PTL DEF Spec, RunsComeToAnEnd

\* Nobody gives a verdict on a run before it ends, and "noroom" comes from one
\* line of the script.
LEMMA VerdictStep ==
    ASSUME TypeOK, [Next]_vars, \A q \in Procs : job[q].pc # "idle" => job[q].verdict = "none",
           NEW p \in Procs
    PROVE  /\ job'[p].pc # "idle" => job'[p].verdict = "none"
           /\ job[p].pc = "room" /\ job'[p].verdict = "noroom" =>
               ~(job[p].free >= Signed(job[p].bytes + Reserve))
<1> DEFINE Goal == /\ job'[p].pc # "idle" => job'[p].verdict = "none"
                   /\ job[p].pc = "room" /\ job'[p].verdict = "noroom" =>
                       ~(job[p].free >= Signed(job[p].bytes + Reserve))
<1>1. job \in [Procs -> Jobs] /\ (job[p].pc # "idle" => job[p].verdict = "none")
  BY DEF TypeOK, Jobs
<1>2. ASSUME job'[p] = job[p] PROVE Goal
  BY <1>1, <1>2
<1>3. ASSUME NEW how \in Verdicts \ {"noroom"}, Leave(p, how) PROVE Goal
  <2>1. job'[p].pc = "idle" /\ job'[p].verdict = how
    BY <1>1, <1>3 DEF Leave, NoJob, Jobs
  <2> QED  BY <2>1
<1>4. ASSUME NEW pc \in Positions, Goto(p, pc), job[p].pc # "idle" PROVE Goal
  BY <1>1, <1>4 DEF Goto, Jobs
<1>5. {"refused", "exists", "failed", "badsize", "ok", "killed"} \subseteq Verdicts \ {"noroom"}
  BY DEF Verdicts
<1>6. {"exists", "preflight", "build", "parse", "allocate", "report"} \subseteq Positions
  BY DEF Positions
<1>7. ASSUME Begin(p) PROVE Goal
  BY <1>1, <1>7 DEF Begin, NoJob, Jobs
<1>8. ASSUME TestExists(p) PROVE Goal
  BY <1>3, <1>4, <1>5, <1>6, <1>8 DEF TestExists
<1>9. ASSUME Df(p) PROVE Goal
  BY <1>1, <1>9 DEF Df, Jobs
<1>10. ASSUME TestRoom(p) PROVE Goal
  <2>1. job[p].pc = "room"
    BY <1>10 DEF TestRoom
  <2>2. CASE job[p].free >= Signed(job[p].bytes + Reserve)
    <3>1. Goto(p, "build")
      BY <1>10, <2>2 DEF TestRoom
    <3> QED  BY <1>4, <1>6, <2>1, <3>1
  <2>3. CASE ~(job[p].free >= Signed(job[p].bytes + Reserve))
    <3>1. Leave(p, "noroom")
      BY <1>10, <2>3 DEF TestRoom
    <3>2. job'[p].pc = "idle"
      BY <1>1, <3>1 DEF Leave, NoJob
    <3> QED  BY <2>3, <3>2
  <2> QED  BY <2>2, <2>3
<1>11. ASSUME Parse(p) PROVE Goal
  <2>1. CASE Leave(p, "badsize")
    BY <1>3, <1>5, <2>1
  <2>2. CASE ~Leave(p, "badsize")
    BY <1>1, <1>11, <2>2 DEF Parse, Jobs
  <2> QED  BY <2>1, <2>2
<1>12. ASSUME Report(p) PROVE Goal
  BY <1>3, <1>5, <1>12 DEF Report
<1>13. ASSUME NEW ok \in BOOLEAN,
              Guards(p, ok) \/ Build(p, ok) \/ Create(p, ok) \/ Sync(p, ok)
       PROVE  Goal
  <2>1. \/ Leave(p, "refused") \/ Leave(p, "failed")
        \/ job[p].pc # "idle" /\ (\/ Goto(p, "exists") \/ Goto(p, "parse")
                                 \/ Goto(p, "allocate") \/ Goto(p, "report"))
    BY <1>13 DEF Guards, Build, Create, Sync
  <2> QED  BY <1>3, <1>4, <1>5, <1>6, <2>1
<1>14. ASSUME NEW ok \in BOOLEAN, Preflight(p, ok) PROVE Goal
  <2>1. CASE Leave(p, "refused")
    BY <1>3, <1>5, <2>1
  <2>2. CASE ~Leave(p, "refused")
    BY <1>1, <1>14, <2>2 DEF Preflight, Jobs
  <2> QED  BY <2>1, <2>2
<1>15. ASSUME NEW ok \in BOOLEAN, Allocate(p, ok) PROVE Goal
  <2>1. CASE Leave(p, "failed")
    BY <1>3, <1>5, <2>1
  <2>2. CASE ~Leave(p, "failed")
    BY <1>1, <1>15, <2>2 DEF Allocate, Jobs
  <2> QED  BY <2>1, <2>2
<1>16. ASSUME NEW n \in 0 .. Buffer, Write(p, n) PROVE Goal
  <2>1. CASE Leave(p, "failed")
    BY <1>3, <1>5, <2>1
  <2>2. CASE ~Leave(p, "failed")
    BY <1>1, <1>16, <2>2 DEF Write, Jobs
  <2> QED  BY <2>1, <2>2
<1>17. ASSUME Kill(p) PROVE Goal
  BY <1>3, <1>5, <1>17 DEF Kill
<1>18. ASSUME \E q \in Procs \ {p} : Begin(q) \/ Step(q) \/ Kill(q) PROVE Goal
  <2>1. PICK q \in Procs \ {p} : Begin(q) \/ Step(q) \/ Kill(q)
    BY <1>18
  <2>2. job'[p] = job[p]
    BY <2>1, Begun, Frame
  <2> QED  BY <1>2, <2>2
<1>19. ASSUME PowerFailure PROVE Goal
  <2>1. job'[p] = job[p] \/ job'[p] = [NoJob EXCEPT !.verdict = "killed"]
    BY <1>19 DEF PowerFailure
  <2> QED  BY <1>2, <2>1 DEF NoJob
<1>20. ASSUME Remove \/ UNCHANGED vars PROVE Goal
  BY <1>2, <1>20 DEF Remove, vars
<1> HIDE DEF Goal
<1>21. ASSUME Step(p) PROVE Goal
  BY <1>8, <1>9, <1>10, <1>11, <1>12, <1>13, <1>14, <1>15, <1>16, <1>21 DEF Step
<1> QED
  <2>1. Goal
    BY <1>7, <1>17, <1>18, <1>19, <1>20, <1>21 DEF Next
  <2> QED  BY <2>1 DEF Goal

\* With sizes as the documentation writes them, "Prefill would leave less
\* than ... GiB free." is only printed when it would.
THEOREM PlainRefusalsAreRight ==
    ASSUME ViaScript, NoWrap, \A s \in Asked : Numfmt(s) => Plain(s)
    PROVE  Spec => RefusalIsRight
<1> DEFINE Unjudged == \A p \in Procs : job[p].pc # "idle" => job[p].verdict = "none"
<1>1. ASSUME IInv, NEW p \in Procs, job[p].pc = "room",
             ~(job[p].free >= Signed(job[p].bytes + Reserve))
      PROVE  job[p].free - ParseSize(job[p].asked) < Reserve
  <2>1. job[p].asked \in Asked /\ job[p].asked \in Sizes /\ job[p].free \in Nat
    BY <1>1, AskedAssumption, BytesAssumption DEF IInv, TypeOK
  <2>2. Numfmt(job[p].asked) /\ job[p].bytes = IecBytes(job[p].asked)
    BY <1>1 DEF IInv, CheckedInv
  <2>3. job[p].bytes \in Nat /\ job[p].bytes + Reserve < ULL \div 2
        /\ ParseSize(job[p].asked) = job[p].bytes
    BY <2>1, <2>2, IecRange, PlainAgrees DEF NoWrap
  <2>4. Reserve \in Nat /\ Signed(job[p].bytes + Reserve) = job[p].bytes + Reserve
    BY <2>3, SignedSmall, BytesAssumption
  <2> QED  BY <1>1, <2>1, <2>3, <2>4
<1>2. Init => Unjudged
  BY DEF Init, NoJob
<1>3. IInv /\ Unjudged /\ [Next]_vars =>
        /\ Unjudged'
        /\ [\A p \in Procs :
              job[p].pc = "room" /\ job'[p].verdict = "noroom" =>
                job[p].free - ParseSize(job[p].asked) < Reserve]_vars
  BY <1>1, VerdictStep DEF IInv
<1> QED  BY <1>2, <1>3, PrefillInvariance, PTL DEF Spec, RefusalIsRight
==============================================================================
