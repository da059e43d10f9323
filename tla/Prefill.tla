------------------------------- MODULE Prefill -------------------------------
(***************************************************************************)
(* ae/prefill.sh and the program it runs, src/prefill/fill.cpp: runs one   *)
(* after another or at the same time, all with the same OUTPUT.  Any call  *)
(* may fail, any write may be short, a run may be killed, the power may    *)
(* fail, and somebody may remove the file that no run is writing.          *)
(***************************************************************************)
EXTENDS PrefillSize

CONSTANTS Procs,     \* processes that run the script
          Asked,     \* values of FDP_PREFILL_SIZE
          ViaScript, \* FALSE: fill is started by hand, without prefill.sh
          Capacity,  \* the bytes that are free without the prefill file
          Reserve,   \* POST_FREE_BYTES
          Align,     \* 4096
          Buffer,    \* kBufferSize
          MaxRuns    \* bound on the number of runs

ASSUME ProcsAssumption == Procs # {} /\ ViaScript \in BOOLEAN
ASSUME AskedAssumption == Asked # {} /\ Asked \subseteq Sizes
ASSUME BytesAssumption ==
    Capacity \in Nat /\ Reserve \in Nat /\ Align \in Nat \ {0} /\ Buffer \in Nat \ {0}
ASSUME MaxRunsAssumption == MaxRuns \in Nat

VARIABLES job,    \* what each process has in its variables, and where it is
          file,   \* the prefill file: who made it for which size, what is in it
          runs,   \* the number of runs begun; the last one's identity
          done    \* history: the runs that ended well

vars == <<job, file, runs, done>>

NoFile == [run |-> 0, size |-> 0, synced |-> 0, target |-> 0]
NoJob == [pc |-> "idle", run |-> 0, asked |-> CHOOSE s \in Asked : TRUE, bytes |-> 0,
          free |-> 0, target |-> 0, written |-> 0, verdict |-> "none"]

\* Go on to pc; leave with a verdict, which is all that is left of a run.
Goto(p, pc) == job' = [job EXCEPT ![p].pc = pc]
Leave(p, how) == job' = [job EXCEPT ![p] = [NoJob EXCEPT !.verdict = how]]

------------------------------------------------------------------------------
Init ==
    /\ job = [p \in Procs |-> NoJob] /\ file = NoFile
    /\ runs = 0 /\ done = {}

Begin(p) ==
    /\ job[p].pc = "idle" /\ runs < MaxRuns
    /\ runs' = runs + 1
    /\ \E size \in Asked :
        job' = [job EXCEPT ![p] =
                   [NoJob EXCEPT !.pc = IF ViaScript THEN "guards" ELSE "parse",
                                 !.run = runs + 1, !.asked = size]]
    /\ UNCHANGED <<file, done>>

\* The confirmation, the mount point and the path.
Guards(p, ok) ==
    /\ job[p].pc = "guards"
    /\ IF ok THEN Goto(p, "exists") ELSE Leave(p, "refused")
    /\ UNCHANGED <<file, runs, done>>

\* test ! -e "${OUTPUT}"
TestExists(p) ==
    /\ job[p].pc = "exists"
    /\ IF file = NoFile THEN Goto(p, "preflight") ELSE Leave(p, "exists")
    /\ UNCHANGED <<file, runs, done>>

\* preflight.sh, with no free space required, then numfmt.
Preflight(p, ok) ==
    /\ job[p].pc = "preflight"
    /\ IF ok /\ Numfmt(job[p].asked)
       THEN job' = [job EXCEPT ![p].pc = "df", ![p].bytes = IecBytes(job[p].asked)]
       ELSE Leave(p, "refused")
    /\ UNCHANGED <<file, runs, done>>

Df(p) ==
    /\ job[p].pc = "df"
    /\ job' = [job EXCEPT ![p].pc = "room", ![p].free = Capacity - file.size]
    /\ UNCHANGED <<file, runs, done>>

\* Mutant of TestRoom: the reserve is forgotten.
TestRoomOnly(p) ==
    /\ job[p].pc = "room"
    /\ IF job[p].free >= Signed(job[p].bytes) THEN Goto(p, "build") ELSE Leave(p, "noroom")
    /\ UNCHANGED <<file, runs, done>>

\* test "${FREE_BYTES}" -ge "$((PREFILL_BYTES + POST_FREE_BYTES))"
TestRoom(p) ==
    /\ job[p].pc = "room"
    /\ IF job[p].free >= Signed(job[p].bytes + Reserve)
       THEN Goto(p, "build") ELSE Leave(p, "noroom")
    /\ UNCHANGED <<file, runs, done>>

\* The compiler may fail; fill is started with the text of the size.
Build(p, ok) ==
    /\ job[p].pc = "build"
    /\ IF ok THEN Goto(p, "parse") ELSE Leave(p, "failed")
    /\ UNCHANGED <<file, runs, done>>

Parse(p) ==
    /\ job[p].pc = "parse"
    /\ LET target == ParseSize(job[p].asked) IN
        IF target = 0 \/ target % Align # 0
        THEN Leave(p, "badsize")
        ELSE job' = [job EXCEPT ![p].pc = "create", ![p].target = target]
    /\ UNCHANGED <<file, runs, done>>

\* Mutant of Create: O_TRUNC instead of O_EXCL.
CreateTruncates(p, ok) ==
    /\ job[p].pc = "create"
    /\ IF ok THEN /\ file' = [NoFile EXCEPT !.run = job[p].run, !.target = job[p].target]
                  /\ Goto(p, "allocate")
             ELSE UNCHANGED file /\ Leave(p, "failed")
    /\ UNCHANGED <<runs, done>>

\* open with O_CREAT | O_EXCL
Create(p, ok) ==
    /\ job[p].pc = "create"
    /\ IF ok /\ file = NoFile
       THEN /\ file' = [NoFile EXCEPT !.run = job[p].run, !.target = job[p].target]
            /\ Goto(p, "allocate")
       ELSE UNCHANGED file /\ Leave(p, "failed")
    /\ UNCHANGED <<runs, done>>

\* The file is unlinked when there is no memory for the buffer.
Allocate(p, ok) ==
    /\ job[p].pc = "allocate"
    /\ IF ok THEN UNCHANGED file /\ job' = [job EXCEPT ![p].pc = "write", ![p].written = 0]
             ELSE file' = NoFile /\ Leave(p, "failed")
    /\ UNCHANGED <<runs, done>>

\* Mutant of Chunk: the last write is as long as the others.
WholeBuffer(p) == Buffer
Chunk(p) ==
    IF Buffer < job[p].target - job[p].written THEN Buffer
    ELSE job[p].target - job[p].written

Written(p, n) ==
    file' = [file EXCEPT !.size = IF @ < job[p].written + n THEN job[p].written + n ELSE @]

\* Mutant of Write: each write is counted from zero.
WriteAssigns(p, n) ==
    /\ job[p].pc = "write" /\ job[p].written < job[p].target
    /\ n <= Chunk(p) /\ n <= Capacity - file.size
    /\ IF n = 0 THEN UNCHANGED file /\ Leave(p, "failed")
       ELSE Written(p, n) /\ job' = [job EXCEPT ![p].written = n]
    /\ UNCHANGED <<runs, done>>

\* One turn of the loop: n bytes are written, 0 for a write that fails.
Write(p, n) ==
    /\ job[p].pc = "write" /\ job[p].written < job[p].target
    /\ n <= Chunk(p) /\ n <= Capacity - file.size
    /\ IF n = 0 THEN UNCHANGED file /\ Leave(p, "failed")
       ELSE Written(p, n) /\ job' = [job EXCEPT ![p].written = @ + n]
    /\ UNCHANGED <<runs, done>>

\* Mutant of Sync: the result of fsync is not looked at.
SyncUnchecked(p, ok) ==
    /\ job[p].pc = "write" /\ job[p].written >= job[p].target
    /\ IF ok THEN file' = [file EXCEPT !.synced = file.size] ELSE UNCHANGED file
    /\ Goto(p, "report")
    /\ UNCHANGED <<runs, done>>
Sync(p, ok) ==
    /\ job[p].pc = "write" /\ job[p].written >= job[p].target
    /\ IF ok THEN file' = [file EXCEPT !.synced = file.size] /\ Goto(p, "report")
             ELSE UNCHANGED file /\ Leave(p, "failed")
    /\ UNCHANGED <<runs, done>>

\* The last lines of fill and of the script.
Report(p) ==
    /\ job[p].pc = "report"
    /\ Leave(p, "ok") /\ done' = done \cup {job[p].run}
    /\ UNCHANGED <<file, runs>>

Kill(p) ==
    /\ job[p].pc # "idle"
    /\ Leave(p, "killed")
    /\ UNCHANGED <<file, runs, done>>

\* What was not synced may be lost, an empty file with its name.
PowerFailure ==
    /\ job' = [p \in Procs |-> IF job[p].pc = "idle" THEN job[p]
                               ELSE [NoJob EXCEPT !.verdict = "killed"]]
    /\ \/ \E n \in file.synced .. file.size : file' = [file EXCEPT !.size = n]
       \/ file.synced = 0 /\ file' = NoFile
    /\ UNCHANGED <<runs, done>>

\* Somebody removes the file by hand, when its run has ended.
Remove ==
    /\ file # NoFile
    /\ \A p \in Procs : job[p].pc # "idle" => job[p].run # file.run
    /\ file' = NoFile
    /\ UNCHANGED <<job, runs, done>>

Step(p) ==
    \/ TestExists(p) \/ Df(p) \/ TestRoom(p) \/ Parse(p) \/ Report(p)
    \/ \E ok \in BOOLEAN : \/ Guards(p, ok) \/ Preflight(p, ok) \/ Build(p, ok)
                           \/ Create(p, ok) \/ Allocate(p, ok) \/ Sync(p, ok)
    \/ \E n \in 0 .. Buffer : Write(p, n)

Next ==
    \/ \E p \in Procs : Begin(p) \/ Step(p) \/ Kill(p)
    \/ PowerFailure \/ Remove

Spec == Init /\ [][Next]_vars

\* A process that can run eventually does: no call blocks for ever.
FairSpec == Spec /\ \A p \in Procs : WF_vars(Step(p))

------------------------------------------------------------------------------
\* Properties.

Positions == {"idle", "guards", "exists", "preflight", "df", "room", "build", "parse",
              "create", "allocate", "write", "report"}
Verdicts == {"none", "ok", "refused", "exists", "noroom", "badsize", "failed", "killed"}

TypeOK ==
    /\ job \in [Procs -> [pc : Positions, run : 0 .. MaxRuns, asked : Asked,
                          bytes : Nat, free : 0 .. Capacity, target : 0 .. ULL - 1,
                          written : Nat, verdict : Verdicts]]
    /\ \A p \in Procs : job[p].written <= job[p].target
    /\ file \in [run : 0 .. MaxRuns, size : 0 .. Capacity, synced : Nat,
                 target : 0 .. ULL - 1]
    /\ runs \in 0 .. MaxRuns /\ done \subseteq 1 .. runs

\* The file of a run that ended well is whole and on the device, whatever
\* later runs, kills and power failures do.
CompletedIsWhole ==
    file.run \in done => file.size = file.target /\ file.synced = file.target

\* With a size as the documentation writes it, the file of a run that ends
\* well has the bytes that the script computed and checked.
PlainIsExact ==
    \A p \in Procs :
        job[p].pc = "report" /\ ViaScript /\ Plain(job[p].asked) =>
            file.size = job[p].bytes

\* docs/SAFETY.md: the script "checks that the requested prefill leaves the
\* configured free-space reserve": no file of it, whole or not, takes of it.
ReserveKept == file # NoFile /\ ViaScript => Capacity - file.size >= Reserve

\* "Prefill would leave less than ... GiB free." is only printed when the
\* prefill that would follow does.  True of sizes that numfmt and fill read alike,
\* not of one with a fraction, which counts for numfmt alone.
RefusalIsRight ==
    [][\A p \in Procs :
        job[p].pc = "room" /\ job'[p].verdict = "noroom" =>
            job[p].free - ParseSize(job[p].asked) < Reserve]_vars

\* A run comes to its end, whatever fails.
Ends == \A p \in Procs : job[p].pc # "idle" ~> job[p].pc = "idle"

\* The file behaves as PrefillFile says: nobody but its run changes it.
File == INSTANCE PrefillFile WITH
    owner <- file.run, size <- file.size,
    whole <- file.run # 0 /\ file.synced = file.target, accepted <- done

ImplementsPrefillFile == File!Spec
------------------------------------------------------------------------------
\* The inductive invariant.

Owner(p) == job[p].pc \in {"allocate", "write", "report"}
AfterRoom(p) == job[p].pc \in {"build", "parse", "create"} \/ Owner(p)

\* The runs in progress are distinct, and none of them has ended well.
IdentityInv ==
    /\ \A p \in Procs : job[p].pc # "idle" => job[p].run \in 1 .. runs /\ job[p].run \notin done
    /\ \A p, q \in Procs :
        job[p].pc # "idle" /\ job[q].pc # "idle" /\ job[p].run = job[q].run => p = q

\* Between its creation and its end, a run and the file agree.
OwnerInv ==
    \A p \in Procs : Owner(p) =>
        /\ file.run = job[p].run /\ file.target = job[p].target
        /\ file.size = job[p].written
        /\ job[p].pc = "report" => file.size = file.target /\ file.synced = file.target
        /\ job[p].pc # "report" => file.synced = 0
        /\ job[p].pc = "allocate" => file.size = 0

FileInv ==
    /\ file.run = 0 => file = NoFile
    /\ file.run # 0 => file.target > 0 /\ file.run <= runs
    /\ file.synced \in {0, file.target}
    /\ file.synced <= file.size /\ file.size <= file.target
    /\ CompletedIsWhole

\* What was computed and checked for the run.
CheckedInv ==
    \A p \in Procs :
        /\ ~Owner(p) => job[p].written = 0
        /\ job[p].pc = "create" \/ Owner(p) =>
            job[p].target = ParseSize(job[p].asked) /\ job[p].target > 0
        /\ ViaScript /\ (job[p].pc \in {"df", "room"} \/ AfterRoom(p)) =>
            Numfmt(job[p].asked) /\ job[p].bytes = IecBytes(job[p].asked)
        /\ ViaScript /\ AfterRoom(p) => Signed(job[p].bytes + Reserve) <= Capacity

\* No size that numfmt prints wraps the arithmetic of the shell.
NoWrap == \A s \in Asked : Numfmt(s) => IecBytes(s) + Reserve < ULL \div 2

RoomInv == ViaScript /\ NoWrap /\ file # NoFile => file.target + Reserve <= Capacity

\* Each part is preserved with the others only.
IInv == TypeOK /\ IdentityInv /\ OwnerInv /\ FileInv /\ CheckedInv /\ RoomInv
------------------------------------------------------------------------------
\* Why a run ends: it only goes forward, and each write leaves less to write.

StepsAfter == [idle |-> 0, report |-> 1, write |-> 2, allocate |-> 3, create |-> 4,
               parse |-> 5, build |-> 6, room |-> 7, df |-> 8, preflight |-> 9,
               exists |-> 10, guards |-> 11]

\* The steps that a run can still take, at most; no target is above ULL.
Left(p) ==
    StepsAfter[job[p].pc] +
        (IF job[p].pc \in {"idle", "report"} THEN 0
         ELSE IF job[p].pc = "write" THEN job[p].target - job[p].written
         ELSE ULL)

\* Each step of a run leaves fewer, a short write also, and nothing that the
\* other processes, a kill or a power failure do gives it more.
RunsComeToAnEnd ==
    [][\A p \in Procs :
        /\ job[p].pc # "idle" => Left(p)' <= Left(p)
        /\ Step(p) => Left(p)' < Left(p)]_vars
==============================================================================
