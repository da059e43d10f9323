# FDP-rocks: TLA+ models, checks and proofs

FDP-rocks is the artifact of an experiment with RocksDB on flexible-data-placement
SSDs: a write benchmark in C++, a prefill tool, shell scripts that run the
experiments on a device, and Python scripts that turn logs into figures. The
modified RocksDB itself is fetched at build time and is not in this repository.
This directory models the benchmark driver, `src/benchmark/rocksdb_bench.cpp`,
which holds the concurrency of the artifact; the prefill tool,
`src/prefill/fill.cpp`, with the script that guards it; the script
`ae/run_two_phase.sh` that runs the benchmark and decides whether a run counts;
and the sweep `ae/run_figure6.sh` that strings such runs together into a figure.
It checks the models with TLC and proves the main results about each of them with
TLAPS.

Paths below are relative to the repository (`src/benchmark/...`, `ae/...`,
`scripts/...`); line numbers in `PROJECT.json` name the code each definition models.

## Inventory of the system

| Component | State it keeps | Operations | Hard part |
|---|---|---|---|
| Worker handshake: `RunBenchmark`, `ThreadBody`, `Stats` | `SharedState` (mutex, condition variable, two counters, `start`), a `ThreadState` per worker | spawn, register, open, pass, work, leave, merge, report, join, delete | one condition variable for three conditions; joins under the mutex; reads of statistics with no lock of their own; freeing after use |
| Write loop: `DoSimpleRandomWrite` | per-call counters, a `WriteBatch`; the database | put, write, report, flush, print the total | failed batches are dropped and the loop goes on; the log is all that tells |
| Key order store: `PrepareShuffledKeys`, `LoadKeysFromFile`, `SaveKeysToFile` | key order files, `shuffled_keys_` | load, regenerate, save | kills and short writes between runs; several workers or several flags on one file |
| Key generation: uniform, zipfian, hotspot | none | one function per distribution | ranges and remainders |
| Prefill: `fill.cpp`, `prefill.sh` | the prefill file | guard, parse, create, write, sync | partial file after a failure; two runs at once; one size read three ways |
| Two-phase wrapper: `run_two_phase.sh` | database directory, logs | erase, phase 1, phase 2, accept | no flush at the end of phase 1; acceptance by `grep` |
| Sweeps: `run_figure6.sh`, `run_gear.sh`, `sample_fdp_stats.sh` | results tree, a background sampler, the environment | run modes, extract thresholds, sample, make figures | sampler dying; logs and files of earlier sweeps; signal trap |
| Preflight: `preflight.sh` | none | guards | ancestry of block devices |
| Log analysis scripts | tables filled while a log is read | lifetimes, write amplification, timeline, throughput | lines out of order; files older than the log; stitching, baselines, units |
| Keys: `IndexKey`, `Slice`, `TransformKey` | heap or stack buffer | set, move, encode | ownership; byte order |
| Trace generators: `util.h`, `trace.h` | generator state | next key | not used by the benchmark |
| Build, packaging, plotting | none | tool invocations | none a model would show |
| Compaction picker, adaptive gear | in the RocksDB fork | | not in this repository |

How they interact. The shell wrapper starts the benchmark twice on one database,
with a key order file each time; the benchmark prepares the key orders, then
`RunBenchmark` starts one thread per worker, each of which runs the write loop on
its own order and shares only the database and `SharedState` with the others. The
wrapper and the analysis scripts see the benchmark only through its log: progress
lines, error lines, the total line of each worker and the report of throughput.
The key order files are shared state between runs, and through `--key_file_path`
also between workers and with files the user supplies. A sweep runs the wrapper
once per workload and mode beside a sampler of the device, hands the thresholds it
computes from a baseline's `rocksdb.LOG` to the next run through the environment,
and at the end reads the results directories of all. Prefill comes before all this
and shares only the free space of the device with it.

What makes each correct: the handshake starts nobody early, wakes everybody,
reads statistics only when they are final, frees nothing in use and returns; the
write loop accounts for every key, stored or lost, and its log tells the two
apart; the key order store gives each run the orders its flags describe whatever
happened before, and the orders together cover the key space; prefill never
overwrites, leaves the reserve free and calls only a whole file on the device
completed; the wrapper accepts a run exactly when both loads were complete; a
completed sweep is made of whole runs of its own, each model run with the
thresholds of its baseline, and its samples cover the runs it reports; the analysis
functions agree with their definitions on the log they are given.

## Modules

| Module | Models |
|---|---|
| `StartGate` | abstract run: assemble, open, work, stop, one report |
| `BenchmarkRun` | `RunBenchmark` and `ThreadBody`; implements `StartGate` |
| `BenchmarkRunProofs` | proofs about `BenchmarkRun` |
| `BulkLoad` | abstract load: groups of keys stored whole or lost, one honest total |
| `WriteLoop` | `DoSimpleRandomWrite` of several workers; implements `BulkLoad` |
| `WriteLoopProofs` | proofs about `WriteLoop` |
| `KeyOrderStore` | `PrepareShuffledKeys` over several runs of the program |
| `KeyOrderStoreProofs` | proofs about `KeyOrderStore` |
| `Acceptance` | abstract wrapper: files replaced in order, a run accepted when all are whole and its own |
| `TwoPhase` | `run_two_phase.sh` over several runs, with `BulkLoad` as the benchmark's load; implements `Acceptance` |
| `TwoPhaseProofs` | proofs about `TwoPhase` |
| `PrefillSize` | the three readings of a size: `numfmt`, the arithmetic of the shell, `ParseSize` |
| `PrefillFile` | abstract prefill: one file of one run, accepted when whole |
| `Prefill` | `prefill.sh` and `fill.cpp`, several runs at once and in a row; implements `PrefillFile` |
| `PrefillProofs` | proofs about `Prefill` |
| `Sweep` | `run_figure6.sh` and its sampler over several sweeps, with `Acceptance` as the wrapper |
| `SweepProofs` | proofs about `Sweep` |
| `Lifetimes` | `parse_log` of `extract_p25_thresholds.py`, reading the log of a database while it is written |
| `LifetimesProofs` | proofs about `Lifetimes` |
| `MCBenchmarkRun`, `MCWriteLoop`, `MCKeyOrderStore`, `MCTwoPhase`, `MCPrefill`, `MCSweep`, `MCLifetimes` | instances for TLC |

Two chains of composition run through them: `WriteLoop` implements `BulkLoad`, which
is the load inside `TwoPhase`; `TwoPhase` implements `Acceptance`, which is the
wrapper inside `Sweep`.

An operator that is commented "Mutant of X" is X with a plausible bug. It is not
part of any specification; substituting it for X must make TLC find one of the
properties violated, which shows that the property depends on that code. The
pairs are listed under "mutants" in `PROJECT.json`.

### BenchmarkRun

`mu`, `waiting`, `numInitialized`, `numDone`, `start` are `SharedState`: `mu` is
the holder of the mutex and `waiting` the threads inside `cv.wait`. `pcMain` and
`cursor` are the position of `RunBenchmark` and its loop variable, `pc` the
position of each `ThreadBody`, `stats` and `allocated` the `ThreadState` objects.
An action is what a thread does between two points where another thread can see
or change something: one critical section, one turn of a loop, one call. `MainWait`
and `WaitGate` release the mutex and block in one step, as `cv.wait` does, and a
thread taken out of `waiting` must take the mutex again (`MainLock`, `WorkerLock`)
and test its condition again. `SpuriousWakeup` takes any thread out of `waiting`.
The work of the method is reduced to what it does to the statistics:
`FinishBatch` adds one batch of the worker's share.

`SomebodyRuns` and `WindsDown`, at the end of the module, are why `RunBenchmark`
returns: `Blocked` says, by the guards, what a thread can wait for, and `ToDo` is the
set of places that the threads have not reached.

`Stats` keeps `done_`, `start_` and `finish_`, what `Merge` and `Report` read for
the printed result. `Merge` also sums `seconds_`, which nothing reads.

### WriteLoop

`call` holds the local variables of each worker's call: `ind` and `j` of the
loops, the size `wb` of the `WriteBatch`, the status `ok` of the last write,
`success_count`, `last_success_count` and the operations handed to
`FinishedBatchOp`. A key is its position in the worker's order, so that every key
of a worker is distinct. `db` is the set of keys the database accepted: a write
is accepted whole or fails, and any write may fail, which covers a full device.
`progress`, `errors` and `total` are the log lines the rest of the artifact reads.
`Put` is a key that leaves the batch unfilled, `PutLast` the one that fills it, and
`WriteBatch` and `ReportBatch` are the two halves of the block the full batch
runs, split where the thread sleeps. `late` is the answer of the five-second
check, taken freely. `Left` bounds the steps that a call has still to take.

### KeyOrderStore

`files` maps each path to what is in the file: the order it came from, the number
of whole keys and whether a cut key follows them. An order is a function of the
flags and the worker, because every generator is seeded with a constant, so an
order is known by the name the flags give it (`AutoPath`). The two loops of
`PrepareShuffledKeys` are `Load`, and `KeepLoaded` or `Generate` followed by
`OpenFails`, or `OpenFile` and `WriteFile`. `OpenFile` empties the file at once, as
`std::ofstream` does. `WriteFile` leaves any prefix of the keys; with fewer than
all it is a save that failed. `Crash` ends the process between any two steps, and
after a short `WriteFile` it is a kill in the middle of a save. Loads may fail
for one run without the file being touched. A crash here is the death of the
process, not a loss of power: what was written is in the file afterwards.

`FitsUser`, `ReadableSpec` and `OneDirectSize` are the conditions under which
`--key_file_path` does what its help says; the two violation runs break them.

### TwoPhase

`pc`, `mode`, `phase` and `run` are where the script is; `verdict` is how the last
run ended, by the exit status and, for a failure, by the line that raised it. `db`
is what the database accepted, `dbLog` who wrote the `LOG` in it, `logs` and `saved`
the results directory of each mode: what the tests look for in the log of each
phase (counts of total lines, error lines, and which run wrote them), and the copy
`rocksdb.LOG`. `complete` is history: the runs that stored everything.

An action is a command or a group of commands with one outcome. Its argument `ok`
says whether the commands succeeded; under `set -e` and `pipefail` a failure leaves
the script at once, with the files as they are. `Kill` can come at any point. The
load inside the pipeline is `BulkLoad`, whose steps `Try` and `Announce` join with
the lines they leave in the log; that the write loop implements `BulkLoad` is
checked and its safety part proved, so the two models compose. `PipelineEnds(FALSE)`
is a benchmark that was killed or a `tee` that could not write. Each mode has an
`OUTPUT_DIR` of its own, as in `docs/FULL_EXPERIMENTS.md` and in the sweeps; the
script's default is one directory for all.

The two tests of the log overlap: a lost group lowers the total of its worker, so
in this model the test for error lines never fires after the test of the total.
Dropping either test alone breaks no property here.

`Stage` and `KeysLeft` say how far a run is from its end; `NeverAccepted` is what
becomes of the wrapper when there are several workers.

### Prefill

`job` holds what each process that runs the script has in its variables: the text
of the size (`asked`), the bytes `numfmt` made of it (`bytes`), the free space it was
told (`free`), and, of `fill`, `target` and `written`. `file` is the one file that all
of them name: who made it, for which size, how much of it there is and how much has
been synced. `done` is history: the runs that ended well.

The actions are the commands of the script and the system calls of `fill`, in
their order; those that may fail take `ok`. `Write` takes any number of bytes up to
the chunk and to the space left, and none for a write that fails. `Kill` leaves the
file as it is. `PowerFailure` takes back any of the bytes that were not synced, and
an empty file altogether. `Remove` is somebody deleting the file by hand, as the
refusal "Prefill file already exists" asks for; only of a run that has ended.

A size is a record of what the three readings tell apart in the text: sign, digits
before the point, a point, the first digit after it, the unit. `IecBytes` and
`Numfmt` are `numfmt --from=iec`, `Signed` the arithmetic of the shell, `ParseSize`
that of `fill.cpp`, with the product in 64 bits as the code has it. `numfmt`, `df`,
`readlink` and the compiler are external. `Left` bounds the steps that a run has still
to take.

### Sweep

`pc`, `selected`, `at` and `mode` are where the script is. `current`, `run`, `files`
and `verdict` are the wrapper's, as in `Acceptance`, with one results directory for
each workload and mode. A file is known by the run that wrote it and by whether it
is whole. `p25` and `thresholds` are the file `p25.txt` and the environment variable,
each known by the baseline run whose LOG it was made from; `stats` is
`fdp_stats.log`, which is never emptied: how many samples with counters it has, and
the sweep that took the last of them. `throughput` and `dlwa` are the figures, known by
the runs they were made from. `used` and `covered` are history. `Left` bounds the commands
that a sweep has still to run; `Calm` are the steps of a sweep in which each `nvme`
beside a run prints counters and no signal is survived.

`Run` is any step of the wrapper. `StopSampler`, `FinalSample`, `Grep` and `Status` are
what `run_mode` does after it, in the code's order. `Sample` and `SamplerDies` are the
background process, `Trap` its end by the handler of INT and TERM, which runs
between two commands and lets the script go on, `Kill` the end of everything.
An `nvme` that exits with 0 need not print the counters: `Answers` are the three things
it can do. It fails, which ends the sampler or the sweep; it prints something without
counters, which adds nothing that a reader of the log could find; or it prints them.
So `Grep` can fail, and can pass on what an earlier sweep left. A sample has all the
counters or none: `grep` looks for one of them and `results_to_wa_csv.py` for two, and
an output with only one of the two is left out. Samples are counted up to what a test
can tell apart: one for the `grep`, two for `results_to_wa_csv.py`. A run is `covered`
if the sampler got counters from its beginning to its end. A command that fails may
leave its output file empty or as it was.

### Lifetimes

`created`, `deleted`, `moved`, `move_destination` and `final_time` are the variables of
`parse_log`, and `ParseMove`, `ParseCreation`, `ParseDeletion` and `ParseOther` its
branches for one line; `Read` is the part before them, and `Samples` its second loop.
`where`, `born`, `died`, `moves` and `last` are what happens in the database, which is
external: it is known here by the lines the script looks for. An event and its line are
two steps, with the line in `pending` between them, since several threads write the log.
The log is read as it is written, which gives the tables that reading it afterwards
would give. A move may be a text line, an event or both, as the script knows both forms.
`use_move_destination` is the flag `--trivial-dest-level`. Lines that no pattern matches
are left out, and so is `numpy`'s percentile.

## Runs

| Run | Instance | Shows |
|---|---|---|
| `BenchmarkHandshake` | 3 workers, 4 keys, batches of 2, 2 spurious wakeups, a clock of 3 readings | `TypeOK`, `GateHeld`, `NoLostWakeup`, `MergeAfterStop`, `LifetimeSafe`, `ReportedTotal`, `WindowCovers`, `Returns`, `ImplementsStartGate` |
| `WriteLoopTwo` | 2 workers with 9 and 4 keys, batches of 2, interval 4, 100 base keys | `TypeOK`, `SuccessIsStored`, `LossIsLogged`, `TotalIsHonest`, `ProgressExact`, `WarningIsSound`, `DoneCountsTries`, `Terminates`, `ImplementsBulkLoad` |
| `KeyOrderAuto` | 3 runs, any of 4 flag sets, generated names | `TypeOK`, `RightOrders`, `SavedForNextRun`, `CoversKeySpace` |
| `KeyOrderReduced` | 1 run of 2 keys, a user's file of 3 | violates `UserOrderUsed` |
| `KeyOrderShared` | 2 runs of 2 workers on one `--key_file_path` | violates `CoversKeySpace` |
| `TwoPhaseRuns` | 3 runs, 2 modes, 1 worker, phases of 2 and 3 keys, writes of at most 2 | `TypeOK`, `AcceptedIsLoaded`, `AcceptedIsTogether`, `SavedIsComplete`, `RejectionIsRight`, `ImplementsAcceptance` |
| `TwoPhaseWorkers` | 1 run, 2 workers | violates `RejectionIsRight` |
| `PrefillRuns` | 2 processes, 2 runs, sizes of 10 shapes, 13 bytes of space, 2 of reserve, a buffer of 4, alignment 2 | `TypeOK`, `CompletedIsWhole`, `PlainIsExact`, `ReserveKept`, `Ends`, `ImplementsPrefillFile` |
| `SweepRuns` | 2 sweeps of one workload or two, 6 runs of the wrapper, figures of write amplification for one | `TypeOK`, `CompletedIsOfThisSweep`, `ThresholdsMatch`, `CountersInLog`, `Ends` |
| `SweepSamples` | 1 sweep of one workload | violates `SamplesCoverRun` |
| `SweepCounters` | 2 sweeps of one workload | violates `CountersOfThisSweep` |
| `LifetimesOfTwo` | 2 files, 3 levels of which one is measured, 3 readings of the clock, 3 lines waiting | `SamplesAreLifetimes` |

Why the bounds are enough. With three workers and the main thread every order
of arrival, a worker that sleeps while two others do not, and a remainder of the
split occur; the proofs remove the bound for the safety properties. The clock can
stand still or move between any two readings, also between the two of one worker and
past those of another. In `WriteLoopTwo` one load ends with a full batch and the
other with a partial one, each write can fail, and the interval is crossed twice by
one worker and once by the other. In `KeyOrderAuto` the flag sets share file lengths
(so a wrong file could pass the length test), have an uneven split and a worker with
no key; three runs allow one to be killed, the next to repair and the third to reuse.
In `TwoPhaseRuns` the counts of the phases differ, so that a total line of one is none
of the other, and three runs let a mode succeed, another mode erase its database, and
the first fail over its own results. In `PrefillRuns` 64 bits are scaled to 8, a unit
to a factor of 2 and `numfmt`'s limit accordingly; the sizes include whole multiples
of the buffer and not, one that fits only without the reserve, one that no device
holds, one that only `numfmt` and one that only `fill` understands. Two runs are
what it takes to race for the name, and to retry after a failure. In `SweepRuns` two
sweeps let the second run over everything the first left, in whatever state, and a
sweep of two workloads shows one that mixes theirs; the cap on the samples loses
nothing, since no test tells more of them apart. In `LifetimesOfTwo` a file can be older
than the log, move into, out of and across the measured level, die or survive, and three
waiting lines let a move, a creation and a deletion of it be read in any order; files do
not interact but through the last time, for which two suffice.

Fairness. `BenchmarkRun!FairSpec` asks for weak fairness of the main thread and of
each worker: a thread that can run, or that contends for a mutex that stays free,
eventually does. This is what the scheduler of the operating system gives. It says
nothing about who gets a mutex that others keep taking, but every thread takes
it a bounded number of times, so weak fairness suffices. Spurious wakeups and the
clock are not fair: nothing forces them. Their number is bounded (`MaxSpurious`):
with unlimited ones a state graph would still satisfy `Returns` only under a
stronger assumption about the mutex. `WriteLoop!FairSpec` asks for weak fairness of
each worker's steps and nothing of the database, so that every write may fail.
`Prefill!FairSpec` asks for weak fairness of each process's steps, whose outcome is
free: no call blocks for ever, and a write that neither fails nor writes anything
does not occur. Kills, removals and new runs are not fair. `Sweep!FairSpec` asks for
weak fairness of the script's own steps and of the end of a run it waits for, which
is what `TwoPhase` and `Terminates` of the write loop give; the sampler is not fair.

### Disagreements with the documentation

* `KeyOrderReduced`: the help of `--key_file_path` says the file "will be used
  instead of auto-generated path". When its number of keys is not the one the run
  needs, the code does not use the file but generates an order, where the run shows
  the violation, and then saves that order to the path, over the user's file. The
  wrapper passes the file with independently configured counts, so the reduced runs of
  `docs/HARDWARE_SANITY.md` reach this, and a workload file that `verify_workloads.sh`
  had accepted is replaced. With a file that fits every run and can be read, the help
  is right (`UserOrdersAreUsed`).
* `KeyOrderShared`: `--num` is documented as the key space `[1, num]` that is
  written. With `--key_file_path` and two workers both use one file, and the second
  run loads the last worker's order twice. The driver is described as
  single-worker, but accepts the flags together. With one worker and one `--num` for
  the path the whole key space is written (`SharedKeySpaceIsCovered`).
* `TwoPhaseWorkers`: the wrapper ends a phase with "did not complete" when no line
  `Total <count> writes completed` is in the log. Each worker prints the total of
  its own share, so with `WORKER_THREADS=2` every phase ends so, complete or not.
  The setting of `ae/config.example.env` is 1, where the test is right
  (`RejectionsAreRight`). With more, and a key for each, no run can be accepted
  (`SeveralWorkersAreRefused`).
* `SweepSamples`: `docs/FULL_EXPERIMENTS.md` calls a run valid only when
  "device-statistics sampling covers the complete run when DLWA is reported". The
  sampler ends at the first `nvme` that fails; nothing looks whether it was alive, and
  the sample that `run_mode` takes itself makes the test of the log pass. Nor does
  anybody miss an `nvme` that went on without printing counters. As long as each `nvme`
  beside a run prints them and the script survives no signal, the runs are covered
  (`CalmSweepsAreCovered`).
* `SweepCounters`: the same document calls a "missing FDP counter" fatal. The test of
  `run_figure6.sh` looks for a counter in all of `fdp_stats.log`, to which every sweep
  appends. The trace has a first sweep that is killed once its sampler has taken
  two samples in the baseline's log, and a second in the same `OUTPUT_ROOT` that gets no counter of its own
  baseline run: the test passes on the old samples, the DLWA is computed from them, and
  the sweep is completed. In an `OUTPUT_ROOT` that no sweep used before, a completed
  sweep has counters of its own for each run (`FirstSweepsAreCounted`); in any, it has
  some of this or an earlier sweep (`CountersAreTaken`).

## Proofs

`BenchmarkRunProofs` proves, for any number of workers, keys, batch size and
bounds, from the assumptions named in `BenchmarkRun` (at least one worker, one key,
a positive batch, distinct names):

* `Invariance`: `Spec => []IInv`. The safety properties are not inductive on
  their own. `GateHeld` needs that the counters count what they should
  (`CountInv`: the cardinality of the registered and of the stopped workers) and
  that `start` follows the position of the main thread (`GateInv`); `NoLostWakeup`
  and the mutex need `LockInv`; `LifetimeSafe` needs how far each loop has got
  (`PhaseInv`); `ReportedTotal` and `WindowCovers` need what has been merged so far
  (`TotalInv`, `WindowInv`). `IInv` is their conjunction with `TypeOK`. There is one
  lemma per conjunct (`TypeStep`, `GateStep`, `LockStep`, `PhaseStep`, `CountStep`,
  `TotalStep`, `WindowStep`), each by cases on the actions, with the arithmetic of
  the split (`DivMod`, `Shares`) and of the counters (`AllCounted`,
  `RegisterCounts`, `LeaveCounts`) in lemmas of their own.
* `TypeCorrect`, `GateIsHeld`, `WakeupsAreKept`, `MergesFinalStats`,
  `LifetimesAreSafe`, `ReportIsComplete`, `WindowIsComplete`: the safety properties
  of the runs, each from `IInv`.
* `StartGateRefinement`: initial states and steps map to those of `StartGate`, or
  to stuttering. This is the safety part of `ImplementsStartGate`.
* `SomebodyAlwaysRuns`: until `RunBenchmark` returns, some thread is not `Blocked`. From
  `IInv`, by where the main thread is and who holds the mutex. If the main thread must
  wait and the mutex is free, the counters name a worker that has not registered, or
  not stopped, and that worker is awake (`WorkerRuns`); at the joins, where the main
  thread keeps the mutex, no worker needs it any more.
* `RunWindsDown`: each step takes away from `ToDo`, which is finite, or leaves it and
  takes a thread from `Awake` or `Contending`, or is one of the bounded number of
  spurious wakeups and ticks. So the loops around `cv.wait` end too.

`WriteLoopProofs` proves, for any number of workers and keys, any batch size and
whichever writes fail:

* `LoopInvariance`: `Spec => []IInv`. For each worker `LoopInv` says what the loop
  variables are at each point (`ind` is the operations already counted plus `j`; the
  batch holds `j` keys, or none once it was written), and `AccountInv` that the
  worker's keys in the database are among those before the batch, that
  `success_count` is their number, that a missing one has left an error line, and
  that a total line repeats `success_count`. `GroupAdds` counts the keys of a batch,
  `WriteAccount` is what a write does to the account, `Frame` that the step of one
  worker leaves the others alone; then one lemma per action.
* `LoopTypeCorrect`, `SuccessCountIsTrue`, `LossesAreLogged`, `TriesAreCounted`,
  `WarningsAreSound`, each from `IInv`, and `TotalsAreHonest`, with `AllStored`: a
  set of a worker's keys that has the right number has them all.
* `ProgressIsExact`: `ProgressExact`, from `IInv` and `ProgressInv`, which says how many
  lines a worker has printed at each point: as many as there are multiples of the
  interval up to the count of whole batches, the last one only after the sleep
  (`InBatches`), and perhaps one more after a flush that failed (`AfterFlush`). The
  arithmetic is in `WholeRemainder` and `Multiples`.
* `BulkLoadRefinement`: initial states and steps map to those of `BulkLoad`, or to
  stuttering. This is the safety part of `ImplementsBulkLoad`.
* `LoopsAreBounded`: each step lessens the `Left` of its worker, a natural number that
  is 0 at the end only, and increases nobody's. From `IInv`: a full batch counts its
  keys, also when the write failed, and no turn is made with an empty one.

`KeyOrderStoreProofs` proves, for any set of flags, user's file and number of runs:

* `UniformPartition`: the ranges of the workers cover `[1, num]` and are disjoint,
  from `Division` and `RangeBounds` (each range ends where the next begins).
* `StoreInvariance`: `Spec => []IInv`. `RightOrders` needs that a generated name
  never holds another order than its own (`NamesAreTrue`) and that an order once
  kept is whole (`LoopsInv`, `OwnInv`); `SavedForNextRun` needs which files already
  hold the order of their worker (`FilesInv`). One lemma per action.
* `StoreTypeCorrect`, `OrdersAreRight`, and, with hypotheses stated in the
  theorems, `OrdersAreSaved` (files given by `--key_file_path` go to single-worker
  runs).
* `SharedKeySpaceIsCovered`: `CoversKeySpace` if `--key_file_path` only goes to runs of
  one worker and one `--num` (`OneDirectSize`). The file may then hold the order of
  another generator, or what is left of it after a kill; `SharedInv` says which orders
  can be in it, each of them the whole of `[1, num]` when its length is right.
  `KeySpaceIsCovered`, for generated names, follows from it.
* `UserOrdersAreUsed`: `UserOrderUsed`, if the user's file has the length that every run
  with it needs (`FitsUser`) and can be read (`ReadableSpec`); `UserInv` adds that the
  file stays as it was, since no run gets as far as generating an order.
  The two violation runs show that such hypotheses are needed.

`TwoPhaseProofs` proves, for any modes, counts, number of workers, sizes of writes
and number of runs:

* `TwoPhaseInvariance`: `Spec => []IInv`. What a run is accepted for is decided by
  lines in a log, so the invariant has to tie the log to the database at every `pc`:
  `LoadInv` says that the database holds what the load has stored, that the totals in
  the log are those announced, each the number of the worker's keys in the database,
  and that a worker stores only keys of its own; `PhaseInv` says what has passed
  before the present phase; `LogInv` whose LOG the database and the copy have. The
  step from the log back to the database is `WholeLoad`: a worker that announces the
  count of the whole phase has stored it, and the others have nothing to store
  (`WholeShare`, `OwnCardinality`). One lemma per action; `Leaves` serves the many
  ways out.
* `TwoPhaseTypeCorrect`, `AcceptedRunsAreLoaded`, `AcceptedFilesAreTogether`,
  `SavedLogsAreComplete`, each from `IInv`; `RejectionsAreRight` for one worker, which
  `TwoPhaseWorkers` shows to be needed.
* `SeveralWorkersAreRefused`: with several workers and at least as many keys,
  `NeverAccepted`. No worker's share is the whole of phase 1 (`NoWholeTotal`), so the
  test of the total sends each run away before its second phase (`BeforePhase2`).
* `TwoPhaseGoesForward`: each step of a run lessens its `Stage`, or is one of the load,
  which lessens a worker's `KeysLeft` and increases nobody's; both are natural numbers.
* `AcceptanceRefinement`: `Spec => ImplementsAcceptance`, the whole of it, since
  `Acceptance` asks for no fairness. `Rejected`, `Replaced` and `Unseen` are the three
  things a step can be to `Acceptance`.

`PrefillProofs` proves, for any processes, sizes, space, reserve, buffer and
alignment, and any number of runs:

* `PrefillInvariance`: `Spec => []IInv`. `CompletedIsWhole` needs that a run and the
  file it made agree until the run ends (`OwnerInv`) and that no two runs are one
  (`IdentityInv`); `ReserveKept` needs that the reserve was there when the file was
  created (`RoomInv`), which needs what each position has checked (`CheckedInv`).
* `PrefillTypeCorrect`, `CompletedFilesAreWhole`, `PlainSizesAreExact`, and
  `ReserveIsKept`, for sizes that do not wrap the arithmetic of the shell (`NoWrap`).
* `PlainRefusalsAreRight`: `RefusalIsRight`, for the script, with sizes that `numfmt`
  and `fill` read alike (`Plain`) and that do not wrap (`NoWrap`). The verdict is given
  in one step (`VerdictStep`), with the free space that was read before it.
* `PrefillsGoForward`: `Left` is at most `ULL + 11`, is 0 when no run is in progress, is
  lessened by each step of the process and increased by none of another.
* `PrefillFileRefinement`: `Spec => ImplementsPrefillFile`, the whole of it.

`SweepProofs` proves, for any workloads, selections of them (also with one workload
twice), and numbers of sweeps and runs:

* `SweepInvariance`: `Spec => []IInv`. `Finished` says, for each position of the loop,
  which directories this sweep has filled; `FinishedInv` says that these are whole, of
  this sweep, with counters in the log if they are collected, and that a model run
  among them had the thresholds of the baseline beside it. A directory gets there
  through `Status`, so `RunInv` says what `verdict` tells of the run that has just
  ended, and `ThresholdsInv` whose thresholds the environment holds. What is finished
  stays so because a run touches its own directory only (`NotFinished`, `FinishedKeeps`);
  a sweep that has failed promises nothing (`FailKeeps`). One lemma per action.
  `LogInv` says what the logs keep from sweep to sweep: a figure of write amplification
  that was ever made had two samples of each of its runs, and still has (`StatsStep`,
  `DlwaStep`).
* `SweepTypeCorrect`, `CompletedSweepsAreOwn`, `ThresholdsAreMatching`, each from `IInv`
  and, for a sweep that is complete, `CompletedIsFinished`.
* `CountersAreTaken`: `CountersInLog`, whatever `nvme` prints: the `grep` and the refusal
  of fewer than two samples are all that it rests on. `FirstSweepsAreCounted`:
  `CountersOfThisSweep` for a single sweep (`MaxSweeps <= 1`), which `SweepCounters`
  shows to be needed.
* `SweepsGoForward`: `Left` is a natural number, 0 between sweeps, lessened by each
  command and increased by nothing in between. The workloads with a figure of write
  amplification must be finitely many (`WorkloadsAssumption`); the script has two.
* `CalmSweepsAreCovered`: `SamplesCoverRun` for the steps `Calm`, from `CoverInv`: the
  sampler is running when a run starts, nothing ends it before the run does, and it gets
  counters each time.

`LifetimesProofs` proves, for any files, levels and times, and any number of waiting
lines:

* `LogInvariance`: `Spec => []IInv`. What happened to a file is in the tables or in a
  line that waits (`CreationInv`, `DeletionInv`, `MoveInv`), and so is the time of the
  last event (`ClockInv`). One lemma per conjunct, each by cases on the actions.
* `SamplesAreTrue`: `SamplesAreLifetimes`, from `IInv` and `TablesAreTrue`, which says
  what the tables hold when no line waits.

The inductive invariants are no property of a run, since the theorems cover them;
each was model-checked before it was proved, and so was each variant.

Only model-checked: `Returns`, `Terminates`, both `Ends`, and the fairness part of
`ImplementsStartGate` and `ImplementsBulkLoad` (liveness and `ENABLED` are beyond the
prover). What these rest on besides fairness is proved: not everybody waits for
somebody else (`SomebodyAlwaysRuns`), and steps run out (`RunWindsDown`,
`LoopsAreBounded`, `PrefillsGoForward`, `SweepsGoForward`). What is left to TLC is the
temporal argument from there, and that a process of the other components that is not
at its end has a step to take.

## Not modelled, and limits

* `std::thread`'s constructor, allocation and mutex operations do not fail.
* `--worker_threads=0` and `--batch=0` are excluded by assumptions; the hazards
  list says what the code does with them.
* The clock does not go back, although `NowMicros` reads the wall clock.
* A path given by `--key_file_path` is not one of the generated names
  (`NamesAssumption`). `ae/config.example.env` gives one that is, for the flags it
  would be generated for; with other flags the generated name would then hold a
  foreign order.
* The contents of zipfian and hotspot orders, and the seeds of the shuffles.
* What RocksDB keeps of its memtable when the benchmark exits without closing the
  database and with the write-ahead log off: `TwoPhase` models what was accepted.
* A user's file is taken to hold the right keys if it has the right number.
* Prefill sizes of 2^63 bytes and more are negative to the shell and pass the test of
  the free space (`NoWrap`); no device has them. With `fill` started by hand, `-4K` is
  read as a huge size, since `stoull` takes the sign. Nothing but the prefill file
  takes space, and nobody removes it under a run that is writing.
* The refusal "Prefill would leave less than ... GiB free" of `ae/prefill.sh` is also
  printed of a size with a fraction whose prefill would fit: the test uses the bytes of
  `numfmt`, where the fraction counts, and `fill`, which gets the text, stops reading at
  the point (of `1.5G` half a GiB is never written). So `RefusalIsRight` is no property of
  a run; it is proved of the sizes that the documentation gives
  (`PlainRefusalsAreRight`). A size with a fraction that passes the test is prefilled
  with less than was asked.
* `Sweep` leaves out: an `nvme` that outlives the sampler it was killed with; the
  first sample of an earlier sweep, which becomes the baseline of the DLWA of the
  next; thresholds that are in the environment before the sweep (every model run
  gets those of its own baseline); a kill of the script alone, with the benchmark
  living on; HUP. `run_gear.sh`, which keeps thresholds that are set and takes no
  final sample, is not modelled. An `nvme` that fails leaves no counters in the log.
* `Lifetimes` takes a log without broken lines, in which a file number is created once and
  a file is not moved again before its move is logged.
* The components listed as not modelled in `PROJECT.json`, each with its reason.

## Plan

`BenchmarkRun`, `WriteLoop`, `KeyOrderStore`, `Prefill`, `TwoPhase`, `Sweep` and `Lifetimes`
are done, with their proofs. What remains, in this order:

1. `run_gear.sh` beside `Sweep`.
2. Pure algorithms against reference definitions on bounded logs: device-counter
   series, stitched write amplification, throughput units; the seeds of the shuffles
   (mod 2^32); ranges and counts of the hotspot generator.
3. `IndexKey` ownership and key encoding order; `Preflight` over small device trees.
