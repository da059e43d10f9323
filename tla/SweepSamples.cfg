SPECIFICATION Spec
CONSTANTS
    Workloads = {"uniform"}
    WithDlwa = {"uniform"}
    Selections <- JustOne
    Collect = TRUE
    MaxSweeps = 1
    MaxRuns = 6
CHECK_DEADLOCK FALSE
INVARIANTS
    SamplesCoverRun
