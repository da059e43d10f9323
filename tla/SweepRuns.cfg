SPECIFICATION FairSpec
CONSTANTS
    Workloads = {"uniform", "skewed"}
    WithDlwa = {"uniform"}
    Selections <- OneOrTwo
    Collect = TRUE
    MaxSweeps = 2
    MaxRuns = 6
CHECK_DEADLOCK FALSE
INVARIANTS
    TypeOK
    CompletedIsOfThisSweep
    ThresholdsMatch
    CountersInLog
PROPERTIES
    Ends
