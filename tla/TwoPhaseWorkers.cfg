SPECIFICATION Spec
CONSTANTS
    Modes = {baseline}
    NoMode = none
    Num <- TwoThree
    Threads = 2
    MaxGroup = 2
    MaxRuns = 1
CHECK_DEADLOCK FALSE
INVARIANTS
    RejectionIsRight
