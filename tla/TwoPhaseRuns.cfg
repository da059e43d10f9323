SPECIFICATION Spec
CONSTANTS
    Modes = {baseline, model}
    NoMode = none
    Num <- TwoThree
    Threads = 1
    MaxGroup = 2
    MaxRuns = 3
CHECK_DEADLOCK FALSE
INVARIANTS
    TypeOK
    AcceptedIsLoaded
    AcceptedIsTogether
    SavedIsComplete
    RejectionIsRight
PROPERTIES
    ImplementsAcceptance
