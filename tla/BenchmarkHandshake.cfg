SPECIFICATION FairSpec
CONSTANTS
    NThreads = 3
    Num = 4
    Batch = 2
    MaxClock = 2
    MaxSpurious = 2
    Main = Main
    NoOne = NoOne
INVARIANTS
    TypeOK
    GateHeld
    NoLostWakeup
    MergeAfterStop
    LifetimeSafe
    ReportedTotal
    WindowCovers
PROPERTIES
    Returns
    ImplementsStartGate
