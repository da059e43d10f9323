SPECIFICATION FairSpec
CONSTANTS
    Procs = {p1, p2}
    Asked <- AllSizes
    ViaScript = TRUE
    ULL = 256
    Kilo = 2
    MaxDecimal = 160
    Align = 2
    Buffer = 4
    Reserve = 2
    Capacity = 13
    MaxRuns = 2
CHECK_DEADLOCK FALSE
INVARIANTS
    TypeOK
    CompletedIsWhole
    PlainIsExact
    ReserveKept
PROPERTIES
    Ends
    ImplementsPrefillFile
