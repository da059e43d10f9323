SPECIFICATION FairSpec
CONSTANTS
    Workers <- TwoWorkers
    Quota <- TwoQuotas
    Batch = 2
    PrintInterval = 4
    BaseKeys = 100
INVARIANTS
    TypeOK
    SuccessIsStored
    LossIsLogged
    TotalIsHonest
    ProgressExact
    WarningIsSound
    DoneCountsTries
PROPERTIES
    Terminates
    ImplementsBulkLoad
