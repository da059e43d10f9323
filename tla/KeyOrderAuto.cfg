SPECIFICATION Spec
CONSTANTS
    Flags <- AutoFlags
    UserLength = 0
    MaxRuns = 3
    DirectPath = DirectPath
    User = User
    None = None
INVARIANTS
    TypeOK
    RightOrders
    SavedForNextRun
    CoversKeySpace
