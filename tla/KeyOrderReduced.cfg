SPECIFICATION Spec
CONSTANTS
    Flags <- ReducedFlags
    UserLength = 3
    MaxRuns = 1
    DirectPath = DirectPath
    User = User
    None = None
INVARIANTS
    UserOrderUsed
