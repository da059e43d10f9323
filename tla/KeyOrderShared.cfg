SPECIFICATION Spec
CONSTANTS
    Flags <- SharedFlags
    UserLength = 0
    MaxRuns = 2
    DirectPath = DirectPath
    User = User
    None = None
INVARIANTS
    CoversKeySpace
