SPECIFICATION Spec
CONSTANTS
    f1 = f1
    f2 = f2
    Files = {f1, f2}
    Levels = {0, 1, 6}
    MaxTime = 2
    MaxLines = 3
SYMMETRY Either
INVARIANTS
    SamplesAreLifetimes
