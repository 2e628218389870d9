SPECIFICATION Spec
CONSTANTS
    Null = Null
    Texts = {a, b}
    Tolerance = 0
    Retention = 1
    FailedRetention = 0
    FlagsMayMiss = TRUE
    MaxTime = 2
    MaxLog = 2
    MaxWritten = 1
    MaxCrashes = 1
SYMMETRY Symmetry
INVARIANTS
    UnreadNotPassed
