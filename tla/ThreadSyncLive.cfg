SPECIFICATION FairSpec
CONSTANTS
    Null = Null
    Texts = {a}
    Tolerance = 0
    Retention = 1
    FailedRetention = 0
    FlagsMayMiss = FALSE
    MaxTime = 2
    MaxLog = 3
    MaxWritten = 0
    MaxCrashes = 1
INVARIANTS
    NoneSkipped
    BootstrapImportsUnread
PROPERTIES
    UnreadArrives
