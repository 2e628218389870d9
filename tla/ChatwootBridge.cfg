SPECIFICATION Spec
CONSTANTS
    Null = Null
    InboundJobs = {i1}
    Messages = {m1}
    Files <- TwoFiles
    Deliveries = {d1, d2}
    Handlers = {h1, h2}
    MaxAttempts = 2
    MaxRequests = 3
    MaxCrashes = 1
SYMMETRY Symmetry
INVARIANTS
    TypeOK
    MessageSentOnce
    AcceptedHasJob
    OrphansExplained
    FlagCurrent
    FilesSent
PROPERTIES
    KeepsContract
CHECK_DEADLOCK FALSE
