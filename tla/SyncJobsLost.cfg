SPECIFICATION Spec
CONSTANTS
    Null = Null
    InboundJobs = {i1}
    OutboundJobs = {}
    NoteJobs = {}
    Workers = {w1, w2}
    MaxInboundAttempts = 2
    MaxOutboundAttempts = 2
    InboundDelays <- OneDelay
    OutboundDelays <- TwoDelays
    StaleAfter = 1
    Horizon = 2
    MaxCrashes = 1
    LockMayBeLost = TRUE
SYMMETRY Symmetry
INVARIANTS
    DamageBounded
    OneWorkerPerAttempt
