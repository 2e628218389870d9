SPECIFICATION Spec
CONSTANTS
    Null = Null
    InboundJobs = {i1}
    OutboundJobs = {o1}
    NoteJobs = {n1, n2}
    Workers = {w1, w2}
    MaxInboundAttempts = 2
    MaxOutboundAttempts = 2
    InboundDelays <- OneDelay
    OutboundDelays <- TwoDelays
    StaleAfter = 1
    Horizon = 2
    MaxCrashes = 2
    LockMayBeLost = FALSE
SYMMETRY Symmetry
INVARIANTS
    ExhaustionIsReported
