SPECIFICATION Spec
CONSTANTS
    Null = Null
    InboundJobs = {i1}
    Messages = {m1}
    Files <- TwoFiles
    Deliveries = {d1}
    Handlers = {h1}
    MaxAttempts = 2
    MaxRequests = 1
    MaxCrashes = 0
INVARIANT UploadedOnce
CHECK_DEADLOCK FALSE
