SPECIFICATION FairSpec
CONSTANTS
    Null = Null
    Summary = Summary
    Threads = {t1, t2}
    Attempts = {a1}
    Interval = 2
    ErrorPause = 2
    LimitedPause = 3
    DeniedPause = 4
    MaxCalls = 2
    MaxCrashes = 1
INVARIANTS
    TypeOK
    PendingMatchesQueue
    FetchesOwed
    AuthFlagCurrent
PROPERTIES
    Spaced
    PollsGoOn
    FetchesRun
