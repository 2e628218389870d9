SPECIFICATION FairSpec
CONSTANTS
    Null = Null
    Interval = 1
    Threshold = 2
    Patience = 1
    CacheFor = 1
    MaxTime = 5
    MaxFaults = 1
    MaxCrashes = 1
CHECK_DEADLOCK FALSE
INVARIANTS
    TypeOK
    CleanMeansSaved
    NoSilentOutage
PROPERTIES
    IncidentStable
    AlarmIsClosed
    AlarmStored
