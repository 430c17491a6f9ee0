SPECIFICATION FairSpec
CONSTANTS
    Schedules = {s1}
    Requests = {c1, c2}
    Jobs = {j1, j2}
    MaxTime = 3
    TTL = 2
    MaxFaults = 1
    MaxCrashes = 1
    TickOverlap = FALSE
    NoSchedule = NoSchedule
CHECK_DEADLOCK FALSE
INVARIANTS
    TypeOK
    PendingIsIndexed
    AtMostOnce
    CancelBeforePickIsFinal
    RunningHasGoroutine
PROPERTIES
    PendingIsNeverRestored
    DueIsPicked
    AcceptedIsSettled
