SPECIFICATION Spec
CONSTANTS
    Schedules = {s1}
    Requests = {c1}
    Jobs = {j1}
    MaxTime = 2
    TTL = 9
    MaxFaults = 0
    MaxCrashes = 0
    TickOverlap = FALSE
    NoSchedule = NoSchedule
CHECK_DEADLOCK FALSE
INVARIANT CancelledStaysCancelled
