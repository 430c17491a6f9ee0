SPECIFICATION FairSpec
CONSTANTS
    Nodes <- NestedNodes
    Edges <- NestedEdges
    Entry = "a"
    MaxRetries <- TwoRetries
    Awaits = {"b", "c"}
    Fails <- NestedFails
    Deletable = {"d"}
    Runs = {u1}
    Requests = {r1}
    MaxDepth = 2
    MaxServed = 2
    MaxFaults = 0
    MaxCrashes = 1
    MaxDisconnects = 1
    Overlap = FALSE
CHECK_DEADLOCK FALSE
INVARIANTS
    TypeOK
    PausedOrSettled
    SuccessMeansAllSucceeded
PROPERTIES
    FirstErrorStopsGroup
    RequestsEnd
