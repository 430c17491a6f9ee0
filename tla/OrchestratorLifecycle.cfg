SPECIFICATION FairSpec
CONSTANTS
    Nodes <- LoopNodes
    Edges <- LoopEdges
    Entry = "draft"
    MaxRetries <- TwoRetries
    Awaits = {"review"}
    Fails <- ReviewFails
    Deletable = {"draft"}
    Runs = {u1, u2}
    Requests = {r1, r2}
    MaxDepth = 0
    MaxServed = 2
    MaxFaults = 0
    MaxCrashes = 0
    MaxDisconnects = 0
    Overlap = FALSE
CHECK_DEADLOCK FALSE
PROPERTY RunLifecycle
