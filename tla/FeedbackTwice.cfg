SPECIFICATION FairSpec
CONSTANTS
    Nodes <- LoopNodes
    Edges <- LoopEdges
    Entry = "draft"
    MaxRetries <- TwoRetries
    Awaits = {"review"}
    Fails <- NoFailures
    Deletable = {}
    Runs = {u1}
    Requests = {r1, r2}
    MaxDepth = 0
    MaxServed = 3
    MaxFaults = 0
    MaxCrashes = 0
    MaxDisconnects = 0
    Overlap = TRUE
CHECK_DEADLOCK FALSE
PROPERTY RequestsEnd
