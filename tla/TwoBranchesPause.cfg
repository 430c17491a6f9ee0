SPECIFICATION Spec
CONSTANTS
    Nodes <- ForkNodes
    Edges <- ForkEdges
    Entry = "a"
    MaxRetries <- TwoRetries
    Awaits = {"b", "c"}
    Fails <- NoFailures
    Deletable = {}
    Runs = {u1}
    Requests = {r1}
    MaxDepth = 1
    MaxServed = 2
    MaxFaults = 0
    MaxCrashes = 0
    MaxDisconnects = 0
    Overlap = FALSE
CHECK_DEADLOCK FALSE
INVARIANT EveryPauseAnswered
