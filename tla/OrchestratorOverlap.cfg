SPECIFICATION Spec
CONSTANTS
    Nodes <- ApprovalNodes
    Edges <- MeetingEdges
    Entry = "a"
    MaxRetries <- TwoRetries
    Awaits = {"a"}
    Fails <- NoFailures
    Deletable = {}
    Runs = {u1}
    Requests = {r1, r2}
    MaxDepth = 1
    MaxServed = 2
    MaxFaults = 1
    MaxCrashes = 0
    MaxDisconnects = 0
    Overlap = TRUE
CHECK_DEADLOCK FALSE
SYMMETRY Alike
INVARIANT CycleBudget
