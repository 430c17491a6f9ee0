SPECIFICATION FairSpec
CONSTANTS
    Flows = {"bills", "hello"}
    Texts = {"pay", "greet"}
    Descriptions <- Described
    None = "none"
    Hash <- Key
    Score <- Similarity
    MinScore = 7
    Messages = {m1}
    Connections = {c1}
    Sessions = {s1}
    BufferSize = 1
    MaxEvents = 2
CHECK_DEADLOCK FALSE
INVARIANTS
    TypeOK
    RoutedToBest
    ClientSeesOrder
PROPERTY ChatEnds
