SPECIFICATION FairSpec
CONSTANTS
    Nodes = {n1}
    Schemas = {"strict", "loose", "broken"}
    NoSchema = "none"
    Uncompilable = {"broken"}
    Values <- Data
    Meets <- Kept
    Validations <- Checks
    Calls = {x1}
    Executions = {x1}
    Results <- Answer
    NoResult = "nil"
    Others = {o1}
    Versions <- Edited
    Inputs = {"good", "bad"}
    Buffer = 3
    MaxOutput = 2
CHECK_DEADLOCK FALSE
INVARIANTS
    TypeOK
    VerdictsAreSound
    NoContainerOutlivesItsCall
    SuccessIsEarned
PROPERTY ExecutionsEnd
