SPECIFICATION Spec
CONSTANTS
    NodeIds = {a, b, c}
    NoNode = NoNode
    CycleArgs <- MinusToTwo
    Stored <- StoredEdges
    EdgeIds = {e1, e2, e3}
CHECK_DEADLOCK FALSE
SYMMETRY Pointers
INVARIANTS
    TypeOK
    BuiltIntact
    ValidateIsExact
    CyclicIsExact
    LayersRespectEdges
