SPECIFICATION Spec
CONSTANTS
    Nodes = {"a", "b"}
    Flows = {f1}
    Fields = {script, schema}
    Values = {old, new}
    Bodies <- Requested
    Updates = {u1, u2}
    Creations = {c1}
    Loads = {l1}
CHECK_DEADLOCK FALSE
SYMMETRY Alike
INVARIANTS
    TypeOK
    LinksAreExact
    AcceptedIsSnapshot
    RefusedForAReason
PROPERTY OnlyStaleUpdatesClobber
