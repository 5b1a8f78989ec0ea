CONSTANTS
    RealId = {r1}
    Value = {v1, v2}
    Absent = Absent
    MaxHandles = 2
    MaxDepth = 3
SPECIFICATION WSSpec
SYMMETRY Contents
INVARIANTS
    TopHoldsNoTombstone
PROPERTIES
    BehavesAsDeepCopy
