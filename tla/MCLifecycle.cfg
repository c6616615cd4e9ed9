CONSTANTS
    c1 = c1
    c2 = c2
    c3 = c3
    Calls = {c1, c2, c3}
    Old = 1
    MaxId = 2
    MaxFaults = 1
SPECIFICATION Spec
SYMMETRY CallSymmetry
INVARIANTS
    NoFindAfterDelete
    DeletedIsGone
    GoneLeavesNothing
    ShownIsStored
PROPERTY HiddenStaysHidden
