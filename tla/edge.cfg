SPECIFICATION Spec
CONSTANTS
    p1 = p1
    p2 = p2
    Passes = {p1, p2}
    MaxEdits = 2
    MaxFails = 2
    MaxPasses = 3
SYMMETRY Symmetry
INVARIANT CleanRemoval
PROPERTY EditsStand
CHECK_DEADLOCK FALSE
