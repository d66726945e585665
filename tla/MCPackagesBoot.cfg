SPECIFICATION Spec
CONSTANTS
    p1 = p1
    p2 = p2
    c1 = c1
    c2 = c2
    Packages = {p1}
    Calls = {c1, c2}
    Endpoints = {"operation"}
    MayFail = {}
    MaxRegistered = 2
SYMMETRY Symmetry
INVARIANT
    BootSucceeds
CHECK_DEADLOCK FALSE
