SPECIFICATION Spec
CONSTANTS
    p1 = p1
    p2 = p2
    c1 = c1
    c2 = c2
    Packages = {p1, p2}
    Calls = {c1, c2}
    Endpoints = {"sync", "operation"}
    MayFail = {"directory", "download", "late"}
    MaxRegistered = 2
SYMMETRY Symmetry
INVARIANTS
    ListedRuntimesAreWhole
    RegistryIsWhatBootDerives
    HalfInstallIsResidue
    InstalledIsListed
CHECK_DEADLOCK FALSE
