SPECIFICATION FairSpec
CONSTANTS
    j1 = j1
    j2 = j2
    Runners = {j1, j2}
    MaxBoxId = 2
    MaxLeases = 3
INVARIANTS
    AloneInTheBox
    NothingLeftBehind
PROPERTY
    DiskIsCleaned
CHECK_DEADLOCK FALSE
