SPECIFICATION Spec
CONSTANTS
    OutputMax = 4
    Chunks <- MCChunks
    Signals <- MCSignals
    StopSignals <- MCStopSignals
    Unnamed <- MCUnnamed
    Uncaught <- MCUncaught
INVARIANTS
    BoundedCapture
    LimitVerdictStands
    LostVerdictIsNoSuccess
    CodeOrSignal
PROPERTIES
    SeenAsStage
CHECK_DEADLOCK FALSE
