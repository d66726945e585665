SPECIFICATION Spec
CONSTANTS
    r1 = r1
    r2 = r2
    s1 = s1
    Requests = {r1}
    Sockets = {s1}
    Compiled = {s1}
    Unlimited <- MCUnlimited
    Capacity = 1
INVARIANTS
    AbandonedSandboxReleased
CHECK_DEADLOCK FALSE
