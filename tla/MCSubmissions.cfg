SPECIFICATION Spec
CONSTANTS
    NaN = NaN
    Junk = Junk
    Null = Null
    Undefined = Undefined
    p1 = p1
    p2 = p2
    c1 = c1
    c2 = c2
    Limits = {"run_timeout", "run_memory_limit"}
    Fields = {"run_timeout", "run_memory_limit"}
    Default <- MCDefault
    Directories = {"/piston", "/packages"}
    Environments <- MCEnvironments
    Packages = {p1, p2}
    Info <- MCInfo
    Requests <- MCRequests
    Calls = {c1, c2}
    MaxInstalls = 2
SYMMETRY Interchangeable
INVARIANTS
    JobsKeepTheLimits
    ListedCachesAreFresh
    FailsOnlyIfUninstalled
    AcceptedHaveAnEntrypoint
    GateComesFirst
PROPERTY
    LatestIsServed
CHECK_DEADLOCK FALSE
