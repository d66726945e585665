SPECIFICATION FairSpec
CONSTANTS
    r1 = r1
    r2 = r2
    s1 = s1
    Requests = {r1}
    Sockets = {s1}
    Compiled = {r1, s1}
    Unlimited <- MCUnlimited
    Capacity = 1
INVARIANTS
    SlotsHeldByJobs
    LegalConversation
    CloseCodesTellTheTruth
    KilledCompileIsTheEnd
PROPERTIES
    SlotsPaired
    CloseKillsRunningStage
    JobsSettle
    SocketsClose
CHECK_DEADLOCK FALSE
