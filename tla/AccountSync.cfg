SPECIFICATION FairSpec
CONSTANTS
    Tokens = {t1, t2}
    Pools = {"basic", "super"}
    Statuses = {"active"}
    MaxRevision = 4
    MaxBulk = 1
    Callers = {loop, admin}
    SyncLoop = loop
    NoCaller = NoCaller
    BatchLimit = 1
    MaxFaults = 1
    RetentionCovers = TRUE
INVARIANTS SyncInv
PROPERTIES ReplicaSpec RemovalReachesTable
