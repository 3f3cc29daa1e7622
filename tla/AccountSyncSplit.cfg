SPECIFICATION Spec
CONSTANTS
    Tokens = {t1, t2, t3}
    Pools = {"basic"}
    Statuses = {"active"}
    MaxRevision = 4
    MaxBulk = 2
    Callers = {loop}
    SyncLoop = loop
    NoCaller = NoCaller
    BatchLimit = 2
    MaxFaults = 0
    RetentionCovers = TRUE
INVARIANTS NoLostChange
