SPECIFICATION Spec
CONSTANTS
    Tokens = {t1}
    Pools = {"basic", "super"}
    Modes = {"auto", "fast"}
    Supports <- MCSupports
    ConsoleMode = "console"
    Candidates <- MCCandidates
    StoreRows <- MCStoreRows
    Total = 1
    Strategies = {"quota", "random"}
    Cap <- MCCap
    MaxFails = 1
    Requests = {r1, r2, r3}
    Products = {"chat", "edit", "voice", "image"}
    MaxRetries = 1
    NoLease = NoLease
    MaxAbandoned = 1
SYMMETRY RequestSymmetry
INVARIANTS InflightCounts ModeIndexExact ConcurrencyCap
