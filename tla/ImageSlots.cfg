SPECIFICATION FairSpec
CONSTANTS
    Tokens = {a, b, c}
    Pool = {a}
    NoToken = NoToken
    Requests = {r1, r2}
    MaxConcurrency = 1
    Fallback = TRUE
    AutoRemoveInvalid = TRUE
    AutoRemoveLimited = TRUE
    Reimports = TRUE
    MaxChanges = 3
INVARIANTS SlotsInv
PROPERTIES PoolSpec WaiterServed
