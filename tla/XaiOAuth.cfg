SPECIFICATION Spec
CONSTANTS
    Main = {m1}
    Batches = {b}
    Workers = {w}
    Jobs <- TwoJobs
    MaxAttempts = 2
    MaxTokens = 3
    MaxEvents = 1
INVARIANTS XaiInv RefusalEarned OneJob
PROPERTIES DisabledKept
CHECK_DEADLOCK FALSE
