SPECIFICATION FairSpec
CONSTANTS
    a = a
    b = b
    c = c
    t1 = t1
    t2 = t2
    Accounts = {a, b, c}
    Tasks = {t1, t2}
    Registered = {t1}
    Assignments <- MCAssignments
    NoTask = NoTask
    ThreadCap = 1
    MaxRows = 1
    MaxTokens <- MCMaxTokens
    MaxGen = 2
    MaxDeaths = 1
INVARIANTS QueueInv NoLostWakeup JobsShown
PROPERTIES LinkKept QueuedAttempted StoppedDrains
