SPECIFICATION FairSpec
CONSTANTS
    Tasks = {t1, t2}
    Threads = {h1, h2}
    Torn = Torn
    Replaces = FALSE
    MaxCrashes = 2
INVARIANTS TasksInv WriteThrough AtMostOnce SuccessKept
PROPERTIES TaskEnds
