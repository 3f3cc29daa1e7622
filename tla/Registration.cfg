SPECIFICATION FairSpec
CONSTANTS
    m1 = m1
    m2 = m2
    Mailboxes <- Two
    Login <- AliasOfFirst
    Total = 2
    Threads = 2
    Attempts = 2
    Targets = {TRUE, FALSE}
    MaxRuns <- RunsOf
    MaxEvents = 1
INVARIANTS RegistrationInv OneHolder ResultKept RunsApart
PROPERTIES UsedStays RunEnds
CHECK_DEADLOCK FALSE
