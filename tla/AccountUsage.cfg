SPECIFICATION FairUsageSpec
CONSTANTS
    Tasks = {u1, u2}
    Loops = {l1, l2}
    ConsoleLimit = 3
    Threshold = 1
    Window = 1
    None = None
    Legacy = TRUE
    MaxCrashes = 1
INVARIANTS UsageInv UnmarkedStays
PROPERTIES ExhaustedRefilled
