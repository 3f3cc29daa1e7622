SPECIFICATION FairSpec
CONSTANTS
    c1 = c1
    c2 = c2
    c3 = c3
    s = s
    p1 = p1
    p2 = p2
    grok = grok
    Callers <- Pair
    Scheduler = s
    Nodes <- Proxies
    Hosts <- Grok
    Default = grok
    Configs <- Saved
    MaxCalls = 3
    MaxChanges = 2
INVARIANTS ProxyInv OneFlight
PROPERTIES BundleKept AcquireReturns
CHECK_DEADLOCK FALSE
