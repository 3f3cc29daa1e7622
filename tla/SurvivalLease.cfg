SPECIFICATION FairLeaseSpec
CONSTANTS
    Workers = {p, q}
    NoOwner = NoOwner
    Former = Former
    TTL = 2
    MaxProbes = 2
    MaxFaults = 2
INVARIANTS PunctualAlone
PROPERTIES LeaseKept OrphanTakenOver
