SPECIFICATION LeaderSpec
CONSTANTS
    Nobody = Nobody
    Orphan = Orphan
    Workers = {w1, w2, w3}
INVARIANTS
    
    LockOwnerRuns
PROPERTIES
    BrokenLeaderStops
    Failover
