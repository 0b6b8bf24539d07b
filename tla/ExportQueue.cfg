SPECIFICATION Spec
CONSTANTS
    Nobody = Nobody
    Orphan = Orphan
    Workers = {w1, w2}
    MaxExports = 2
    MaxFaults = 1
CHECK_DEADLOCK FALSE
INVARIANTS
    QueueInvariant
    AbandonedNeedsFault
PROPERTIES
    SettledIsNotReopened
    PendingIsClaimed
