SPECIFICATION Spec
CONSTANTS
    MaxSegments = 4
    MaxRuns = 3
    Cap = 2
    Batch = 2
    MaxFaults = 1
CHECK_DEADLOCK FALSE
INVARIANTS
    RowsPlay
    OneRowPerFile
PROPERTIES
    OldestGoFirst
    
