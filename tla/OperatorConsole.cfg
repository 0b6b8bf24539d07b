CONSTANTS
    i1 = i1
    None = None
    Console = Console
    NumAlarms = 2
    Incidents = {i1}
    IncidentOf <- MCIncidentOf
    FeedCap = 2
    DismissCap = 3
    Slots = {1}
    MaxFetches = 1
    MaxEvents = 2
    MaxHandled = 2
SPECIFICATION Spec
CHECK_DEADLOCK FALSE
INVARIANTS ConsoleInvariant ClosedStaysClosed
  
