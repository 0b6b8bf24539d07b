SPECIFICATION Spec
CONSTANTS
    a1 = a1
    a2 = a2
    a3 = a3
    Alarms <- MCAlarms
    SiteOf <- MCSiteOf
    KeyOf <- MCKeyOf
    SeverityOf <- MCSeverityOf
    MaxIncidents = 3
    MaxClock = 1
    Window = 1
    Cooldown = 1
    MaxFaults = 1
CHECK_DEADLOCK FALSE
INVARIANTS
    CountCoversAlarms
    AlarmKeepsIncident
    SeverityCoversAlarms
