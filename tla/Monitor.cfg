SPECIFICATION Spec
CONSTANTS
    Cams = {c1, c2}
    Names = {A, B}
    Presets <- MCPresets
    DefaultPreset = 1
    Lenses = {c1, c2}
    MaxQueries = 2
    MaxChanges = 5
    Events = {e1, e2}
    MaxPolls = 2
    Cameras = {c1, c2}
    MaxFetches = 2
    Present = 4
    EventTimes <- MCEventTimes
    MaxDelta = 2
    Pins = {c1}
    MaxTimers = 1
    MaxJobs = 2
CHECK_DEADLOCK FALSE
INVARIANTS MonitorInvariant
  
