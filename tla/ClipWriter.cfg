SPECIFICATION ClipSpec
CONSTANTS
    PreBuffer = 1
    PostBuffer = 1
    MaxLag = 1
    MaxClips = 2
    MaxClock = 4
INVARIANTS
    RecordingHasOneWriter
    TriggersAreCovered
    
PROPERTY
    ClipsAreFinalized
