CONSTANTS
    MaxEsc = 1
    MaxCalls = 2
    WrapUpTicks = 1
SPECIFICATION Spec
INVARIANTS DeskInvariant OneDeterrenceRunning
PROPERTIES TimersRunOut
