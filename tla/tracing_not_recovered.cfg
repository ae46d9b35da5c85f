SPECIFICATION Spec
CONSTANTS
    Browsers = {b1, b2}
    MaxLive = 2
    MaxStories = 3
    MaxFaults = 1
INVARIANTS StartAlwaysSucceeds
CHECK_DEADLOCK FALSE
