SPECIFICATION Spec
CONSTANTS
    Browsers = {b1, b2, b3}
    MaxLive = 2
    MaxStories = 3
    MaxFaults = 2
INVARIANTS ActiveIsStoppable TraceExact QuietBetweenStories
CHECK_DEADLOCK FALSE
