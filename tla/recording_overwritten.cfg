SPECIFICATION Spec
CONSTANTS
    PageSets <- RecordPageSets
    OptionSets <- RecordOptions
    Expectations = {"pass"}
    MaxFaults = 1
INVARIANTS RecordingComplete
CHECK_DEADLOCK FALSE
