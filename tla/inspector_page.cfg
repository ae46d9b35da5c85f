SPECIFICATION Spec
CONSTANTS
    Scripts = {s1, s2}
    MaxCalls = 3
    MaxTimeouts = 2
    MaxFrames = 1
INVARIANTS AnswerIsOwn PreciseWhenAlone WakeupNotLost ScriptAsAsked
CHECK_DEADLOCK FALSE
