SPECIFICATION FairSpec
CONSTANTS
    Devices = {d1, d2}
    Tests = {a, b, c}
    Groups = {{a, b}, {c}}
    NumRetries = 1
INVARIANTS NoTestLost LeavesWhenAllDone VerdictButForUnreached
PROPERTIES RunEnds
CHECK_DEADLOCK FALSE
