SPECIFICATION FairSpec
CONSTANTS
    Tasks = {t1}
    Machines = {m1, m2}
    MaxCalls = 6
    MaxOutput = 2
    IdleTicks = 1
INVARIANTS OneMachinePerTask ConnectedHasMachine OutputExact
PROPERTIES ControllerEnds EveryMachineFreed
CHECK_DEADLOCK FALSE
