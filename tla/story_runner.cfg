SPECIFICATION Spec
CONSTANTS
    PageSets <- MCPageSets
    OptionSets <- MCOptionSets
    Expectations = {"pass", "fail", "skip"}
    MaxFaults = 2
INVARIANTS TornDownOnce FreshUnlessTolerated ReplayServesPage DeviceLeftAsFound EveryRunReported StopsOnUnexpected
CHECK_DEADLOCK FALSE
