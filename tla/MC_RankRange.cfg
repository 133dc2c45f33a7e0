SPECIFICATION Spec
CONSTANTS
    Players = {1, 2}
    Extras = {"x"}
    None = None
    Calls <- MCCalls
    Loadable = {None}
    EarlyCalls = FALSE
    MaxCalls = 4
    MaxInFlight = 1
    MaxFaults = 0
PROPERTIES RangeComplete
CHECK_DEADLOCK FALSE
