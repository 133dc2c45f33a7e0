SPECIFICATION MCSpec
CONSTANTS
    Players = {1, 2}
    Extras = {"x"}
    None = None
    Calls <- MCCalls
    Loadable = {None}
    EarlyCalls = FALSE
    MaxCalls = 3
    MaxInFlight = 3
    MaxFaults = 0
PROPERTIES WritesInOrder EventuallySaved
CHECK_DEADLOCK FALSE
