SPECIFICATION Spec
CONSTANTS
    Players = {1, 2}
    Extras = {"x"}
    None = None
    Calls <- MCCalls
    Loadable = {None}
    EarlyCalls = FALSE
    MaxCalls = 3
    MaxInFlight = 2
    MaxFaults = 0
INVARIANTS IncrementsAddUp
CHECK_DEADLOCK FALSE
