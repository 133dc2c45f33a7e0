SPECIFICATION MCSpec
CONSTANTS
    Players = {1, 2, 3}
    Extras = {"x"}
    None = None
    Calls <- AllCalls
    Loadable <- AllLoadable
    EarlyCalls = FALSE
    MaxCalls = 3
    MaxInFlight = 2
    MaxFaults = 1
INVARIANTS
    TypeOK LimitsHeld ConfigKept
    NoGhostRow CacheCurrent FilledIsCurrent RowsWereShown
CHECK_DEADLOCK FALSE
