SPECIFICATION ScenesSpec
CHECK_DEADLOCK FALSE
CONSTANTS
    Displays = {"d1"}
    Windows = {"w1", "w2"}
    Regions = {"r1", "r2", "r3"}
    Tiny = {"r3"}
    None = "none"
    MaxToolbars = 2
    MaxRecordings = 2
    MaxLost = 1
    MaxFaults = 1
INVARIANTS NoOrphan NothingLeftBehind
PROPERTIES StopEnds RecordsWhatIsShown
