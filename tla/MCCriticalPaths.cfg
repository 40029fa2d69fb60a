CONSTANTS
    NumBusy = 2
    NumClients = 1
    Budget = 2
    None = None
    NCells = 4
    MaxId = 4
    NoCap = NoCap
SPECIFICATION MCSpec
INVARIANTS
    NobodySpins
    RaceVerdicts
    NeverTruncated
PROPERTIES
    SwitchesOutsideRegions
    ComputeTasksEnd
    Implements
    CascadeEnds
CHECK_DEADLOCK FALSE
