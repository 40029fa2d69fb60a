CONSTANTS
    Shell = Shell
    None = None
    MaxWorkers = 3
    SYNC_MAX_WAIT = 3
    Rounds = 1
    MaxPermits = 2
    MaxCommands = 3
SPECIFICATION FairSpec
INVARIANTS
    OneAnswerPerRequest
    MutualExclusion
    GuardedCounterIsExact
PROPERTIES
    Implements
    JobEnds
CHECK_DEADLOCK FALSE
