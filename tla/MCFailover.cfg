CONSTANTS
    MAX_SERVICES = 2
    QueueLimit = 3
    MaxRuns = 4
    Nowhere = Nowhere
SPECIFICATION DistSpec
INVARIANTS FailoverRestoresTheLast
CHECK_DEADLOCK FALSE
