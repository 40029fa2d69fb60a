CONSTANTS
    SHELL_MODE = FALSE
    MAX_TASKS = 4
    MAX_CAPS = 3
    InitTask = 1
    FirstSpawn = 2
    Shell = 0
    GrantSink = 3
    SyncService = 2
    Serial = Serial
    Mutex = Mutex
    Kv = Kv
    Log = Log
    Masks <- TwoMasks
    Objects = {Serial, Mutex, Kv, Log}
    KvEntries = {Kv}
    LogChannels = {Log}
    SyncObjects = {Mutex}
    BootTasks = {1}
    BootTable <- InitBootTable
    BootNextId = 2
    MaxId = 7
    NoCap = NoCap
SPECIFICATION Spec
INVARIANTS NoAmplification RevokedLineageIsGone
CHECK_DEADLOCK FALSE
