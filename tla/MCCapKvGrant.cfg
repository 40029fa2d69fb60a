CONSTANTS
    SHELL_MODE = TRUE
    MAX_TASKS = 4
    MAX_CAPS = 2
    InitTask = 1
    FirstSpawn = 2
    Shell = 0
    GrantSink = 3
    SyncService = 2
    Serial = Serial
    Mutex = Mutex
    Kv = Kv
    Log = Log
    Masks <- TwoMasks
    Objects = {Serial, Mutex, Kv, Log}
    KvEntries = {Kv}
    LogChannels = {Log}
    SyncObjects = {Mutex}
    BootTasks = {0}
    BootTable <- ShellBootTable
    BootNextId = 3
    MaxId = 6
    NoCap = NoCap
SPECIFICATION Spec
INVARIANTS SubsetOfParent
CHECK_DEADLOCK FALSE
