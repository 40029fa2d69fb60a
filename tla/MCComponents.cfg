CONSTANTS
    MSG_QUEUE_CAPACITY = 4
    Messages = {m1, m2}
    NoMessage = NoMessage
    AUDIT_CAPACITY = 3
    TRACE_BUFFER_SIZE = 2
    KBD_CAPACITY = 3
    ReadLimit = 2
    Events = {e1, e2}
    Traced = {e1}
    Tracers = {t1, t2}
    MaxEvents = 7
    MaxTraced = 5
    NoEvent = NoEvent
    HISTORY_SIZE = 2
    LINE_LENGTH = 2
    Keys = {a, b}
    Commands = 3
    Fanout = 4
    PAGE_SIZE = 2
    USIZE = 1024
    CodePage = 8
    StackPage = 15
    MemoryMaps <- MCMemoryMaps
    KernelFrame = 0
    SimLength = 16
    SimLines = 8
    MaxLines = 4
    MaxMatched = 2
    Registers = {1, 2}
    Clients = {Shell, Other}
    Shell = Shell
    None = None
    MAX_CAPS = 9
    MaxHeld = 8
    KvTyped <- MCText
    KV_VALUE_LEN = 2
    FsTyped <- MCPaths
    FS_NAME_LEN = 2
    FsData <- MCText
    FS_DATA_LEN = 2
    FS_MAX_NODES = 2
    LOG_CAPACITY = 2
    Kinds = {0, 1}
    MaxEntries = 4
    MAX_SERVICES = 2
    QueueLimit = 3
    MaxRuns = 4
    Nowhere = Nowhere
    TheShell = TheShell
    Others = {OtherTask}
    NoTask = NoTask
    MaxIds = 3
    MAX_RESTARTS = 2
    ArmAfter = 40
SPECIFICATION MCSpec
INVARIANTS
    DequeueFindsMessage
    RingsKeepOrder
    EditorShowsTheLine
    UserRangesAreOwnPages
    SimulatorsAreExact
    LogReadsInOrder
    OneKindReaderMissesNothing
    ServiceStaysReachable
    RestoreKeepsTasksConsistent
    RestoreKeepsIdsDistinct
    WatchdogRecovers
PROPERTIES
    Implements
    StoresImplement
CHECK_DEADLOCK FALSE
