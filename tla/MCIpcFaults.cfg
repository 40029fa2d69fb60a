CONSTANTS
    MAX_TASKS = 3
    MSG_QUEUE_CAPACITY = 1
    MAX_CAPS = 1
    KernelTasks = {0, 1}
    BootTasks = {0, 1, 2}
    BootChan <- OpenChainOfChannels
    MaxSends = 1
    MaxSlotOps = 2
    MaxCapOps = 1
    NoTask = NoTask
    NoMsg = NoMsg
SPECIFICATION Spec
INVARIANTS
    ActiveTaskIsRunning
    NoLostWakeup
    ParkedMessageIsPending
    NobodyWaitsForTheDead
    SendResultIsTruthful
