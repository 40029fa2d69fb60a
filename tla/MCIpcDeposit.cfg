CONSTANTS
    MAX_TASKS = 3
    MSG_QUEUE_CAPACITY = 1
    MAX_CAPS = 1
    KernelTasks = {0, 1}
    BootTasks = {0, 1, 2}
    BootChan <- RingOfChannels
    MaxSends = 2
    MaxSlotOps = 0
    MaxCapOps = 0
    NoTask = NoTask
    NoMsg = NoMsg
SPECIFICATION Spec
PROPERTY DepositIsObserved
