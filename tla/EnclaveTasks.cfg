SPECIFICATION FairSpec
CONSTANTS
    h = h
    l = l
    u = u
    Threads = {h, l, u}
    Calls <- Worker
    ENC_MAX_THREAD_NUM = 2
    ENC_RESERVED_THREAD_NUM = 1
    ENC_PERMANENT_TASK_NUM = 1
    ENC_TASK_TIMEOUT = 2
    MaxRaces = 1
INVARIANTS
    WithinCapacity
    SlotInv
    ReserveKept
    UpgradeSeesCalls
PROPERTIES
    ImpatientReturn
