SPECIFICATION Spec
CONSTANTS
    idle = idle  ta = ta  tb = tb  tc = tc
    s1 = s1  s2 = s2  m1 = m1
    NULL = NULL
    Task <- TwoTasks
    Idle = idle
    Sem = {s1}
    Mutex = {}
    MaxPriority = 2
    BasePriority <- TwoRising
    InitReady <- ReadyTwo
    InitCount <- Taken
    Limit <- Binary
    MAX_PI_DEPTH = 4
    TakeTicks <- ForeverOr1
    WaitTicks <- ForeverOr1
    DelayTicks = {}
    Recursive = {}
    MaxRecursion = 2
    VAIOS_IPC_FD = TRUE
    FdLists <- OneFd
    MayExit = {}
    MayRelock = FALSE
INVARIANTS WaitResultNegative
