SPECIFICATION Spec
CONSTANTS
    idle = idle  ta = ta  tb = tb  tc = tc
    s1 = s1  s2 = s2  m1 = m1
    NULL = NULL
    Task <- ThreeTasks
    Idle = idle
    Sem = {s1, s2}
    Mutex = {}
    MaxPriority = 3
    BasePriority <- ThreeRising
    InitReady <- ReadyThree
    InitCount <- Taken
    Limit <- Binary
    MAX_PI_DEPTH = 4
    TakeTicks <- Forever
    WaitTicks <- ForeverOr1
    DelayTicks = {1, 2}
    Recursive = {}
    MaxRecursion = 2
    VAIOS_IPC_FD = TRUE
    FdLists <- TwoFds
    MayExit = {}
    MayRelock = FALSE
INVARIANTS MultiwaitSound NothingOverdue
