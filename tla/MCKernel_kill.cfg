SPECIFICATION Spec
CONSTANTS
    idle = idle  ta = ta  tb = tb  tc = tc
    s1 = s1  s2 = s2  m1 = m1
    NULL = NULL
    Task <- ThreeTasks
    Idle = idle
    Sem = {s1}
    Mutex = {m1}
    MaxPriority = 3
    BasePriority <- ThreeRising
    InitReady <- ReadyThree
    InitCount <- Taken
    Limit <- Binary
    MAX_PI_DEPTH = 4
    TakeTicks <- ForeverOr1
    WaitTicks = {}
    DelayTicks = {}
    Recursive = {m1}
    MaxRecursion = 1
    VAIOS_IPC_FD = FALSE
    FdLists = {}
    MayExit = {ta}
    MayRelock = FALSE
INVARIANTS TypeOK NoLostWakeup MutexOwnership ListsSound LocksSound
PROPERTIES DeadStaysDead
