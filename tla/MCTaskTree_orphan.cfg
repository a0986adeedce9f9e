SPECIFICATION Spec
CONSTANTS
    MAX_PRIORITY = 2
    VAIOS_TASK_MAX_CHILDREN = 1
    VAIOS_MPU_FAULT_RESTART = FALSE
    VAIOS_MPU_FAULT_RESTART_MAX = 1
    Roots <- Supervised
    SpawnPriorities = {1}
    SpawnPolicies <- Asks
    Blobs = {1}
    Uses <- Trees
    MaxTasks = 5
INVARIANTS NoOrphans
CHECK_DEADLOCK FALSE
