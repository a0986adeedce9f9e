SPECIFICATION MCSpec
CONSTANTS
    x = x  y = y
    NONE = NONE  idle = idle  ta = ta  tb = tb  tc = tc  m1 = m1
    Item = {x, y}
    n = 2
    Mod = 4
INVARIANTS RingSound
PROPERTIES TimedWaitEnds TopPriorityRuns FifoSpec SleeperWakes DataConsumed
