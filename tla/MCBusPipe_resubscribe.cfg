SPECIFICATION PipeSpec
CONSTANTS
    depth = 2
    Mod = 20
    FirstSeq = 18
    MaxMessages = 6
    Uses <- Restless
INVARIANTS ReaderAligned
CHECK_DEADLOCK FALSE
