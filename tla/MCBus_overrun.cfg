SPECIFICATION BusSpec
CONSTANTS
    to = to  sa = sa  p1 = p1  NONE = NONE
    block_count = 2
    Topic = {to}
    Sub = {sa}
    Producer = {p1}
    Overwriting = {to}
    MaxBlocks = 2
    Uses <- CopyOnly
INVARIANTS CopyInRange
CHECK_DEADLOCK FALSE
