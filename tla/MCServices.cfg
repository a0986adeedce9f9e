SPECIFICATION MCSpec
CONSTANTS Priv = {"a", "b"} User = {"u"} Capacity = 2 MeetsLock = FALSE ResetRaces = FALSE NULL = NULL
          td = td to = to sa = sa sb = sb p1 = p1 p2 = p2 NONE = NONE block_count = 3
          Topic <- TopicSet Sub <- SubSet Producer <- ProducerSet Overwriting <- OverwriteSet
          MaxBlocks = 2 Uses <- BusUses
          Callback = {0, 1} BusHandle = {10} SnapSizes = {"fits"} Depth = 1 MaxPublish = 2 SetupRaces = FALSE
INVARIANTS FilesSound TextExact FormatExact OutputSound HeapsSound MpmcSound BusSound LoansBalance ConsumersServed
PROPERTIES EditorSound
SYMMETRY Symmetry
CHECK_DEADLOCK FALSE
