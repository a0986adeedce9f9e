SPECIFICATION MCSpec
CONSTANTS NONE = NONE idle = idle ta = ta tb = tb tc = tc m1 = m1 m2 = m2
          la = la lb = lb Handle = Handle Cyclic = Cyclic Kernel = Kernel NULL = NULL
          Locker = {la, lb} Slot = {1, 2} Prio <- Prios Period = 1 Timeouts = TRUE KillAt <- Anywhere
          depth = 3 Mod = 20 FirstSeq = 18 MaxMessages = 6 Uses <- PipeUses
INVARIANTS PipeSound ChainsSound Arbitration TransfersMine
PROPERTIES TreeSound
SYMMETRY Symmetry
CHECK_DEADLOCK FALSE
