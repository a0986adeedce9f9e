SPECIFICATION MCSpec
CONSTANTS ua = ua ub = ub t1 = t1 t2 = t2
          User = {ua, ub} Slot = {1, 2, 3} File = {1} Worker = Worker Priv = Priv NULL = NULL
          Timeouts = FALSE KillAt = {"ready", "waiting"}
          TX = 3 RX = 2 Burst = 2 LateDone = FALSE PartialReads = FALSE
          SpiDev = {1, 2} Xfers = 3
          capacity = 4 Items = 5 Races = FALSE
INVARIANTS RequestsSound StreamSound ManagerSound CommandsSound LogExact
PROPERTIES FirstSlotServed QueueDrains TransferEnds CommandReturns LogProgress SpscIsFifo
CHECK_DEADLOCK FALSE
