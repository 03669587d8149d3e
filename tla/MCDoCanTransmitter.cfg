SPECIFICATION FairSpec
CONSTANTS long1 = long1
          long2 = long2
          short = short
          a = a
          b = b
          End = End
          Messages = {long1, short}
          FrameCount <- Frames
          Address <- OwnAddresses
          PoolSize = 2
          HwCapacity = 2
          TxTimeout = 1
          FcTimeout = 2
          SepTime = 1
          MaxWaitCount = 1
          MaxLate = 0
          BlockSizes = {0, 1}
          Statuses = {"CTS", "WAIT", "OVFLW", "INVALID"}
          BusMayStall = TRUE
          MayShutdown = TRUE
INVARIANTS FramesAsGranted CallbackWillCome
PROPERTY EveryMessageProcessed
CHECK_DEADLOCK FALSE
