SPECIFICATION Spec
CONSTANTS long1 = long1
          long2 = long2
          short = short
          a = a
          b = b
          End = End
          Messages = {long1, long2, short}
          FrameCount <- Frames
          Address <- OwnAddresses
          PoolSize = 3
          HwCapacity = 2
          TxTimeout = 1
          FcTimeout = 2
          SepTime = 1
          MaxWaitCount = 1
          MaxLate = 0
          BlockSizes = {0, 1}
          Statuses = {"CTS"}
          BusMayStall = FALSE
          MayShutdown = FALSE
INVARIANTS ListIsConsistent CountedFramesWereSent GrantIsHeard
PROPERTY CompletedStaysCompleted
CHECK_DEADLOCK FALSE
