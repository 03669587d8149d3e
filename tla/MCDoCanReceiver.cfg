SPECIFICATION FairSpec
CONSTANTS
  a = a
  b = b
  Addresses = {a, b}
  Functional = {b}
  Rejected <- TwoFrames
  FrameCounts = {1, 2, 3}
  PoolSize = 2
  Buffers = 1
  MaxBlockSize = 1
  MaxRetry = 2
  RxTimeout = 2
  AllocateTimeout = 1
  MaxLate = 1
  FcMayFail = TRUE
  MaxMessages = 4
INVARIANTS BuffersConserved DeliveredAsSent FinishedLeave TimeoutsNoticed
PROPERTY ReceptionEnds
