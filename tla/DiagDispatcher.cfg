SPECIFICATION FairSpec
CONSTANTS
  Connections = {c1}
  NumBuffers = 2
  NumShortBuffers = 0
  QueueSize = 4
  NestedRequests = 2
INVARIANTS BuffersHeldOnce NothingOutlivesConnection OneMessageInFlight
PROPERTIES NothingAfterFinalResponse RequestGivenBack
CHECK_DEADLOCK FALSE
