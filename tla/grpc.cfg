SPECIFICATION FairSpec
CONSTANTS
  MaxFrames = 4
  Capacity = 2
  MaxChunks = 3
  PipeCapacity = 2
INVARIANTS NilOnlyAfterLoss
PROPERTIES StreamPromise WriterReleased StatusDelivered
CHECK_DEADLOCK FALSE
