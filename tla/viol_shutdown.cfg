\* Shutdown messages outnumber the room of the channel and the workers.
SPECIFICATION FairSpec
CONSTANTS
  w1 = w1  w2 = w2  v1 = v1  v2 = v2  j1 = j1  j2 = j2  j3 = j3
  Shutdown = Shutdown  NoJob = NoJob
  ThreadWorkers = {w1, w2}
  FiberWorkers = {}
  Jobs = {j1}
  GrpcJobs = {}
  BlockingSize = 1
  NonblockingSize = 1
  MaxBatch = 1
PROPERTIES ShutdownCompletes
CHECK_DEADLOCK FALSE
