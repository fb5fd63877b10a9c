\* A thread worker and a fiber worker, each with its channel.
SPECIFICATION FairSpec
CONSTANTS
  w1 = w1  w2 = w2  v1 = v1  v2 = v2  j1 = j1  j2 = j2  j3 = j3
  Shutdown = Shutdown  NoJob = NoJob
  ThreadWorkers = {w1}
  FiberWorkers = {v1}
  Jobs = {j1, j2}
  GrpcJobs = {j2}
  BlockingSize = 3
  NonblockingSize = 3
  MaxBatch = 1
INVARIANTS EnoughShutdowns GracefulDrain
PROPERTIES RefusedOnlyLate JobServed ShutdownCompletes
CHECK_DEADLOCK FALSE
