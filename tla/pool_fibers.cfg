\* Two fiber workers share one channel.
SPECIFICATION Spec
CONSTANTS
  w1 = w1  w2 = w2  v1 = v1  v2 = v2  j1 = j1  j2 = j2  j3 = j3
  Shutdown = Shutdown  NoJob = NoJob
  ThreadWorkers = {}
  FiberWorkers = {v1, v2}
  Jobs = {j1, j2, j3}
  GrpcJobs = {}
  BlockingSize = 2
  NonblockingSize = 1
  MaxBatch = 1
INVARIANTS Handshake JobInOnePlace
CHECK_DEADLOCK FALSE
