\* Every unblock and every timeout is delivered, among fibers that the program
\* creates or suspends itself too.
SPECIFICATION FairSpec
CONSTANTS
  f1 = f1  f2 = f2  d1 = d1  t1 = t1
  Fibers = {f1, f2}
  Fds = {}
  Threads = {t1}
  IoEvents <- NoIo
  Timeouts <- OneOrNone
  IoTimeouts <- NoIo
  NoTimeout = NoTimeout
  NoFiber = NoFiber
  NoThread = NoThread
  UserFibers = TRUE
  MaxToken = 2
  MaxTime = 1
  MaxUnblocks = 1
INVARIANTS WaitBookkeeping WakeSources
PROPERTIES WakeJustified UnblockDelivered TimeoutDelivered
CHECK_DEADLOCK FALSE
