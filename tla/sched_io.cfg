\* io_wait with and without timeouts: two waiters of one fd, masks that are
\* ready in part, unblocks of waiting fibers.
SPECIFICATION FairSpec
CONSTANTS
  f1 = f1  f2 = f2  d1 = d1  t1 = t1
  Fibers = {f1, f2}
  Fds = {d1}
  Threads = {}
  IoEvents <- SomeMasks
  Timeouts <- Forever
  IoTimeouts <- OneOrNone
  NoTimeout = NoTimeout
  NoFiber = NoFiber
  NoThread = NoThread
  UserFibers = FALSE
  MaxToken = 3
  MaxTime = 1
  MaxUnblocks = 1
INVARIANTS RegistryAgrees TimeoutArmed WaiterKept ExitClean
PROPERTIES ReactorSound EventDelivered
CHECK_DEADLOCK FALSE
