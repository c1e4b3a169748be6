SPECIFICATION FairSpec
CONSTANTS
  t1 = t1
  t2 = t2
  x = x
  Task = {t1, t2}
  Unknown = x
  Barrier = {b}
  Register = register
  Shutdown = shutdown
  Recoverable = FALSE
  RegisterWithBarrier = FALSE
  ShutdownWithBarrier = FALSE
  BarrierArgs <- Subsets
  AliveArgs = {}
  Watcher = {}
  Rpcs = {"Register", "Barrier", "Cancel", "Shutdown"}
  MaxIncarnation = 1
  MaxCounter = 2
INVARIANTS TypeOK Bookkeeping
PROPERTIES ReleasedTogether BarrierCallsEnd
