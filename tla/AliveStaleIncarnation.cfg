SPECIFICATION Spec
CONSTANTS
  t1 = t1
  t2 = t2
  x = x
  Task = {t1, t2}
  Unknown = x
  Barrier = {b}
  Register = register
  Shutdown = shutdown
  Recoverable = TRUE
  RegisterWithBarrier = FALSE
  ShutdownWithBarrier = FALSE
  BarrierArgs <- AllTasks
  AliveArgs <- Pair
  Watcher = {}
  Rpcs = {"Register", "Alive"}
  MaxIncarnation = 2
  MaxCounter = 1
PROPERTIES AliveIncarnationsHaveCalled
