SPECIFICATION Spec
CONSTANTS
  t1 = t1
  t2 = t2
  x = x
  Task = {t1, t2}
  Unknown = x
  Barrier = {b}
  Register = register
  Shutdown = shutdown
  Recoverable = FALSE
  RegisterWithBarrier = TRUE
  ShutdownWithBarrier = TRUE
  BarrierArgs <- AllTasks
  AliveArgs = {}
  Watcher = {w}
  Rpcs = {"Register", "Shutdown", "Heartbeat", "Barrier", "Poll", "Stop", "Watch"}
  MaxIncarnation = 2
  MaxCounter = 0
SYMMETRY Symmetric
INVARIANTS NoBarrierWaitsForFailedTask
PROPERTIES NoCallIsDropped ErrorReachesAll
