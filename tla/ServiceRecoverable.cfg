SPECIFICATION Spec
CONSTANTS
  t1 = t1
  t2 = t2
  x = x
  Task = {t1, t2}
  Unknown = x
  Barrier = {b}
  Register = register
  Shutdown = shutdown
  Recoverable = TRUE
  RegisterWithBarrier = TRUE
  ShutdownWithBarrier = TRUE
  BarrierArgs <- AllTasks
  AliveArgs <- Pair
  Watcher = {w}
  Rpcs = {"Register", "Shutdown", "Heartbeat", "Barrier", "Reset", "Alive", "Watch", "Report", "Stop"}
  MaxIncarnation = 2
  MaxCounter = 1
SYMMETRY Symmetric
INVARIANTS WaitingRegistrationIsCurrent NoMissedUpdate AliveCallWaitsForSomeone
PROPERTIES ReleasedTogether CallsEndWithConnection
