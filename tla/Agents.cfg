SPECIFICATION AgentSpec
CONSTANTS
  Task = {t1, t2}
  Unknown = x
  Barrier = {b}
  Register = register
  Shutdown = shutdown
  Recoverable = FALSE
  RegisterWithBarrier = TRUE
  ShutdownWithBarrier = TRUE
  BarrierArgs <- AllTasks
  AliveArgs = {}
  Watcher = {}
  Rpcs = {"Register", "Shutdown", "Heartbeat", "Barrier", "Poll", "Cancel"}
  MaxIncarnation = 2
  MaxCounter = 1
  PollAtStartup = FALSE
  MaxIncidents = 2
SYMMETRY Symmetric
CHECK_DEADLOCK FALSE
INVARIANTS AgentTypeOK ReleaseMeansAllCalled NeverAhead
