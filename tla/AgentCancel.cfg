SPECIFICATION AgentSpec
CONSTANTS
  Task = {t1, t2}
  Unknown = x
  Barrier = {b}
  Register = register
  Shutdown = shutdown
  Recoverable = FALSE
  RegisterWithBarrier = TRUE
  ShutdownWithBarrier = TRUE
  BarrierArgs <- AllTasks
  AliveArgs = {}
  Watcher = {}
  Rpcs = {"Register", "Shutdown", "Heartbeat", "Barrier", "Poll", "Cancel"}
  MaxIncarnation = 1
  MaxCounter = 1
  PollAtStartup = TRUE
  MaxIncidents = 1
CHECK_DEADLOCK FALSE
PROPERTY CancelAborts
