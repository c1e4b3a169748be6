SPECIFICATION AgentFairSpec
CONSTANTS
  Task = {t1, t2}
  Unknown = x
  Barrier = {}
  Register = register
  Shutdown = shutdown
  Recoverable = FALSE
  RegisterWithBarrier = TRUE
  ShutdownWithBarrier = TRUE
  BarrierArgs <- AllTasks
  AliveArgs = {}
  Watcher = {}
  Rpcs = {"Register", "Shutdown", "Heartbeat", "Barrier", "Poll"}
  MaxIncarnation = 2
  MaxCounter = 0
  PollAtStartup = TRUE
  MaxIncidents = 1
CHECK_DEADLOCK FALSE
PROPERTIES CallsReturn AgentsLearn FateIsShared
INVARIANT RequestsCanBeHandled
