SPECIFICATION FairSpec
CONSTANTS
  NumThunks = 4
  Graphs <- SomeGraphs
  QueueTypes = {"fifo", "lifo", "priority"}
  Runners = {TRUE, FALSE}
  MayBlock = {1, 2}
  SplitThreshold = 0
  MaxWorkers = 2
CHECK_DEADLOCK FALSE
INVARIANTS TypeOK OrderedThunksNeverOverlap NothingLeftAfterEvent NothingUsedAfterEvent
PROPERTIES KeepsSchedule QueuesFollowState ExecutionCompletes
