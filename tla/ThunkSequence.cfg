SPECIFICATION SequenceSpec
CONSTANTS
  NumOperations = 5
  Programs <- AllPrograms
  Executed <- Runs
CHECK_DEADLOCK FALSE
INVARIANTS ConflictsStayOrdered ReductionIsMinimal PriorityCountsDependents
INVARIANTS NoDataRaces CollectivesStartInOrder
