SPECIFICATION FairSpec
CONSTANTS
  Thread = {1, 2, 3, 4}
  Key = {"a", "b", "x", "alone"}
  Barriers = {"x"}
  Programs <- SomePrograms
  Timeouts = TRUE
CHECK_DEADLOCK FALSE
INVARIANTS ChecksHold ParticipantsAgree AllValuesSeen NobodyLeavesEarly
PROPERTIES AllReturn
