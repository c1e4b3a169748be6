SPECIFICATION Spec
CONSTANTS
  text = text
  Caller = {c1, c2}
  Path <- Nested
  Text = {text}
  PutValues <- OneText
  Increments = {1}
  MinInt <- MinusOne
  MaxInt = 1
  NoValue = none
CHECK_DEADLOCK FALSE
SYMMETRY Symmetric
INVARIANTS TypeOK NoLostWakeup
PROPERTIES WaiterGetsCurrentValue DeletionIsComplete
