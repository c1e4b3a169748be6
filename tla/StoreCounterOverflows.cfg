SPECIFICATION Spec
CONSTANTS
  text = text
  Caller = {c1}
  Path <- Flat
  Text = {text}
  PutValues <- OneText
  Increments = {1}
  MinInt <- MinusOne
  MaxInt = 1
  NoValue = none
CHECK_DEADLOCK FALSE
PROPERTIES NumbersAreIncremented
