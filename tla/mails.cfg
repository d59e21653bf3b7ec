SPECIFICATION Spec
CONSTANTS
  x = x
  y = y
  t = t
  Names = {x, y}
  Other = t
  Missing = Missing
  NullValue = NullValue
  Values <- MCValues
  Templates <- MCTemplates
  MaxLength = 18
CHECK_DEADLOCK FALSE
INVARIANTS
  TypeOK
  NoneCircular
  DoneIsExpanded
  FailureExplained
PROPERTIES
  Ends
  RoundsFall
