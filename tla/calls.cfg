SPECIFICATION Spec
CONSTANTS
  approve = approve
  details = details
  Calls = {approve, details}
  Commands = {approve}
CHECK_DEADLOCK FALSE
INVARIANTS
  TypeOK
  ReturnedIsServed
  WaitingHasReason
PROPERTY CallsEnd
