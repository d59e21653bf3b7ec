SPECIFICATION Spec
CONSTANTS
  g1 = g1
  g2 = g2
  g3 = g3
  Triggers = {g1, g2, g3}
  MAX_ATTEMPTS = 5
  MaxCrashes = 1
CHECK_DEADLOCK FALSE
INVARIANTS
  TypeOK
  ForgottenAfterAllAttempts
  InTurn
PROPERTIES
  QueueMoves
  QueueAdvances
