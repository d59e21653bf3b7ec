SPECIFICATION Spec
CONSTANTS
  g1 = g1
  g2 = g2
  g3 = g3
  g4 = g4
  g5 = g5
  g6 = g6
  o1 = o1
  Triggers = {g1, g2, g3}
  Orgs = {o1}
  NoOrg = NoOrg
  HandlerOf <- NoProcess
  Suspends = {g3}
  AutoApproved = {}
  ApproverOf <- SomeApprovers
  CallerOf <- Callers
  FlawsOf <- NoFlaws
  PlainTemplate = FALSE
  MaxCrashes = 1
CHECK_DEADLOCK FALSE
INVARIANTS
  NoProcessTriggersServed
