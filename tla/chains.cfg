SPECIFICATION Spec
CONSTANTS
  g1 = g1
  g2 = g2
  g3 = g3
  g4 = g4
  g5 = g5
  g6 = g6
  o1 = o1
  Triggers = {g1, g2, g3, g4, g5, g6}
  Orgs = {o1}
  NoOrg = NoOrg
  HandlerOf <- OneOfEach
  Suspends = {g1, g4}
  AutoApproved = {g4}
  ApproverOf <- SomeApprovers
  CallerOf <- Callers
  FlawsOf <- SomeFlaws
  PlainTemplate = TRUE
  MaxCrashes = 1
CHECK_DEADLOCK FALSE
INVARIANTS
  TypeOK
  AcknowledgedIsPending
  MailThenTask
  FaultExplained
