SPECIFICATION SystemSpec
CONSTANTS
  p1 = p1
  t1 = t1
  t2 = t2
  o1 = o1
  c0 = c0
  Tasks = {t1, t2}
  Orgs = {o1}
  NoOrg = NoOrg
  HandlerOf <- MCHandlers
  Suspends = {t1}
  AutoApproved = {}
  CallerOf <- MCOwners
  FlawsOf <- MCFlaws
  PlainTemplate = TRUE
  Pages = {p1}
  Comments = {c0}
  NoComment = c0
  NoTask = NoTask
  OrgOf <- MCPages
  OwnerOf <- MCOwners
  KindOf <- MCKinds
  MaxCrashes = 1
INVARIANTS
  KindRespected
  NobodyForgotten
  DecidedWasAcknowledged
PROPERTIES
  IsTaskServlet
