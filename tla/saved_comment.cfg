SPECIFICATION Spec
CONSTANTS
  p1 = p1
  p2 = p2
  t1 = t1
  t2 = t2
  t3 = t3
  o1 = o1
  o2 = o2
  c0 = c0
  c1 = c1
  Pages = {p1, p2}
  Tasks = {t1}
  Orgs = {o1}
  Comments = {c0, c1}
  NoComment = c0
  NoTask = NoTask
  OrgOf <- OneOrg
  OwnerOf <- OneOwner
  KindOf <- Clearances
  MaxCrashes = 0

PROPERTY SavedCommentStays
