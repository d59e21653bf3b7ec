SPECIFICATION Spec
CONSTANTS
  b1 = b1
  p1 = p1
  p2 = p2
  u1 = u1
  u2 = u2
  Browsers = {b1}
  Pages = {p1, p2}
  BrowserOf <- MCBrowserOf
  Users = {u1, u2}
  Nobody = Nobody
  NoSession = NoSession
INVARIANTS
  TypeOK
  SuccessMeansDone
  NullUserExplained
PROPERTY
  Authenticated
