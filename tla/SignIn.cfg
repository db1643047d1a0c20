CONSTANTS
  g1 = g1
  g2 = g2
  e1 = e1
  e2 = e2
  u1 = u1
  u2 = u2
  t1 = t1
  t2 = t2
  Subjects = {g1, g2}
  Emails = {e1, e2}
  UserIDs = {u1, u2}
  Tabs = {t1, t2}
  EarlierEmail <- MCEmail
  EarlierUser <- MCUser
  Pasts <- MCPasts
  MaxRequests = 4
  None = None
SPECIFICATION FairSpec
INVARIANTS
  SignInInv
  SignedInAsConsented
  TokensAgree
PROPERTIES
  EveryRequestAnswered
CHECK_DEADLOCK FALSE
