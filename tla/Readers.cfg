CONSTANTS
  Properties = {1, 2}
  UnitTypes = {1, 2}
  Offers = {1, 2, 3}
  Media = {1, 2}
  PropertyOf <- MCPropertyOf
  UnitOf <- MCUnitOf
  TargetOf <- MCTargetOf
  Images = {1}
  Prices = {100, 200}
  MaxWrites = 2
  Completeness <- MCCompleteness
  MaxInt4 = 299
  MaxInt = 499
  Searches <- MCSearches
  MaxPage = 2
  u1 = u1
  u2 = u2
  o1 = o1
  o2 = o2
  Students = {u1}
  OfferIds = {o1, o2}
  AgentUser <- MCAgentUser
  Messages = {m1, m2}
  Submissions = {s1, s2}
  Requests = {r1, r2}
  None = None
SPECIFICATION ReadersSpec
SYMMETRY Symmetry
INVARIANTS
  BrowsingInv
  DetailsHold
  InquiryInv
  HandoffMatches
  RefusalsInv
\* A student may stop asking: every sheet is closed and nothing is left to do.
CHECK_DEADLOCK FALSE
