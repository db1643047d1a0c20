CONSTANTS
  u1 = u1
  u2 = u2
  c1 = c1
  c2 = c2
  n1 = n1
  n2 = n2
  a1 = a1
  a2 = a2
  a3 = a3
  Users = {u1, u2}
  Campuses = {c1, c2}
  ActiveCampuses = {c1}
  Phones = {n1, n2}
  Agents = {g1, g2}
  Procs = {p1, p2}
  Apps = {a1, a2, a3}
  ApplicantOf <- RepeatApplicant
  CampusOf <- RepeatCampus
  PhoneOf <- RepeatPhone
  Roles <- RepeatRoles
  Global = Global
  None = None
SPECIFICATION FairSpec
INVARIANTS
  IInv
PROPERTIES
  ImplementsStages
  EveryRequestAnswered
