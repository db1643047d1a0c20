CONSTANTS
  u1 = u1
  u2 = u2
  u3 = u3
  s1 = s1
  s2 = s2
  Users = {u1, u2, u3}
  Registered = {u1, u2}
  Campuses = {c1}
  Global = Global
  Sessions = {s1, s2}
  OwnerOf <- TwoSessions
  Procs = {p1, p2}
  MaxEvents = 2
  None = None
SPECIFICATION Spec
SYMMETRY Symmetry
INVARIANTS RolesInv OnlySessionsDeadlock
PROPERTIES BootstrapIsFirst ActorsAreAdmins
\* The runs of the CLI may all be over.
CHECK_DEADLOCK FALSE
