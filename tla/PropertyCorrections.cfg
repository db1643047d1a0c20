CONSTANTS
  name = name
  area = area
  v1 = v1
  v2 = v2
  Users = {u1, u2}
  Fields = {name, area}
  AuditedFields = {name, area}
  Values = {v1, v2}
  Patches <- SomePatches
  Procs = {p1, p2}
  MaxVersion = 3
  None = None
SPECIFICATION Spec
SYMMETRY Symmetry
INVARIANTS
  RecordInv
PROPERTIES
  NoLostUpdate
  CorrectedInScope
