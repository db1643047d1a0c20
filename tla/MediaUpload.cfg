CONSTANTS
  b1 = b1
  k1 = k1
  k2 = k2
  u1 = u1
  u2 = u2
  Users = {u1, u2}
  Keys = {k1, k2}
  Uploads = {b1}
  Files <- OneBatch
  OfferOwner <- OneOwner
  Removers = {r1, r2}
  None = None
SPECIFICATION Spec
SYMMETRY Symmetry
INVARIANTS MediaInv BatchesWhole NoOrphans RowsHaveObjects
PROPERTIES WritesInScope
