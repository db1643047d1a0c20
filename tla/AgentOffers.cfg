CONSTANTS
  n1 = n1
  n2 = n2
  Agents = {a1}
  Operators = {a1, u1}
  Prices = {n1, n2}
  Drafts <- NewOffer
  Patches <- SomePatches
  Procs = {p1, p2}
  MaxVersion = 3
  None = None
SPECIFICATION Spec
SYMMETRY Symmetry
INVARIANTS
  OfferInv
PROPERTIES
  NoLostUpdate
  ArchiveIsFinal
  EditedInScope
