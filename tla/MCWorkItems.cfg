SPECIFICATION WorkItemsSpec
CONSTANTS
  d1 = d1
  d2 = d2
  h1 = h1
  h2 = h2
  NoOne = NoOne
  Driver = {d1, d2}
  Claimer = {h1, h2}
  ClaimTtl = 1
  MaxTime = 2
  MaxOps = 4
INVARIANTS
  FileFollowsRow
  ClaimStands
  UniqueClaims
PROPERTIES
  KnowingMoves
  MirrorSettles
SYMMETRY Interchangeable
CHECK_DEADLOCK FALSE
