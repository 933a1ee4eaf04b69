SPECIFICATION Spec
CONSTANTS
  p1 = p1
  p2 = p2
  p3 = p3
  runA = runA
  runB = runB
  NoProc = NoProc
  NoHolder = NoHolder
  Proc = {p1, p2, p3}
  Holder = {runA, runB}
  HolderOf <- MCHolderOf
  Ttl = 2
  MaxLag = 1
  MaxTime = 4
  MaxEpoch = 2
  o1 = o1
  o2 = o2
  o3 = o3
  Opener = {o1, o2, o3}
  Packages <- MCPackages
  Now <- Apart
  Override = {o3}
  MaxOpens = 1
  Order <- RunsThenAttempts
  Created <- MCCreated
  Refreshed <- MCRefreshed
  ParentTable = "runs"
  ChildTable = "attempts"
  Key = {1, 2, 3}
  MaxContent = 2
  Batch = 2
  SourceLive = TRUE
  DestLive = TRUE
  MaxCopies = 2
INVARIANTS
  UniqueGrants
  FencedIsNewest
  ReleasedIsDead
PROPERTIES
  NoSilentTakeover
  ImplementsLeaderEpoch
  OneHistory
  CopyIsFaithful
SYMMETRY Relaunches
CHECK_DEADLOCK FALSE
