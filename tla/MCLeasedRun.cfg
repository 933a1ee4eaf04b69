SPECIFICATION FairRunSpec
CONSTANTS
  p1 = p1
  p2 = p2
  runA = runA
  runB = runB
  NoProc = NoProc
  NoHolder = NoHolder
  Proc = {p1, p2}
  Holder = {runA, runB}
  HolderOf <- TwoRuns
  Ttl = 1
  MaxLag = 0
  MaxTime = 2
  MaxEpoch = 2
  Faulty = {p1}
  MaxPauses = 1
PROPERTIES
  FencedWriteInTime
  LostWaitExecutesNothing
  SuccessorStartsAlone
  StoppedRunFreesLease
  OvertakenWaitEnds
  ImplementsLease
CHECK_DEADLOCK FALSE
