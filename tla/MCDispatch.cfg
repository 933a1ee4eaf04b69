SPECIFICATION Spec
CONSTANTS
  Programs = {"fan_out", "cos", "rescue"}
  MaxParallel = 2
  Known = {"decompose", "sweep", "triage"}
  Registry = {"decompose", "sweep", "triage"}
  Batches <- MCBatches
  Items = {1, 2}
  Runs = {r1, r2}
  MaxInFlight = 2
  MaxPicks = 2
  MaxDispatches = 2
  Rescuer = {q1, q2}
  Build = {b1}
  MaxLaunches = 2
  MaxAttempts = 2
  MaxBody = 2
  MaxMain = 1
SYMMETRY Symmetric
INVARIANTS
  DispatchFits
  IdeasAreHandledOnce
  RescueIsSparing
PROPERTIES
  FanOutIsHonest
  RescueGivesWay
CHECK_DEADLOCK FALSE
