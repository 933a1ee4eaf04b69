SPECIFICATION Spec
CONSTANTS
  Programs = {"cos"}
  MaxParallel = 2
  Known = {"decompose", "sweep", "triage"}
  Registry = {"decompose", "sweep", "triage"}
  Batches <- MCBatches
  Items = {1, 2}
  Runs = {r1, r2}
  MaxInFlight = 2
  MaxPicks = 2
  MaxDispatches = 2
  Rescuer = {q1, q2}
  Build = {b1}
  MaxLaunches = 2
  MaxAttempts = 2
  MaxBody = 2
  MaxMain = 1
SYMMETRY Symmetric
INVARIANT ConsumedIsGated
CHECK_DEADLOCK FALSE
