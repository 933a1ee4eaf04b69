SPECIFICATION MCSpec
CONSTANTS
  Phase = {1, 2}
  NoPhase = 0
  Task = {1, 2, 3}
  PhaseOf <- MCPhaseOf
  Needs <- MCNeeds
  GitFaults = FALSE
  MaxRuns = 2
  MaxMishaps = 2
INVARIANTS
  CappedAttempts
PROPERTIES
  BuildsOnNeeds
  UnlandedSurvives
  ApprovedIsKept
  QuarantineIsStored
CHECK_DEADLOCK FALSE
