SPECIFICATION MCSpec
CONSTANTS
  Phase = {1, 2}
  NoPhase = 0
  Task = {1, 3}
  PhaseOf <- MCPhaseOf
  Needs <- MCNeeds
  GitFaults = TRUE
  MaxRuns = 2
  MaxMishaps = 0
PROPERTIES
  UnlandedSurvives
CHECK_DEADLOCK FALSE
