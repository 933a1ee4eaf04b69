SPECIFICATION Spec
CONSTANTS
  Phase = {1, 2, 3}
  NoPhase = 0
  Tickets <- MCTickets
  Claims = {c1}
  FixAttempts = 2
  Ceiling = 2
  Modes <- MCModes
  Declared = {"p", "q"}
  Near <- MCNear
  Plans <- MCPlans
  Sizes <- MCSizes
  Challenges <- MCChallenges
  Corrections <- MCCorrections
INVARIANTS
  LeftoverIsStuck
  RunsOnCompleteParents
  RecordIsHonest
  PlanIsSound
  NothingIsGuessed
PROPERTIES
  FixLoopIsFair
  EveryGraphEnds
CHECK_DEADLOCK FALSE
