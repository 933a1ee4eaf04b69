SPECIFICATION Spec
CONSTANTS
  Programs = {"session", "log", "api"}
  Workers = {w1}
  MaxLogged = 5
  Setups <- MCSetups
  NoLimit = 100
  Stale = {1}
  Overshoot = 1
  MaxOwn = 2
  MaxMishaps = 1
  Files <- MCFiles
  Texts <- MCTexts
  Base = "a"
  Outside = "out"
  Batches <- MCBatches
  TurnCap = 2
  CheckTimeout = 2
  CheckTotal = 3
  NoBudget = NoBudget
  Threads = {t1, NoThread}
  NoThread = NoThread
  MaxTokens = 2
  Longest = 2
  Inputs = {1, 2}
  Budget = 2
  MaxCalls = 2
INVARIANTS
  SessionBooks
  LogsAgree
  BooksBalance
  LoopKeepsItsBounds
PROPERTIES
  SessionKeepsItsLimits
CHECK_DEADLOCK FALSE
