CONSTANTS
  j1 = j1
  j2 = j2
  w1 = w1
  w2 = w2
  Jobs <- MCJobs
  Workers <- MCWorkers
  MaxAttempts = 2
  BatchSize = 2
SPECIFICATION QFairSpec
INVARIANTS
  QTypeOK
  BudgetRespected
  DeliveriesCounted
  NoFalseAck
PROPERTIES
  TerminalStays
  EveryJobEnds
CHECK_DEADLOCK FALSE
