CONSTANTS
  i1 = i1
  p1 = p1
  c1 = c1
  c2 = c2
  Instr = {i1}
  PayWorkers = {p1}
  CbWorkers = {c1, c2}
  ReconWorkers = {}
  CallbackKinds = {"PAID", "EXPIRED", "STRAY"}
  Callbacks <- MCCallbacks
  Kind <- MCKind
  Of <- MCOf
  PayAttempts = 1
  PayBatchSize = 1
  CbAttempts = 2
  CbBatchSize = 1
  MaxQueryAttempts = 1
  Tables = {"core", "snapshot"}
  Faults = {"noanswer"}
SPECIFICATION FairSpec
INVARIANTS
  LedgerHonest
  OutcomeSettles
PROPERTIES
  ReceivedIsProcessed
CHECK_DEADLOCK FALSE
