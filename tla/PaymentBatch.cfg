CONSTANTS
  i1 = i1
  i2 = i2
  p1 = p1
  c1 = c1
  c2 = c2
  Instr = {i1, i2}
  PayWorkers = {p1}
  CbWorkers = {c1, c2}
  ReconWorkers = {}
  CallbackKinds = {"PAID"}
  Callbacks <- MCCallbacks
  Kind <- MCKind
  Of <- MCOf
  PayAttempts = 1
  PayBatchSize = 1
  CbAttempts = 1
  CbBatchSize = 1
  MaxQueryAttempts = 1
  Tables = {"core", "snapshot"}
  Faults = {"noanswer"}
SPECIFICATION FairSpec
INVARIANTS
  RollUpHonest
PROPERTIES
  LedgerSpec
  LastOutcomeSettles
CHECK_DEADLOCK FALSE
