CONSTANTS
  i1 = i1
  p1 = p1
  c1 = c1
  Instr = {i1}
  PayWorkers = {p1}
  CbWorkers = {c1}
  ReconWorkers = {}
  CallbackKinds = {"PAID"}
  Callbacks <- MCCallbacks
  Kind <- MCKind
  Of <- MCOf
  PayAttempts = 1
  PayBatchSize = 1
  CbAttempts = 1
  CbBatchSize = 1
  MaxQueryAttempts = 1
  Tables = {"core"}
  Faults = {}
SPECIFICATION FairSpec
PROPERTIES
  ReleasedIsSubmitted
CHECK_DEADLOCK FALSE
