CONSTANTS
  i1 = i1
  p1 = p1
  c1 = c1
  r1 = r1
  Instr = {i1}
  PayWorkers = {p1}
  CbWorkers = {c1}
  ReconWorkers = {r1}
  CallbackKinds = {"STATUS_OPEN"}
  Callbacks <- MCCallbacks
  Kind <- MCKind
  Of <- MCOf
  PayAttempts = 1
  PayBatchSize = 1
  CbAttempts = 1
  CbBatchSize = 1
  MaxQueryAttempts = 1
  Tables = {"core", "snapshot"}
  Faults = {"noanswer"}
SPECIFICATION FairSpec
PROPERTIES
  UnfinishedIsSurfaced
CHECK_DEADLOCK FALSE
