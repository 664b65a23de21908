CONSTANTS
  i1 = i1
  p1 = p1
  p2 = p2
  c1 = c1
  Instr = {i1}
  PayWorkers = {p1, p2}
  CbWorkers = {c1}
  ReconWorkers = {}
  CallbackKinds = {"PAID", "EXPIRED"}
  Callbacks <- MCCallbacks
  Kind <- MCKind
  Of <- MCOf
  PayAttempts = 2
  PayBatchSize = 1
  CbAttempts = 1
  CbBatchSize = 1
  MaxQueryAttempts = 1
  Tables = {"core", "snapshot"}
  Faults = {"crash", "lease", "throttle", "noanswer", "malformed"}
SYMMETRY Symmetry
SPECIFICATION Spec
INVARIANTS
  TypeOK
  AtMostOneRequest
  ClaimTracksTransaction
  ContradictionHasCase
CHECK_DEADLOCK FALSE
