CONSTANTS
  i1 = i1
  p1 = p1
  c1 = c1
  r1 = r1
  Instr = {i1}
  PayWorkers = {p1}
  CbWorkers = {c1}
  ReconWorkers = {r1}
  CallbackKinds = {"STATUS_REFUSED", "PAID_BARE"}
  Callbacks <- MCCallbacks
  Kind <- MCKind
  Of <- MCOf
  PayAttempts = 1
  PayBatchSize = 1
  CbAttempts = 1
  CbBatchSize = 1
  MaxQueryAttempts = 1
  Tables = {"core", "snapshot"}
  Faults = {"noanswer", "crash", "dberror", "disable", "ingress"}
SYMMETRY Symmetry
SPECIFICATION Spec
INVARIANTS
  TimeoutVisible
PROPERTIES
  FollowsTable
CHECK_DEADLOCK FALSE
