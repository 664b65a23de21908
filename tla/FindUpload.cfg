CONSTANTS
  p1 = p1
  p2 = p2
  Users = {"ann", "ben", "eve"}
  InitialLevel <- MCInitialLevel
  Promotable = {}
  MaxBatchInstructions = 1
  MaxVersion = 2
  Ceremonies = {1, 2}
  Policies = {p1, p2}
SPECIFICATION GSpec
INVARIANTS
  EditableTakesUpload
CHECK_DEADLOCK FALSE
