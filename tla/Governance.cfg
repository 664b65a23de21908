CONSTANTS
  p1 = p1
  p2 = p2
  Users = {"ann", "ben", "eve"}
  InitialLevel <- MCInitialLevel
  Promotable = {"ann", "ben"}
  MaxBatchInstructions = 1
  MaxVersion = 3
  Ceremonies = {1, 2}
  Policies = {p1, p2}
SPECIFICATION GFairSpec
INVARIANTS
  GTypeOK
  CeremonyMatchesState
  ReleasedOnce
  Chained
PROPERTIES
  PromiseKept
  OutIsOut
  CeremonyEnds
CHECK_DEADLOCK FALSE
