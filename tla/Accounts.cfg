CONSTANTS
  r1 = r1
  r2 = r2
  s1 = s1
  s2 = s2
  Users = {"ada", "sam"}
  InitialAccounts <- MCInitialAccounts
  Requests = {r1, r2}
  Sessions = {s1, s2}
  MaxFailed = 2
  MaxRequests = 4
SPECIFICATION ASpec
INVARIANTS
  ATypeOK
  CodeOnce
  SessionsBurned
PROPERTIES
  OutStaysOut
SYMMETRY MCSymmetry
CHECK_DEADLOCK FALSE
