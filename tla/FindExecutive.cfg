CONSTANTS
  r1 = r1
  s1 = s1
  Users = {"ada", "sam"}
  InitialAccounts <- MCInitialAccounts
  Requests = {r1}
  Sessions = {s1}
  MaxFailed = 2
  MaxRequests = 3
SPECIFICATION ASpec
INVARIANT
  NeverWithoutExecutive
CHECK_DEADLOCK FALSE
