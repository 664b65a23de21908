CONSTANTS
  s1 = s1
  s2 = s2
  s3 = s3
  m1 = m1
  w1 = w1
  w2 = w2
  Scheduled = {s1}
  Manual = {m1}
  Workers = {w1, w2}
  Keeps = {1}
  MaxFailures = 2
  Deliveries = 2
  MaxRuns = 2
  MaxDeaths = 1
  MaxChanges = 1
SPECIFICATION BFairSpec
INVARIANTS
  BTypeOK
  LatestIsThere
  FailuresSuspend
  NoLostWindow
PROPERTIES
  SuccessStands
  DueIsTakenUp
CHECK_DEADLOCK FALSE
