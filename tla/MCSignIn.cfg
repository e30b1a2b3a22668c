SPECIFICATION FairSpec
CONSTANTS
  p1 = p1  p2 = p2  p3 = p3  nobody = nobody  none = none
  Procs = {p1, p2, p3}
  MaxSessions = 2
  MaxRenewals = 3
  MaxStarts = 4
  Nobody = nobody
  NoSignIn = none
CHECK_DEADLOCK FALSE
INVARIANTS
  StoredIsCurrent
  NoSpentToken
  SignOutIsFinal
PROPERTIES
  RenewalReplacesItself
  NobodyWaitsForever
