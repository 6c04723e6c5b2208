SPECIFICATION FairSpec
CONSTANTS
  r1 = r1
  r2 = r2
  r3 = r3
  Requests = {r1, r2, r3}
  IdSpace = 4
  None = None
INVARIANT NobodyLeftBehind
INVARIANT OwnAnswer
PROPERTY LossIsTold
CHECK_DEADLOCK FALSE
