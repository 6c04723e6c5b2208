SPECIFICATION FairSpec
CONSTANTS
  w1 = w1
  w2 = w2
  w3 = w3
  Waiters = {w1, w2}
  Want <- OneForTheStart
INVARIANT NoLostWakeup
PROPERTY EveryWaiterReturns
CHECK_DEADLOCK FALSE
