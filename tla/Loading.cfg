SPECIFICATION Spec
CONSTANTS
  t1 = t1
  t2 = t2
  Tabs = {t1, t2}
  Remote = TRUE
  Blank = TRUE
  Parts = 2
  MaxVersion = 1
  MaxLooks = 3
  MaxTicks = 1
INVARIANT BusyIsAnswered
INVARIANT OneReading
INVARIANT NeverBlind
SYMMETRY TabSymmetry
CHECK_DEADLOCK FALSE
