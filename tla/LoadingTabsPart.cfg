SPECIFICATION Spec
CONSTANTS
  t1 = t1
  t2 = t2
  Tabs = {t1, t2}
  Remote = FALSE
  Blank = FALSE
  Parts = 2
  MaxVersion = 0
  MaxLooks = 4
  MaxTicks = 0
INVARIANT LoadedIsWhole
CHECK_DEADLOCK FALSE
