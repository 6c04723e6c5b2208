SPECIFICATION FairSpec
CONSTANTS
  t1 = t1
  t2 = t2
  Tabs = {t1}
  Remote = FALSE
  Blank = FALSE
  Parts = 2
  MaxVersion = 1
  MaxLooks = 3
  MaxTicks = 0
INVARIANT LoadedIsWhole
PROPERTY ShownLoads
PROPERTY PreviewCatchesUp
CHECK_DEADLOCK FALSE
