SPECIFICATION FairSpec
CONSTANTS
  d1 = d1
  d2 = d2
  d3 = d3
  b1 = b1
  b2 = b2
  Dirs = {d1, d2, d3}
  Batches = {b1, b2}
  Workers = 2
  Cancelable = {d3}
INVARIANT OneTaskPerDir
INVARIANT MarkIsOwed
PROPERTY SizesArrive
CHECK_DEADLOCK FALSE
