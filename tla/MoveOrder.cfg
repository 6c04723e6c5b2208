SPECIFICATION FairSpec
CONSTANTS
  m1 = m1
  m2 = m2
  Moves = {m1, m2}
  Workers = 2
  MaxItems = 2
INVARIANT LinksBeforeFiles
PROPERTY MovesEnd
PROPERTY CanceledEnds
CHECK_DEADLOCK FALSE
