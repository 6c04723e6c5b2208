SPECIFICATION MCSpec
CONSTANTS
  Alphabet <- Letters
  HiddenNames = {".h"}
  Matching = {"f"}
  Dirs = {"d"}
  Limit = 2
  Scrolloff = 1
  None = "none"
  StackMax = 3
  StackKeep = 1
  MaxChanges = 1
  MaxReads = 2
  MaxActs = 2
INVARIANT TypeOK
INVARIANT InSync
PROPERTY CursorFollows
INVARIANT SelectionSound
INVARIANT StackSound
CHECK_DEADLOCK FALSE
