SPECIFICATION FairSpec
CONSTANTS
  t1 = t1
  t2 = t2
  Tasks = {t1, t2}
  Kinds = {"Copy", "Move", "Hardlink", "Download", "Upload", "Link", "Delete", "Trash", "Fetch", "Preload", "Plugin", "Size", "Block", "Orphan", "Bg", "Custom"}
  Mixes <- AloneOrTwo
  MaxItems = 2
  MaxOutputs = 2
  PoolSize <- TwoFileWorkers
  HookWorkers = 1
  Steered = {"Copy", "Move", "Plugin", "Custom"}
INVARIANT FailureIsQuiet
INVARIANT ReportIsEarned
INVARIANT SuccessIsComplete
INVARIANT NoHandleForgotten
INVARIANT HookIsSingle
INVARIANT NeverStranded
PROPERTY KeepsLifecycle
PROPERTY EveryTaskEnds
PROPERTY HookedLeaves
CHECK_DEADLOCK FALSE
