SPECIFICATION PreloadsFairSpec
CONSTANTS
  t1 = t1
  t2 = t2
  f1 = f1
  p1 = p1
  Tasks = {t1, t2}
  Kinds = {"Preload"}
  Mixes <- AllMixes
  MaxItems = 0
  MaxOutputs = 0
  PoolSize <- OneWorkerEach
  HookWorkers = 1
  Steered = {}
  Files = {f1}
  Preloaders = {p1}
  MaxVersion = 1
  MaxRev = 1
INVARIANT OnePreloadPerFile
INVARIANT MarkIsAnswered
PROPERTY MarksResolve
CHECK_DEADLOCK FALSE
