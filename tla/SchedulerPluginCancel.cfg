SPECIFICATION FairSpec
CONSTANTS
  t1 = t1
  t2 = t2
  Tasks = {t1}
  Kinds = {"Copy"}
  Mixes <- AllMixes
  MaxItems = 1
  MaxOutputs = 1
  PoolSize <- OneWorkerEach
  HookWorkers = 1
  Steered = {"Copy"}
PROPERTY CanceledLeaves
CHECK_DEADLOCK FALSE
