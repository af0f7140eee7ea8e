SPECIFICATION Spec
CONSTANTS
  Pipelines = {1, 2, 3}
  Catalogs <- MCCatalogs
  Jobs = {j1}
  Workers = {w1}
  Requests = {r1, r2}
  Systems = {"linux"}
  LeaseTicks = 2
  NoWorker = NoWorker
  NoRequest = NoRequest
  AnySystem = AnySystem
  NoSystem = NoSystem
INVARIANTS
  TypeOK
  
  JobsSettleWithPipeline
  GroupRunsInDependencyOrder
PROPERTIES
  ImplementsLifecycle
  AbandonedRunSettles
CHECK_DEADLOCK FALSE
