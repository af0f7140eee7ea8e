SPECIFICATION ProtocolSpec
CONSTANTS
  Pipelines = {1, 2}
  Catalogs <- MCCatalogs
  Jobs = {j1}
  Workers = {w1}
  Requests = {r1, r2}
  Systems = {"linux"}
  LeaseTicks = 1
  Capacity = 2
  FinishAttempts = 2
  MaxMisses = 1
  NoWorker = NoWorker
  NoRequest = NoRequest
  AnySystem = AnySystem
  NoSystem = NoSystem
  NoPipeline = NoPipeline
  NoJob = NoJob
INVARIANTS
  ProtocolTypeOK
  
  SuccessIsEarned
CHECK_DEADLOCK FALSE
