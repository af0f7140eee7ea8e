SPECIFICATION ClaimSpec
CONSTANTS
  Pipelines = {1, 2}
  Catalogs <- MCCatalogs
  Jobs = {}
  Workers = {w1}
  Legacy = {}
  Requests = {r1, r2}
  Systems = {"linux"}
  LeaseTicks = 1
  Txs = {t1, t2}
  Generations = 2
  NoWorker = NoWorker
  NoRequest = NoRequest
  AnySystem = AnySystem
  NoSystem = NoSystem
  NoPipeline = NoPipeline
  NoTx = NoTx
PROPERTY
  RemovesIdleRunnersOnly
