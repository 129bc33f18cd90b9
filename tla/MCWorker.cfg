SPECIFICATION FairSpec
CONSTANTS
  Workers = {w1, w2}
  NoWorker = NoWorker
  WORKER_TIMEOUT = 1
  SOCKET_TIMEOUT = 2
  RETRY_BACKOFF = 7
  MaxOps = 2
  MaxBatches = 4
INVARIANTS
  WorkerTypeOK
  FreezeBounded
PROPERTIES
  AnswersOwnBatch
  CallsReturn
