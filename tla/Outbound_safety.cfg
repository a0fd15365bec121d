SPECIFICATION DeliverySpec
CONSTANTS
  j1 = j1
  w1 = w1
  w2 = w2
  e1 = e1
  e2 = e2
  NoJob = NoJob
  NoWorker = NoWorker
  Jobs <- OneJob
  Executors = {e1, e2}
  Workers = {w1, w2}
  WorkerOf <- TwoProcesses
  MaxAttempts <- TwoAttempts
  Priority <- FlatPriority
  FlowJobs = {}
  AudioJobs = {}
  Lease = 1
  Backoff = 1
  MaxPolls = 0
  MaxTries = 2
INVARIANTS
  DeliveryTypeOK
  AtMostOnce
  QueuedMeansUnsent
  RowsAgree
  AtMostOneLatePost
PROPERTIES
  ImplementsMessagePromise
  ImplementsQueue
CHECK_DEADLOCK FALSE
