SPECIFICATION FairSpec
CONSTANTS
  j1 = j1
  j2 = j2
  w1 = w1
  e1 = e1
  e2 = e2
  NoJob = NoJob
  NoWorker = NoWorker
  Jobs <- OneJob
  Executors = {e1}
  Workers = {w1}
  WorkerOf <- OneProcess
  MaxAttempts <- TwoAttempts
  Priority <- FlatPriority
  FlowJobs = {}
  AudioJobs <- AudioJob
  Lease = 2
  Backoff = 1
  MaxPolls = 0
PROPERTIES
  EveryJobSettles
CHECK_DEADLOCK FALSE
