SPECIFICATION FairSpec
CONSTANTS
  j1 = j1
  j2 = j2
  w1 = w1
  e1 = e1
  e2 = e2
  NoJob = NoJob
  NoWorker = NoWorker
  Jobs <- TwoJobs
  Executors = {e1, e2}
  Workers = {w1}
  WorkerOf <- OneProcess
  MaxAttempts <- SomeAttempts
  Priority <- FlatPriority
  FlowJobs <- FlowJob
  AudioJobs <- AudioJob
  Lease = 1
  Backoff = 1
  MaxPolls = 1
INVARIANTS
  TypeOK
  DeadWhenSpent
  FencedTransaction
PROPERTIES
  ImplementsFencedWork
  SteadyJobsSettle
CHECK_DEADLOCK FALSE
