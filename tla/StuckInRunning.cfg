SPECIFICATION ApplySpec
CONSTANTS
  r1 = r1 r2 = r2
  w1 = w1
  t1 = t1 t2 = t2 t3 = t3
  a1 = a1 a2 = a2
  j1 = j1
  Tasks = {t1}
  Runs = {r1}
  Workers = {w1}
  WorkerOf <- MCWorkerOf
  Rank <- MCRank
  Cancellable <- MCNoTasks
  Releasable <- MCNoTasks
  MaxAttempts = 2
  FailLimit = 2
  LeaseTicks = 1
  MaxDeferrals = 0
  NoClaim = NoClaim
  NoWorker = NoWorker
  Apps = {a1}
  JobOf <- MCJobOf
  AutoSubmit = TRUE
  StaleSteps = FALSE
  MarkWhileRunning = TRUE
  MaxFaults = 2
  NoApp = NoApp
INVARIANTS
  NoneStuckInRunning
CHECK_DEADLOCK FALSE
