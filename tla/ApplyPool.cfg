SPECIFICATION ApplySpec
CONSTANTS
  r1 = r1 r2 = r2
  w1 = w1
  t1 = t1 t2 = t2 t3 = t3
  a1 = a1 a2 = a2
  j1 = j1
  Tasks = {t1, t2}
  Runs = {r1, r2}
  Workers = {w1}
  WorkerOf <- MCWorkerOf
  Rank <- MCRank
  Cancellable <- MCNoTasks
  Releasable <- MCNoTasks
  MaxAttempts = 2
  FailLimit = 1
  LeaseTicks = 1
  MaxDeferrals = 0
  NoClaim = NoClaim
  NoWorker = NoWorker
  Apps = {a1, a2}
  JobOf <- MCJobOf
  AutoSubmit = TRUE
  StaleSteps = TRUE
  MarkWhileRunning = TRUE
  MaxFaults = 1
  NoApp = NoApp
SYMMETRY Symmetry
INVARIANTS
  ApplyTypeOK
  ClickBudget
  OneRowPerJob
PROPERTY ImplementsSendOnce
CHECK_DEADLOCK FALSE
