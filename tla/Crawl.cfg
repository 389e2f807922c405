SPECIFICATION CrawlSpec
CONSTANTS
  r1 = r1 r2 = r2
  w1 = w1
  t1 = t1 t2 = t2 t3 = t3 t4 = t4
  c1 = c1 c2 = c2
  k1 = k1 k2 = k2
  Tasks = {t1, t2, t3, t4}
  Runs = {r1, r2}
  Workers = {w1}
  WorkerOf <- MCWorkerOf
  Rank <- MCRank
  Cancellable = {t1, t2, t3, t4}
  Releasable <- MCNoTasks
  MaxAttempts = 2
  FailLimit = 2
  LeaseTicks = 1
  MaxDeferrals = 0
  NoClaim = NoClaim
  NoWorker = NoWorker
  Companies = {c1, c2}
  CrawlRuns = {k1, k2}
  Limit = 2
  Backlogs = {1, 2}
  MaxFaults = 1
  NoRun = NoRun
  NoCompany = NoCompany
SYMMETRY Symmetry
INVARIANTS
  ReportsAddUp
  QueueBounded
PROPERTIES
  SweepGoesOn
CHECK_DEADLOCK FALSE
