SPECIFICATION WornInboxSpec
CONSTANTS
  r1 = r1 r2 = r2
  w1 = w1
  t1 = t1 t2 = t2 t3 = t3
  m1 = m1 m2 = m2
  reject = reject receipt = receipt
  Tasks = {t1, t2, t3}
  Runs = {r1, r2}
  Workers = {w1}
  WorkerOf <- MCWorkerOf
  Rank <- MCRank
  Cancellable <- MCNoTasks
  Releasable <- MCNoTasks
  MaxAttempts = 2
  FailLimit = 2
  LeaseTicks = 1
  MaxDeferrals = 0
  NoClaim = NoClaim
  NoWorker = NoWorker
  Mail = {m1, m2}
  IdOf <- MCIdOf
  LinkOf <- MCLinkOf
  RankOf <- MCRankOf
  Batch = 1
  MaxUid = 2
  MaxValidity = 2
  MaxFaults = 1
  NoRun = NoRun
SYMMETRY Symmetry
INVARIANTS
  NothingSkipped
  ConclusionsHold
  OneFreshPoll
CHECK_DEADLOCK FALSE
