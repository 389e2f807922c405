SPECIFICATION FairQueueSpec
CONSTANTS
  r1 = r1 r2 = r2 r3 = r3
  w1 = w1 w2 = w2
  t1 = t1 t2 = t2
  Tasks = {t1, t2}
  Runs = {r1, r2, r3}
  Workers = {w1, w2}
  WorkerOf <- MCWorkerOf
  Rank <- MCRank
  Cancellable <- MCCancellable
  Releasable <- MCReleasable
  MaxAttempts = 3
  FailLimit = 3
  LeaseTicks = 2
  MaxDeferrals = 1
  NoClaim = NoClaim
  NoWorker = NoWorker
INVARIANTS
  TypeOK
  TokenInv
  OneOwner
PROPERTIES
  FinishedStays
  EveryTaskFinishes
  ImplementsOwnership
CHECK_DEADLOCK FALSE
