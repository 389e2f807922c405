SPECIFICATION PartsSpec
CONSTANTS
  Parts = {"hosts"}
  w1 = w1 w2 = w2 w3 = w3 h1 = h1 h2 = h2 c1 = c1 c2 = c2 c3 = c3
  r1 = r1 r2 = r2 r3 = r3 t1 = t1 t2 = t2 t3 = t3 g1 = g1 g2 = g2 a1 = a1 a2 = a2 q1 = q1 q2 = q2
  Fetchers = {w2, w3}
  Hosts = {h1, h2}
  Floor <- MCFloor
  SiteDelay <- MCSiteDelay
  Backoffs <- MCBackoffs
  MaxRedirects = 0
  Budget = 1
  Window = 1
  Threshold = 2
  MaxPutOffs = 0
  Horizon = 1
  NoHost = NoHost
  Callers = {c1, c2, c3}
  LocalDelay = 2
  CrawlDelay = 3
  Penalties <- MCPenalties
  MaxRounds = 2
  e1 = e1 e2 = e2
  Executions = {e1, e2}
  MaxParks = 2
  MaxGiven = 2
  MaxClock = 4
  Rows = {t1, t2}
  Ringers = {g1, g2}
  RingLimit = 1
  MaxMoves = 2
  MaxEdits = 1
  MaxDeaths = 1
  NoRow = NoRow
  Applications = {a1, a2}
  Requests = {q1, q2}
  Asked <- MCAsked
  Candidate = Candidate
  MaxTries = 2
  j1 = j1 j2 = j2 p1 = p1 p2 = p2 prose = prose blank = blank abroad = abroad
  Adverts = {j1, j2}
  Texts = {prose, blank, abroad}
  Blank = blank
  Gone = Gone
  Boards <- MCBoards
  Abroad = {abroad}
  Excluded = {}
  Newness <- MCNewness
  PassBatch = 1
  BoardPolls = {p1, p2}
  NoPoll = NoPoll
  NoText = NoText
  NoPosting = NoPosting
  NoHash = NoHash
  Garbled = Garbled
  MaxChanges = 2
  MaxAsks = 2
  m1 = m1 m2 = m2 reject = reject receipt = receipt
  Tasks = {t1, t2, t3}
  Runs = {r1}
  Workers = {w1}
  WorkerOf <- MCWorkerOf
  Rank <- MCRank
  Cancellable <- MCNoTasks
  Releasable <- MCNoTasks
  MaxAttempts = 2
  FailLimit = 2
  LeaseTicks = 1
  MaxDeferrals = 0
  NoClaim = NoClaim
  NoWorker = NoWorker
  Mail = {m1, m2}
  IdOf <- MCIdOf
  LinkOf <- MCLinkMixed
  RankOf <- MCRankOf
  Batch = 1
  MaxUid = 2
  MaxValidity = 1
  MaxFaults = 1
  NoRun = NoRun
  b1 = b1 b2 = b2
  JobBoards = {b1, b2}
  NoBoard = NoBoard
  NoPage = NoPage
  Registered = {c1, c2}
  Lookers = {r1, r2}
  UsedSites <- MCSites
  FirstSite <- MCFirstSite
  DirectoryOf <- MCDirectory
  Aliases <- MCAliases
  UsedFailures = {"board_gone"}
  FailuresBeforeNoted = 1
  MaxTurns = 2
SYMMETRY MCAlike
INVARIANTS
  PartsTypeOK
  HostRespected
  RingsAreOnce
  LocksKeepOrder
  TableIsBoard
  TextIsFollowed
PROPERTIES
  KeepsFloor
  PrunesOnlyStale
CHECK_DEADLOCK FALSE
