SPECIFICATION FairPartsSpec
CONSTANTS
  Parts = {"hosts", "reminders", "locks", "postings", "inbox", "registry"}
  w1 = w1 w2 = w2 w3 = w3 h1 = h1 h2 = h2 c1 = c1 c2 = c2 c3 = c3
  r1 = r1 r2 = r2 r3 = r3 t1 = t1 t2 = t2 t3 = t3 g1 = g1 g2 = g2 a1 = a1 a2 = a2 q1 = q1 q2 = q2
  Fetchers = {w1, w2}
  Hosts = {h1}
  Floor <- MCFloor
  SiteDelay <- MCSiteDelay
  Backoffs <- MCBackoffs
  MaxRedirects = 1
  Budget = 0
  Window = 1
  Threshold = 2
  MaxPutOffs = 1
  Horizon = 2
  NoHost = NoHost
  Callers = {c1, c2, c3}
  LocalDelay = 2
  CrawlDelay = 3
  Penalties <- MCPenalties
  MaxRounds = 2
  e1 = e1 e2 = e2
  Executions = {e1, e2}
  MaxParks = 2
  MaxGiven = 2
  MaxClock = 4
  Rows = {t1}
  Ringers = {g1, g2}
  RingLimit = 1
  MaxMoves = 2
  MaxEdits = 1
  MaxDeaths = 1
  NoRow = NoRow
  Applications = {a1}
  Requests = {q1}
  Asked <- MCAsked
  Candidate = Candidate
  MaxTries = 2
  j1 = j1 j2 = j2 p1 = p1 p2 = p2 prose = prose blank = blank abroad = abroad
  Adverts = {j1, j2}
  Texts = {prose, blank}
  Blank = blank
  Gone = Gone
  Boards <- MCBoards
  Abroad = {}
  Excluded = {j2}
  Newness <- MCNewness
  PassBatch = 1
  BoardPolls = {p1}
  NoPoll = NoPoll
  NoText = NoText
  NoPosting = NoPosting
  NoHash = NoHash
  Garbled = Garbled
  MaxChanges = 1
  MaxAsks = 2
  m1 = m1 m2 = m2 reject = reject receipt = receipt
  Tasks = {t1, t2, t3}
  Runs = {r1}
  Workers = {w1}
  WorkerOf <- MCWorkerOf
  Rank <- MCRank
  Cancellable <- MCNoTasks
  Releasable <- MCNoTasks
  MaxAttempts = 2
  FailLimit = 2
  LeaseTicks = 1
  MaxDeferrals = 0
  NoClaim = NoClaim
  NoWorker = NoWorker
  Mail = {m1}
  IdOf <- MCIdOf
  LinkOf <- MCLinkMixed
  RankOf <- MCRankOf
  Batch = 1
  MaxUid = 1
  MaxValidity = 1
  MaxFaults = 1
  NoRun = NoRun
  b1 = b1 b2 = b2
  JobBoards = {b1}
  NoBoard = NoBoard
  NoPage = NoPage
  Registered = {c1}
  Lookers = {r1}
  UsedSites <- MCOtherSites
  FirstSite <- MCFirstOther
  DirectoryOf <- MCNoDirectory
  Aliases = {}
  UsedFailures = {"board_blocked"}
  FailuresBeforeNoted = 1
  MaxTurns = 2
PROPERTIES
  WaitsEnd
  DueIsHandled
  TextIsEmbedded
  PollingGoesOn
  BoardIsFound
CHECK_DEADLOCK FALSE
