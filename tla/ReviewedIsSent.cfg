SPECIFICATION WorkSpec
CONSTANTS
  Works = {"documents"}
  c1 = c1 c2 = c2 r1 = r1 r2 = r2 b1 = b1 b2 = b2 e1 = e1 e2 = e2
  JobBoards = {b1, b2}
  NoBoard = NoBoard
  NoPage = NoPage
  Registered = {c1, c2}
  Lookers = {r1, r2}
  UsedSites <- MCSites
  FirstSite <- MCFirstSite
  DirectoryOf <- MCDirectory
  Aliases <- MCAliases
  UsedFailures = {"board_gone"}
  FailuresBeforeNoted = 1
  MaxTurns = 2
  Starters = {"tick"}
  Issues = {"n1"}
  MaxDives = 2
  Callers = {e1, e2}
  Processes = {"worker", "api"}
  ModelTasks = {"tailor_resume", "map_form_field"}
  Providers = {"gemini", "anthropic", "openrouter", "ollama", "stub"}
  Paced = {"gemini", "openrouter"}
  UnpacedJson = {"gemini"}
  UsedSettings <- MCSettings
  DailyCalls = 1
  DayTicks = 2
  KeepTicks = 2
  Interval = 1
  Waits = {1}
  MaxRetries = 1
  MaxTime = 3
  MaxLines = 2
  MaxLosses = 1
  Postings = {"p1", "p2"}
  Gainless = {"p2"}
  UsedModes = {"rewrite", "targeted"}
  MaxResumes = 2
  MaxLetters = 1
  MaxIncidents = 2
INVARIANT ReviewedIsSent
CHECK_DEADLOCK FALSE
