\* The store in its shipped proportions, its opening and the rate limit table; turns over three small
\* fleets; and every history of two answers as every model is sent it.
SPECIFICATION SharedSpec
CONSTANTS
  p1 = p1
  p2 = p2
  f1 = f1
  f2 = f2
  Processes <- TwoProcesses
  Files <- TwoFiles
  NoFile = NoFile
  Releases = {4}
  MaxMishaps = 1
  Callers <- TwoProcesses
  Costs = {1, 3}
  MaxTokens = 2
  RefillRate = 1
  Second = 2
  MaxForward = 6
  Repliers <- HistoryModels
  Scopes <- HistoryScopes
  GoogleApis = {"flash", "pro", "proxy"}
  GoogleProviders = {"flash", "pro", "cursorGemini"}
  CursorModels = {"cursor", "cursorGemini"}
  Writes <- HistoryWrites
  Virtual = "smart-router/auto"
  NoReplier = "none"
  MaxMessages = 2
INVARIANTS NoBackpressureDrop OpeningSound RateBounded RetryHonest ReplayAccepted
PROPERTIES OnlyInfraTrips QuotaLeavesSubscription BreakerRespected ReplaySelectsNonGoogle
