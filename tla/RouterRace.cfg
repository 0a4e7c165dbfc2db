\* Two turns of a session in two pipelines, rebuilds, restarts and failures;
\* beside them a typed judgment, the prewarms of two sessions, and three
\* routes that embed at the same time.
SPECIFICATION BesideSpec
CONSTANTS
  Models <- RaceModels
  Catalog <- RaceCatalog
  Profile <- RaceProfile
  NoModel = "none"
  UnknownModel = "unknown"
  NoTier = "no tier"
  NoSignature = "none"
  SafetyMarginPct = 90
  OverflowMarginPct = 80
  MinOutputFloor = 0
  HeadroomBuffer = 0
  PrefixCacheWeightPct = 20
  PrefixCacheDiscountPct = 90
  QuotaUpliftPct = 0
  WarmupPct = 15
  RemainingTurns = 5
  MinSavings = 1
  PinOnlyFallback = FALSE
  PlanningTurnBuffer = 1
  FlipThreshold = 2
  ToolResultSizeThreshold = 10
  FailureSignatures <- Errors
  LoopThreshold = 2
  ZeroTierLoopThreshold = 2
  ToolOk = "ok"
  ToolUnsupported = "unknown tool"
  Sessions <- OneSession
  Slots <- TwoSlots
  Pipelines <- TwoPipelines
  Requests <- RaceRequests
  Scopes <- RaceScopes
  ForceTargets <- NoTargets
  PlanningDelegate = FALSE
  LocalZero = FALSE
  FailingStages <- RaceFailures
  HostEvents <- RaceEvents
  Levels = 3
  Whole = 2
  MaxRetries = 2
  PrewarmSessions <- TwoPrewarmed
  SESSION_WINDOW_SIZE = 4
  MinAttempts = 2
  MinAcceptancePct = 50
  MaxMisses = 4
  PrimaryEncoder = "minilm"
  LongContextEncoder = "granite"
  Embedders = {"route1", "route2", "route3"}
  MaxSessions = 6
INVARIANTS PinWriteThrough TimeoutReported SpeculationBounded SessionsAccounted
PROPERTIES RoutesEnd JudgmentEnds
