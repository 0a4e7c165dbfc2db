\* A session whose system probe may fail, over models that are all healthy.
SPECIFICATION Spec
CONSTANTS
  Models <- FullModels
  Catalog <- FullCatalog
  Profile <- FullProfile
  NoModel = "none"
  UnknownModel = "unknown"
  NoTier = "no tier"
  NoSignature = "none"
  SafetyMarginPct = 90
  OverflowMarginPct = 80
  MinOutputFloor = 0
  HeadroomBuffer = 0
  PrefixCacheWeightPct = 20
  PrefixCacheDiscountPct = 90
  QuotaUpliftPct = 0
  WarmupPct = 15
  RemainingTurns = 5
  MinSavings = 1
  PinOnlyFallback = FALSE
  PlanningTurnBuffer = 2
  FlipThreshold = 2
  ToolResultSizeThreshold = 10
  FailureSignatures <- Errors
  LoopThreshold = 2
  ZeroTierLoopThreshold = 2
  ToolOk = "ok"
  ToolUnsupported = "unknown tool"
  Sessions <- OneSession
  Slots <- OneSlot
  Pipelines <- OnePipeline
  Requests <- MainRequests
  Scopes <- HealthyScope
  ForceTargets <- NoTargets
  PlanningDelegate = TRUE
  LocalZero = TRUE
  FailingStages <- ProbeFails
  HostEvents <- NoEvents
PROPERTY PinsBreakAsListed
