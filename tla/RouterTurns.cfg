\* One session, one turn at a time, for ever.
SPECIFICATION AloneSpec
CONSTANTS
  Models <- FullModels
  Catalog <- FullCatalog
  Profile <- FullProfile
  NoModel = "none"
  UnknownModel = "unknown"
  NoTier = "no tier"
  NoSignature = "none"
  SafetyMarginPct = 90
  OverflowMarginPct = 80
  MinOutputFloor = 0
  HeadroomBuffer = 0
  PrefixCacheWeightPct = 20
  PrefixCacheDiscountPct = 90
  QuotaUpliftPct = 0
  WarmupPct = 15
  RemainingTurns = 5
  MinSavings = 1
  PinOnlyFallback = FALSE
  PlanningTurnBuffer = 2
  FlipThreshold = 2
  ToolResultSizeThreshold = 10
  FailureSignatures <- Errors
  LoopThreshold = 2
  ZeroTierLoopThreshold = 2
  ToolOk = "ok"
  ToolUnsupported = "unknown tool"
  Sessions <- OneSession
  Slots <- OneSlot
  Pipelines <- OnePipeline
  Requests <- TurnRequests
  Scopes <- FullScope
  ForceTargets <- TurnTargets
  PlanningDelegate = TRUE
  LocalZero = TRUE
  FailingStages <- TurnFailures
  HostEvents <- TurnEvents
  task1 = task1
  task2 = task2
  scopeA = scopeA
  scopeB = scopeB
  Tasks <- TwoTasks
  FleetScopes <- TwoScopes
  NoScope = NoScope
  MaxCatalog = 2
INVARIANTS RebuildsSettle
PROPERTIES FreshRouting
INVARIANTS TypeOK DecisionSound
PROPERTIES ForceHonoured SwitchesPay PinMovesQualified
