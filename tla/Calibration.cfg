SPECIFICATION CalibrationSpec
CONSTANTS
  Tasks <- TwoTasks
  SessionOf <- TaskSessions
  Generators = {"gen0", "gen1"}
  Graders = {"gradeA", "gradeB", "gradeC"}
  Panel <- PanelThenFill
  ModelOf <- ClientModels
  Undeclared = "no model"
  PanelAuthors <- TrueAndWrongAuthors
  Seeds = {"first", "second"}
  HeldOut <- OneHeldOut
  Sheets <- SmallSheets
  PassScore = 7
  MinNegativePercent = 20
  MinDistinctFailureScores = 1
  WarmStart <- OneWeakRow
  Files = 2
  NoRowId = "no id"
  Exports <- ThreeExports
  Queue <- OneDisagreement
  Top = 3
  MaxWeight = 3
  Models <- PricedModels
  Catalog <- PricedCatalog
  Profile <- PricedProfile
  NoModel = "no model"
  SafetyMarginPct = 90
  MinOutputFloor = 0
  HeadroomBuffer = 0
  PrefixCacheWeightPct = 20
  PrefixCacheDiscountPct = 90
  QuotaUpliftPct = 0
  WarmupPct = 15
  RemainingTurns = 5
  MinSavings = 1
  ChoiceFleets <- FittingFleets
  PriceLists <- SomePriceLists
  NoPrice = 99
  Parts = 2
  Window = 3
  Tokens = 4
  LambdaMax = 3
  ArbitragePct = 50
  ExhaustionPct = 100
  ExhaustionParts = 1
  MinPriceDelta = 2
INVARIANTS
  PacksSound
  IndependentJudges
  HumanLabelsAnswered
  CalibrationIsIsotonic
PROPERTIES TierMovesExplained
