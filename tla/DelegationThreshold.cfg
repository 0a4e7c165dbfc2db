\* The documented failure threshold, against two reports per failure.
SPECIFICATION HSpec
CONSTANTS
  Models <- TwinModels
  Catalog <- TwinCatalog
  Profile <- TwinProfile
  NoModel = "none"
  UnknownModel = "unknown"
  SafetyMarginPct = 90
  MinOutputFloor = 2
  HeadroomBuffer = 1
  FailureThreshold = 3
  ResetTimeout = 1
  HalfOpenSuccesses = 2
  TurnSessions <- OneSession
  InputSizes <- SmallInput
  Answers <- InfraOrDone
PROPERTIES TripNeedsThreshold
