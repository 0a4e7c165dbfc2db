\* Recovery of a half-open circuit, against errors that do not parse.
SPECIFICATION DelegationSpec
CONSTANTS
  Models <- TwinModels
  Catalog <- TwinCatalog
  Profile <- TwinProfile
  NoModel = "none"
  UnknownModel = "unknown"
  SafetyMarginPct = 90
  MinOutputFloor = 2
  HeadroomBuffer = 1
  FailureThreshold = 3
  ResetTimeout = 1
  HalfOpenSuccesses = 2
  TurnSessions <- OneSession
  InputSizes <- SmallInput
  Answers <- InfraOrDone
PROPERTIES OnlySuccessCloses
