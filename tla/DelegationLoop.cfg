\* The README on the end of the failover loop, against headroom escalation.
SPECIFICATION DelegationFairSpec
CONSTANTS
  Models <- NarrowModels
  Catalog <- NarrowCatalog
  Profile <- NarrowProfile
  NoModel = "none"
  UnknownModel = "unknown"
  SafetyMarginPct = 90
  MinOutputFloor = 2
  HeadroomBuffer = 1
  FailureThreshold = 2
  ResetTimeout = 1
  HalfOpenSuccesses = 1
  TurnSessions <- OneSession
  InputSizes <- BothInputs
  Answers <- RetryableAnswers
PROPERTIES TurnEnds
