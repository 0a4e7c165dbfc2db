\* The store with its capacity below the size trigger, as the unit tests configure it (backpressure
\* fires and the interval timer is what drains the buffer), and every way a turn goes on two models.
SPECIFICATION ProgressSpec
CONSTANTS
  s1 = s1
  s2 = s2
  telemetry = telemetry
  outcome = outcome
  Sessions <- OnePinned
  Tables <- BothTables
  MaxBatchSize = 4
  Capacity = 2
  RowLimit = 2
  MaxTicket = 4
  Cutoffs = {0, 1}
  Models <- NarrowModels
  Catalog <- NarrowCatalog
  Profile <- NarrowProfile
  NoModel = "none"
  UnknownModel = "unknown"
  SafetyMarginPct = 90
  MinOutputFloor = 2
  HeadroomBuffer = 1
  FailureThreshold = 1
  ResetTimeout = 1
  HalfOpenSuccesses = 1
  TurnSessions <- OneSession
  InputSizes <- BothInputs
  Answers <- RetryableAnswers
INVARIANTS TypeOK PendingBounded ReadYourWrites StatsBalance NewestRowKept FifoTickets
INVARIANTS DelegationTypeOK NoRetryWithoutEscalation CircuitsConsistent
PROPERTIES PinsMoveForward PinMapSpec EverythingDrains TurnEndsOrEscalates
