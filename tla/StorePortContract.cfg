\* The caller contract of store-port.ts against a failing size-triggered flush.
SPECIFICATION Spec
CONSTANTS
  s1 = s1
  s2 = s2
  telemetry = telemetry
  outcome = outcome
  Sessions <- OnePinned
  Tables <- OneTable
  MaxBatchSize = 3
  Capacity = 2
  RowLimit = 1
  MaxTicket = 3
  Cutoffs = {0}
INVARIANTS HotPathWritesNeverReject
