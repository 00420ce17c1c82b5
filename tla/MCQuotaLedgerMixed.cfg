SPECIFICATION FairSpec
CONSTANTS
  Finite = {f1}
  Plain = {p1}
  MaxAttempts = 1
  Cost = 1
  Limit = 1
  LedgerCapacity = 1
  UsageCapacity = 2
  RecoveryBatch = 1
  MaxCrashes = 1
  ClockMayStep = FALSE
CHECK_DEADLOCK FALSE
INVARIANT PlainLossAdmitted
PROPERTY EntriesResolve
