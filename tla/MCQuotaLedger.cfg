SPECIFICATION Spec
CONSTANTS
  Finite = {f1, f2}
  Plain = {}
  MaxAttempts = 1
  Cost = 1
  Limit = 1
  LedgerCapacity = 2
  UsageCapacity = 2
  RecoveryBatch = 1
  MaxCrashes = 1
  ClockMayStep = TRUE
SYMMETRY Symmetry
CHECK_DEADLOCK FALSE
INVARIANT LedgerSound
PROPERTY EvidenceKept
