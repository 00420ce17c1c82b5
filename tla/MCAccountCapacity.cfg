SPECIFICATION FairSpec
CONSTANTS
  Requests = {r1, r2, r3, r4, r5}
  InferenceConcurrency = 2
  QueueCapacity = 2
INVARIANT QueueSound
PROPERTIES NoOvertaking AcquireEnds
