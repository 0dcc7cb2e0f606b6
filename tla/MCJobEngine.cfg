SPECIFICATION FairSpec
CONSTANTS
  Jobs <- TwoJobs
  Workers = {w1, w2}
  AttemptCap = 2
  BatchSize = 2
  Lease = 1
  BaseDelay = 1
  MaxDelay = 1
  StartDelays <- Delays
  Horizon = 1
INVARIANTS
  AttemptsAccounted
PROPERTIES
  LeaseRespected
  ImplementsContract
  EventuallySettled
CHECK_DEADLOCK FALSE
