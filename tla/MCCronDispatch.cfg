SPECIFICATION CronFairSpec
CONSTANTS
  Calls = {c1, c2}
  Interval = 2
  LastInstant = 3
  Nobody = Nobody
INVARIANTS
  PermitsSpaced
  EndpointSound
PROPERTIES
  NoOutboxAfterDeadline
  LockFreed
CHECK_DEADLOCK FALSE
