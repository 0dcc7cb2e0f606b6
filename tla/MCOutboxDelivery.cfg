SPECIFICATION FairSpec
CONSTANTS
  Events <- TwoEvents
  Crons = {cron}
  Requests = {request}
  AttemptCap = 2
  Granted <- Grants
  CronBatch = 1
  Lease = 1
  Delay = 1
  Horizon = 1
INVARIANTS
  DeliverySound
PROPERTIES
  EventsKeepTime
  EventuallySettled
CHECK_DEADLOCK FALSE
