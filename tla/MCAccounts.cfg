SPECIFICATION AccountsSpec
CONSTANTS
  Attempts = {t1, t2, t3}
  Accounts = {acc1, acc2}
  Networks = {net}
  Portal = portal
  None = none
  AccountLimit = 2
  NetworkLimit = 2
  PortalLimit = 2
  Window = 2
  Retention = 3
  PurgeLimit = 1
  Lag = 1
  Horizon = 5
  Passwords = {pw1, pw2}
  AdminPassword = pw1
  Workers = {w1, w2}
  MaxVersion = 3
  MaxLogins = 1
  Focus <- Scenes
INVARIANTS
  AccountsSound
  SessionsProved
PROPERTIES
  EvidenceRespected
  ChangesProved
SYMMETRY Symmetry
CHECK_DEADLOCK FALSE
