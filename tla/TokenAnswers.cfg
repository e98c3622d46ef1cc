SPECIFICATION FairSpec
CONSTANTS
  Clients = {c1}
  Codes = {k1}
  Requests = {r1, r2, r3}
  None = None
  AuthCodeTtl = 0
  AccessTokenTtl = 0
  RefreshTokenTtl = 1
  MaxTime = 0
  MaxFaults = 1
  Transactional = FALSE
  PkceChoices = {FALSE}
INVARIANT RevocationHolds
PROPERTY EveryRequestAnswered
CHECK_DEADLOCK FALSE
