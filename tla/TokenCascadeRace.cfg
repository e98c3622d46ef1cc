SPECIFICATION Spec
CONSTANTS
  Clients = {c1}
  Codes = {k1}
  Requests = {r1, r2, r3}
  None = None
  AuthCodeTtl = 0
  AccessTokenTtl = 0
  RefreshTokenTtl = 1
  MaxTime = 0
  MaxFaults = 0
  Transactional = TRUE
  PkceChoices = {FALSE}
SYMMETRY Symmetry
INVARIANT ReuseRevokesFamily
CHECK_DEADLOCK FALSE
