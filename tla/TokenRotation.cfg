SPECIFICATION Spec
CONSTANTS
  Clients = {c1, c2}
  Codes = {k1}
  Requests = {r1, r2, r3, r4}
  None = None
  AuthCodeTtl = 0
  AccessTokenTtl = 0
  RefreshTokenTtl = 1
  MaxTime = 1
  MaxFaults = 0
  Transactional = TRUE
  PkceChoices = {FALSE}
SYMMETRY Symmetry
INVARIANTS
  OneFamilyPerCode
  OneUsableRefreshToken
  RotationIsAChain
  TokensGoToTheirClient
PROPERTY DeadFamilyStaysDead
CHECK_DEADLOCK FALSE
