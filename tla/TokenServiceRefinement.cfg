SPECIFICATION Spec
CONSTANTS
  Clients = {c1}
  Codes = {k1}
  Requests = {r1, r2, r3}
  None = None
  AuthCodeTtl = 0
  AccessTokenTtl = 1
  RefreshTokenTtl = 0
  MaxTime = 1
  MaxFaults = 1
  Transactional = TRUE
  PkceChoices = {FALSE}
  Unissued = Unissued
  Open = Open
  Over = Over
INVARIANTS
  IInv
  MintedInTime
  PairIsAtomic
PROPERTY ImplementsGrant
CHECK_DEADLOCK FALSE
