SPECIFICATION Spec
CONSTANTS
  Instances = {i1, i2}
  Readers = {v1, v2}
  Revokers = {w1}
  None = None
  HasRedis = TRUE
  AccessTokenTtl = 1
  MaxTime = 2
  MaxFaults = 2
SYMMETRY Symmetry
INVARIANTS
  IInv
  RevocationIsFinal
  ValidTokenAccepted
PROPERTY ForgottenStaysForgotten
CHECK_DEADLOCK FALSE
