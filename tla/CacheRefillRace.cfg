SPECIFICATION Spec
CONSTANTS
  Instances = {i1}
  Readers = {v1, v2}
  Revokers = {w1}
  None = None
  HasRedis = TRUE
  AccessTokenTtl = 1
  MaxTime = 0
  MaxFaults = 0
SYMMETRY Symmetry
INVARIANT RevokedIsRefused
CHECK_DEADLOCK FALSE
