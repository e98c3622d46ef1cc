SPECIFICATION Spec
CONSTANTS
  Logins = {l1, l2}
  Changes = {c1}
  Confirms = {k1, k2}
  ResetTokens = {t1}
  Sessions = {s1}
  Passwords = {p1, p2}
  FirstFailures = {0, 4}
  None = None
  Forever = 100
  ResetLifetime = 1
  MaxTime = 1
  MaxRequests = 3
  MaxFaults = 1
SYMMETRY Symmetry
INVARIANT AllSessionsRevoked
CHECK_DEADLOCK FALSE
