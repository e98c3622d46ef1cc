SPECIFICATION Spec
CONSTANTS
  DeviceCodes = {d1, d2}
  UserCodes = {uc}
  Clients = {c1, c2}
  Users = {u1, u2}
  Polls = {p1, p2}
  Approvals = {a1, a2}
  None = None
  Lifetime = 1
  MaxTime = 2
  MaxFaults = 1
SYMMETRY Symmetry
INVARIANTS
  IInv
  IssuedToApprover
  IssuedInTime
  RefusedForCause
PROPERTY SpentStaysSpent
CHECK_DEADLOCK FALSE
