SPECIFICATION Spec
CONSTANTS
  Apps = {"account", "admin"}
  Tabs = {t1, t2}
  LoginTabs = {t1}
  Calls = {q1}
  Families = {f1, f2, f3}
  Admins = {f1}
  GitHub = {f3}
  None = None
  Refused = Refused
  MaxGen = 2
  MaxInputs = 4
INVARIANTS
  TypeOK
  PunishedForCause
  StoredTokenIsUsable
  SessionIsOne
  SignedOutIsEmpty
  LoneTokenIsRestoring
  ConsoleNeedsRole
PROPERTY RetriesEnd
CHECK_DEADLOCK FALSE
