SPECIFICATION Spec
CONSTANTS
  Apps = {"account"}
  Tabs = {t1}
  LoginTabs = {t1}
  Calls = {q1}
  Families = {f1}
  Admins = {}
  GitHub = {}
  None = None
  Refused = Refused
  MaxGen = 3
  MaxInputs = 3
INVARIANT ReloadKeepsSession
CHECK_DEADLOCK FALSE
