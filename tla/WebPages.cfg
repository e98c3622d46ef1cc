SPECIFICATION Spec
CONSTANTS
  None = None
  Pages = {"roles", "scopes", "users", "applications", "authorized-apps",
           "user-detail", "application-detail", "settings", "admin-dashboard", "profile",
           "tokens", "security", "register", "forgot-password", "reset-password",
           "verify-email", "device-verify", "consent"}
  RoleNames = {"admin"}
  ScopeNames = {"s1"}
  MaxCalls = 3
  MaxInputs <- MCMaxInputs
  Rows = {"row1", "row2"}
  Builtin = {"row1"}
  Vals = {"", "a"}
  Typed = {"a"}
  Texts = {"", "a", "odd"}
  Blank = ""
  Odd = "odd"
  Plain = "a"
  Tokens <- MCTokens
  PerPage = 1
  MaxPage = 3
  Secrets = {s1, s2, s3, s4}
INVARIANTS
  TypeOK
  ShownIsCurrent
  ControlsComeBack
  SubmittedOnce
  OthersEditsKept
  AuthenticatorWorks
  AskedIsDone
CHECK_DEADLOCK FALSE
