SPECIFICATION Spec
CONSTANTS
  a1 = a1
  a2 = a2
  p1 = p1
  p2 = p2
  e1 = e1
  t1 = t1
  t2 = t2
  Account = {a1, a2}
  Phone = {p1, p2}
  Email = {e1}
  Thread = {t1, t2}
  Calls = {"create", "replace", "delete", "login", "logout", "duty", "changePassword",
           "forgetPassword", "resetPassword", "requestOtp", "resetByOtp"}
  Overlapping = {"login", "duty", "changePassword", "resetPassword", "resetByOtp"}
  RequestWindow = 1
  ExpiryWindow = 2
  MaxTime = 2
  MaxPasswords = 3
  MaxTokens = 3
  MaxRequests = 5
  MaxCrashes = 1
INVARIANTS TypeOK LoginFollowsAccount OtpWithinRate
PROPERTY SecretsDoNotReturn
SYMMETRY Symmetry
CHECK_DEADLOCK FALSE
