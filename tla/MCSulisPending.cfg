SPECIFICATION Spec
CONSTANTS
  Uids = {1}
  Emails = {"a"}
  Passwords = {"p", "q"}
  Requests = {r1, r2}
  Ops = {"Login", "ChangePassword"}
  Seeds <- StrongSeeds
  RevokeSessionsOnPasswordChange = TRUE
  RequireVerifiedEmail = TRUE
SYMMETRY RequestSymmetry
INVARIANTS PendingLoginFollowsPassword
CHECK_DEADLOCK FALSE
