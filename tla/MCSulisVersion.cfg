SPECIFICATION Spec
CONSTANTS
  Uids = {1, 2}
  Emails = {"a", "b", "c", "d"}
  Passwords = {"p"}
  Requests = {r1}
  Ops = {"VerifyEmail"}
  Seeds <- EmailSeeds
  RevokeSessionsOnPasswordChange = TRUE
  RequireVerifiedEmail = TRUE
SYMMETRY RequestSymmetry
INVARIANTS ReturnedRowIsPersisted
CHECK_DEADLOCK FALSE
