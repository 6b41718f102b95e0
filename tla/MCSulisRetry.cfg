SPECIFICATION FairSpec
CONSTANTS
  Uids = {1}
  Emails = {"a"}
  Passwords = {"p"}
  Requests = {r1, r2, r3, r4}
  Ops = {"EnableUser", "DeleteExpiredTokens"}
  Seeds <- RetrySeeds
  RevokeSessionsOnPasswordChange = TRUE
  RequireVerifiedEmail = TRUE
INVARIANTS GivesUpOnlyIfBeaten
PROPERTIES Terminates
CHECK_DEADLOCK FALSE
