SPECIFICATION AccessSpec
CONSTANTS
  Requests = {r1, r2, r3}
  IDs = {0, 1}
  IdleTimeouts = {0, 1, 2}
  defaultSessionTouchInterval = 1
  SessionDuration = 3
  maxAge = 1
  Kinds = {"validate", "sensitive", "reauth", "refresh", "revoke"}
  Statuses = {"active", "unverified", "locked", "disabled"}
  MaxTime = 4
  Budgets <- SmallBudgets
  fallback <- NoLimit
  maxKeys = 2
  IPs = {"h"}
  Emails = {"a", "b"}
  Flows = {"VerifyPassword", "createPasswordResetToken", "CreateMagicLinkToken", "Register"}
CONSTRAINT OneQuestion
SYMMETRY Symmetry
INVARIANTS AdmissionBound HostBudgetCapsAccounts RecentAuthIsRecent DisabledStaysOut
PROPERTIES KeptAliveByUseOnly DeletedStaysDeleted
CHECK_DEADLOCK FALSE
