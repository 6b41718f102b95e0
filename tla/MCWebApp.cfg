SPECIFICATION WebSpec
CONSTANTS
  k1 = k1
  Requests = {r1, r2, r3, r4}
  Keys = {k1, k2}
  Ops = {"login", "second", "enroll", "confirm", "disable", "generate", "register", "delete"}
  Enrolled <- Accounts
  CodeCount = 1
  TTL = 1
  MaxTokens = 2
  MaxTime = 2
  Emails = {a, x, y}
  None = None
  FirstEmail = a
  MaxClicks = 2
CONSTRAINT OneQuestion
SYMMETRY Symmetry
INVARIANTS PendingResolvedOnce SecondFactorDemanded LoserToldIfCurrent
PROPERTIES LastPasskeyKept
CHECK_DEADLOCK FALSE
