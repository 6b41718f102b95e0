SPECIFICATION PasswordsSpec
CONSTANTS
  Requests = {r1, r2, r3, r4}
  Forms <- TypedForms
  NFKC <- NormalForm
  Deployed <- Rolling
  Oldest <- First
  None = None
  Threshold = 2
  Policies <- Backoffs
  Width = 3
  MaxShift = 1
  MaxTime = 2
  MinPasswordLength = 0
  MaxPasswordLength = 1
  Lengths = {0, 1, 2}
  FailClosed = {TRUE, FALSE}
  maxHIBPResponse = 3
  MaxRows = 4
CONSTRAINT OneQuestion
SYMMETRY Symmetry
INVARIANTS AttemptsCounted  CompromisedMeansSeen AcceptedOnWholeAnswer AcceptedStaysAccepted HashOfCurrentPassword
PROPERTIES NeverWeakened
CHECK_DEADLOCK FALSE
