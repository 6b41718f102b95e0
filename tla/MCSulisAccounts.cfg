SPECIFICATION Spec
CONSTANTS
  Uids = {1, 2, 3, 4}
  Emails = {"a", "b", "c", "d"}
  Passwords = {"p", "q"}
  Requests = {r1, r2, r3}
  Ops <- Flows
  Seeds <- AccountSeeds
  RevokeSessionsOnPasswordChange = TRUE
  RequireVerifiedEmail = TRUE
CONSTRAINT OneGroup
SYMMETRY RequestSymmetry
INVARIANTS EmailUnique VerifiedAddressProved UnverifiedOnlySignup SessionsCutOff TokensCutOff OneSessionPerSignIn TokenHandedOnce
PROPERTIES PasswordReplacedOnProof NoLostUpdate
CHECK_DEADLOCK FALSE
