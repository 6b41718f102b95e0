SPECIFICATION Spec
CONSTANTS
  u1 = u1
  c1 = c1
  Requests = {r1, r2, r3, r4}
  Users = {u1, u2}
  Creds = {c1, c2}
  Counterless = {c2}
  Enrolled <- OneEnrolled
  Ops = {"beginRegistration", "finishRegistration", "beginLogin", "finishLogin", "beginDiscoverable", "finishDiscoverable", "delete"}
  Bodies = {"large", "garbled"}
  MaxCeremonies = 2
  MaxCount = 2
SYMMETRY Symmetry
INVARIANTS ChallengeVerifiedOnce CeremonyNotClobbered
PROPERTIES SignsInTheOwner
CHECK_DEADLOCK FALSE
