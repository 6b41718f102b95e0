SPECIFICATION Spec
CONSTANTS
  Calls = {c1, c2, c3, c4}
  Ids = {1, 2}
  Codes = {0, 1, 2}
  Skew = 1
  MaxStep = 2
  CodeOf <- MCCodeOf
SYMMETRY CallSymmetry
INVARIANTS NoCodeTwice EnrollDisplacesNothing UnenrollSticks ActiveWasProven
PROPERTIES CounterNeverLowered
CHECK_DEADLOCK FALSE
