SPECIFICATION Spec
CONSTANTS
  Txns = {1, 2, 3}
  Families = {"totp", "passkey", "accounts", "recovery"}
  BulkChoices = {TRUE, FALSE}
  TotpIds = {"a", "b"}
  MaxCounter = 2
  PasskeyUsers = {"u"}
  PasskeyIds = {"c1", "c2"}
  Names = {"n"}
  Keys = {"k"}
  Data = {"d", "e"}
  ChallengeClock = {0, 1, 2}
  TTL = 1
  Users = {"u", "v"}
  Emails = {"e", "f"}
  Sessions = {"s1", "s2"}
  Tokens = {"k1", "k2"}
  Purposes = {"reset", "verify"}
  Clock = {1, 2}
  Expiries = {1}
  Generations <- OneGeneration
  FirstCodes <- FirstGeneration
PROPERTIES ImplementsContract  BulkDeleteIsComplete
CHECK_DEADLOCK FALSE
