--------------------------- MODULE AccountStores ---------------------------
(***************************************************************************)
(* The contracts of sulis.UserStore, SessionStore and TokenStore, as the   *)
(* in-memory stores (src/memstore/user.go, session.go, token.go) fulfil    *)
(* them.  data is everything of a user but the address and the version;    *)
(* the hash of a session's or a token's secret is identified with its id.  *)
(* An optional time is a set of at most one.                               *)
(***************************************************************************)
EXTENDS Naturals

Table(rows, table) == {r \in rows : r.table = table}

Row(rows, table, id) == {r \in Table(rows, table) : r.key = id}

Of(rows, table, user) == {r \in Table(rows, table) : r.user = user}

UserRow(id, email, data, version) ==
  [table |-> "users", key |-> id, email |-> email, data |-> data, version |-> version]

SessionRow(id, user, exp) ==
  [table |-> "sessions", key |-> id, user |-> user, exp |-> exp,
   auth |-> 0, seen |-> 0, idle |-> {}]

TokenRow(id, user, purpose, exp, used) ==
  [table |-> "tokens", key |-> id, user |-> user, purpose |-> purpose,
   exp |-> exp, used |-> used]

NilUser == "nil"

Ret(rows, res) == [rows |-> rows, res |-> res]

Found(rows, found, none) ==
  Ret(rows, IF found = {} THEN none ELSE <<"ok", CHOOSE r \in found : TRUE>>)

UserNotFound == <<"userNotFound">>
AlreadyExists == <<"alreadyExists">>
ConcurrentUpdate == <<"concurrentUpdate">>
SessionNotFound == <<"sessionNotFound">>
TokenNotFound == <<"tokenNotFound">>
AlreadyUsed == <<"alreadyUsed">>

-----------------------------------------------------------------------------
(* Users.                                                                  *)

emailTakenLocked(rows, email, exceptID) ==
  \E r \in Table(rows, "users") : r.key # exceptID /\ r.email = email

CreateUser(rows, id, email, data) ==
  IF Row(rows, "users", id) # {} \/ emailTakenLocked(rows, email, id)
    THEN Ret(rows, AlreadyExists)
    ELSE Ret(rows \cup {UserRow(id, email, data, 0)}, <<"ok">>)

GetUserByID(rows, id) == Found(rows, Row(rows, "users", id), UserNotFound)

GetUserByEmail(rows, email) ==
  Found(rows, {r \in Table(rows, "users") : r.email = email}, UserNotFound)

UpdateUser(rows, id, email, data, version) ==
  LET old == Row(rows, "users", id) IN
  IF old = {} THEN Ret(rows, UserNotFound)
  ELSE IF \E r \in old : r.version # version THEN Ret(rows, ConcurrentUpdate)
  ELSE IF emailTakenLocked(rows, email, id) THEN Ret(rows, AlreadyExists)
  ELSE Ret((rows \ old) \cup {UserRow(id, email, data, version + 1)}, <<"ok">>)

DeleteUser(rows, id) == Ret(rows \ Row(rows, "users", id), <<"ok">>)

-----------------------------------------------------------------------------
(* Sessions.                                                               *)

CreateSession(rows, id, user, exp) ==
  Ret((rows \ Row(rows, "sessions", id)) \cup {SessionRow(id, user, exp)}, <<"ok">>)

GetSessionByTokenHash(rows, id) ==
  Found(rows, Row(rows, "sessions", id), SessionNotFound)

Change(rows, old, new, none) ==
  IF old = {} THEN Ret(rows, none) ELSE Ret((rows \ old) \cup new, <<"ok">>)

DeleteSession(rows, user, id) ==
  Change(rows, Row(rows, "sessions", id) \cap Of(rows, "sessions", user), {},
         SessionNotFound)

DeleteUserSessions(rows, user) == Ret(rows \ Of(rows, "sessions", user), <<"ok">>)

Others(rows, user, keep) == Of(rows, "sessions", user) \ Row(rows, "sessions", keep)

DeleteUserSessionsExcept(rows, user, keep) ==
  Ret(rows \ Others(rows, user, keep), <<"ok">>)

ListUserSessions(rows, user) == Ret(rows, <<"ok", Of(rows, "sessions", user)>>)

Stamped(old, at) == {[r EXCEPT !.auth = at] : r \in old}

UpdateAuthenticatedAt(rows, id, at) ==
  LET old == Row(rows, "sessions", id) IN
  Change(rows, old, Stamped(old, at), SessionNotFound)

Touched(old, seen, idle) == {[r EXCEPT !.seen = seen, !.idle = idle] : r \in old}

TouchSession(rows, id, seen, idle) ==
  LET old == Row(rows, "sessions", id) IN
  Change(rows, old, Touched(old, seen, idle), SessionNotFound)

Expired(rows, table, now) == {r \in Table(rows, table) : r.exp < now}

CleanExpired(rows, now) == Ret(rows \ Expired(rows, "sessions", now), <<"ok">>)

-----------------------------------------------------------------------------
(* Tokens.                                                                 *)

CreateToken(rows, id, user, purpose, exp) ==
  Ret(rows \cup {TokenRow(id, user, purpose, exp, FALSE)}, <<"ok">>)

ForPurpose(rows, id, purpose) == {r \in Row(rows, "tokens", id) : r.purpose = purpose}

Used(old) == {[r EXCEPT !.used = TRUE] : r \in old}

ConsumeToken(rows, id, purpose) ==
  LET old == ForPurpose(rows, id, purpose) IN
  IF old = {} THEN Ret(rows, TokenNotFound)
  ELSE IF \E r \in old : r.used THEN Ret(rows, AlreadyUsed)
  ELSE Ret((rows \ old) \cup Used(old), <<"ok", (CHOOSE r \in old : TRUE).user>>)

DeleteExpiredTokens(rows, now) == Ret(rows \ Expired(rows, "tokens", now), <<"ok">>)

(* No user owns the tokens without a user.                                 *)
UserTokens(rows, user, purpose) ==
  {r \in Of(rows, "tokens", user) : user # NilUser /\ r.purpose = purpose}

DeleteUserTokens(rows, user, purpose) ==
  Ret(rows \ UserTokens(rows, user, purpose), <<"ok">>)

-----------------------------------------------------------------------------

Method(c, rows) ==
  CASE c.op = "CreateUser"     -> CreateUser(rows, c.id, c.email, c.data)
    [] c.op = "GetUserByID"    -> GetUserByID(rows, c.id)
    [] c.op = "GetUserByEmail" -> GetUserByEmail(rows, c.email)
    [] c.op = "UpdateUser"     -> UpdateUser(rows, c.id, c.email, c.data, c.version)
    [] c.op = "DeleteUser"     -> DeleteUser(rows, c.id)
    [] c.op = "CreateSession"  -> CreateSession(rows, c.id, c.user, c.exp)
    [] c.op = "GetSessionByTokenHash" -> GetSessionByTokenHash(rows, c.id)
    [] c.op = "DeleteSession"  -> DeleteSession(rows, c.user, c.id)
    [] c.op = "DeleteUserSessions" -> DeleteUserSessions(rows, c.user)
    [] c.op = "DeleteUserSessionsExcept" ->
         DeleteUserSessionsExcept(rows, c.user, c.keep)
    [] c.op = "ListUserSessions" -> ListUserSessions(rows, c.user)
    [] c.op = "UpdateAuthenticatedAt" -> UpdateAuthenticatedAt(rows, c.id, c.at)
    [] c.op = "TouchSession"   -> TouchSession(rows, c.id, c.seen, c.idle)
    [] c.op = "CleanExpired"   -> CleanExpired(rows, c.now)
    [] c.op = "CreateToken"    -> CreateToken(rows, c.id, c.user, c.purpose, c.exp)
    [] c.op = "ConsumeToken"   -> ConsumeToken(rows, c.id, c.purpose)
    [] c.op = "DeleteExpiredTokens" -> DeleteExpiredTokens(rows, c.now)
    [] c.op = "DeleteUserTokens" -> DeleteUserTokens(rows, c.user, c.purpose)

=============================================================================
