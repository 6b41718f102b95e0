---------------------------- MODULE SqlAccounts ----------------------------
(***************************************************************************)
(* The user, session and token stores of src/store/sql/postgres and        *)
(* src/store/sql/sqlite, statement by statement, beside the in-memory      *)
(* ones.  None takes an advisory lock: uniqueness is an index, and every   *)
(* check is the condition of the statement that writes.                    *)
(***************************************************************************)
EXTENDS Sql, AccountStores

CONSTANTS Users, Emails, Sessions, Tokens, Purposes,
          Clock,     \* what a caller's clock may read
          Expiries   \* when a new session or token expires

UserCall ==
  [store : {"user"}, op : {"CreateUser"}, id : Users, email : Emails, data : {"new"}]
  \cup [store : {"user"}, op : {"UpdateUser"}, id : Users, email : Emails,
        data : {"upd"}, version : {0, 1}]
  \cup [store : {"user"}, op : {"GetUserByID", "DeleteUser"}, id : Users]
  \cup [store : {"user"}, op : {"GetUserByEmail"}, email : Emails]

SessionCall ==
  [store : {"session"}, op : {"CreateSession"}, id : Sessions, user : Users, exp : Expiries]
  \cup [store : {"session"}, op : {"GetSessionByTokenHash"}, id : Sessions]
  \cup [store : {"session"}, op : {"DeleteSession"}, user : Users, id : Sessions]
  \cup [store : {"session"}, op : {"ListUserSessions"}, user : Users]
  \cup [store : {"session"}, op : {"UpdateAuthenticatedAt"}, id : Sessions, at : {1}]
  \cup [store : {"session"}, op : {"TouchSession"}, id : Sessions, seen : {1},
        idle : {{}, {2}}]

TokenCall ==
  [store : {"token"}, op : {"CreateToken"}, id : Tokens, user : Users \cup {NilUser},
   purpose : Purposes, exp : Expiries]
  \cup [store : {"token"}, op : {"ConsumeToken"}, id : Tokens, purpose : Purposes]

BulkCall ==
  [store : {"session"}, op : {"DeleteUserSessions"}, user : Users]
  \cup [store : {"session"}, op : {"DeleteUserSessionsExcept"}, user : Users, keep : Sessions]
  \cup [store : {"session"}, op : {"CleanExpired"}, now : Clock]
  \cup [store : {"token"}, op : {"DeleteExpiredTokens"}, now : Clock]
  \cup [store : {"token"}, op : {"DeleteUserTokens"}, user : Users \cup {NilUser},
        purpose : Purposes]

-----------------------------------------------------------------------------
(* The programs: a statement outside a transaction commits itself.         *)

PgCreateUser == <<"insertUser", "commit">>
PgGetUserByID == <<"select">>
PgGetUserByEmail == <<"select">>

PgUpdateUser == <<"lockRow", "writeRow", "commit">>
PgDeleteUser == <<"deleteUser", "commit">>
PgCreateSession == <<"insertSession", "commit">>
PgGetSessionByTokenHash == <<"select">>
PgListUserSessions == <<"select">>
PgDeleteSession == <<"changeSession", "commit">>
PgDeleteUserSessions == <<"snapshot", "deleteEach", "commit">>
PgDeleteUserSessionsExcept == <<"snapshot", "deleteEach", "commit">>
PgCleanExpired == <<"snapshot", "deleteEach", "commit">>
PgUpdateAuthenticatedAt == <<"changeSession", "commit">>
PgTouchSession == <<"changeSession", "commit">>
PgCreateToken == <<"insertToken", "commit">>
PgConsumeToken == <<"consume", "commit">>
PgDeleteExpiredTokens == <<"snapshot", "deleteEach", "commit">>
PgDeleteUserTokens == <<"snapshot", "deleteEach", "commit">>

SqliteCreateUser == <<"connect", "insertUser", "commit">>
SqliteGetUserByID == <<"connect", "select">>
SqliteGetUserByEmail == <<"connect", "select">>
SqliteUpdateUser == <<"connect", "lockRow", "writeRow", "commit">>
SqliteDeleteUser == <<"connect", "deleteUser", "commit">>
SqliteCreateSession == <<"connect", "insertSession", "commit">>
SqliteGetSessionByTokenHash == <<"connect", "select">>
SqliteListUserSessions == <<"connect", "select">>
SqliteDeleteSession == <<"connect", "changeSession", "commit">>
SqliteDeleteUserSessions == <<"connect", "snapshot", "deleteEach", "commit">>
SqliteDeleteUserSessionsExcept == <<"connect", "snapshot", "deleteEach", "commit">>
SqliteCleanExpired == <<"connect", "snapshot", "deleteEach", "commit">>
SqliteUpdateAuthenticatedAt == <<"connect", "changeSession", "commit">>
SqliteTouchSession == <<"connect", "changeSession", "commit">>
SqliteCreateToken == <<"connect", "insertToken", "commit">>
SqliteConsumeToken == <<"connect", "consume", "commit">>
SqliteDeleteExpiredTokens == <<"connect", "snapshot", "deleteEach", "commit">>
SqliteDeleteUserTokens == <<"connect", "snapshot", "deleteEach", "commit">>

PgProgram ==
  [CreateUser |-> PgCreateUser, GetUserByID |-> PgGetUserByID,
   GetUserByEmail |-> PgGetUserByEmail, UpdateUser |-> PgUpdateUser,
   DeleteUser |-> PgDeleteUser, CreateSession |-> PgCreateSession,
   GetSessionByTokenHash |-> PgGetSessionByTokenHash,
   ListUserSessions |-> PgListUserSessions, DeleteSession |-> PgDeleteSession,
   DeleteUserSessions |-> PgDeleteUserSessions,
   DeleteUserSessionsExcept |-> PgDeleteUserSessionsExcept,
   CleanExpired |-> PgCleanExpired,
   UpdateAuthenticatedAt |-> PgUpdateAuthenticatedAt,
   TouchSession |-> PgTouchSession, CreateToken |-> PgCreateToken,
   ConsumeToken |-> PgConsumeToken,
   DeleteExpiredTokens |-> PgDeleteExpiredTokens,
   DeleteUserTokens |-> PgDeleteUserTokens]

SqliteProgram ==
  [CreateUser |-> SqliteCreateUser, GetUserByID |-> SqliteGetUserByID,
   GetUserByEmail |-> SqliteGetUserByEmail, UpdateUser |-> SqliteUpdateUser,
   DeleteUser |-> SqliteDeleteUser, CreateSession |-> SqliteCreateSession,
   GetSessionByTokenHash |-> SqliteGetSessionByTokenHash,
   ListUserSessions |-> SqliteListUserSessions,
   DeleteSession |-> SqliteDeleteSession,
   DeleteUserSessions |-> SqliteDeleteUserSessions,
   DeleteUserSessionsExcept |-> SqliteDeleteUserSessionsExcept,
   CleanExpired |-> SqliteCleanExpired,
   UpdateAuthenticatedAt |-> SqliteUpdateAuthenticatedAt,
   TouchSession |-> SqliteTouchSession, CreateToken |-> SqliteCreateToken,
   ConsumeToken |-> SqliteConsumeToken,
   DeleteExpiredTokens |-> SqliteDeleteExpiredTokens,
   DeleteUserTokens |-> SqliteDeleteUserTokens]

Program(op) ==
  CASE impl = "memstore" -> <<"method">>
    [] impl = "postgres" -> PgProgram[op]
    [] impl = "sqlite"   -> SqliteProgram[op]

-----------------------------------------------------------------------------
(* The statements.                                                         *)

method(t) ==
  /\ Running(t, "method")
  /\ LET m == Method(txn[t].call, db) IN End(t, m.rows, m.res)

(* A read is one statement, and returns what it has seen.                  *)
select(t) ==
  Running(t, "select") /\ Return(t, Method(txn[t].call, Seen(t)).res)

(* The unique index on the address: an entry whose row is in doubt is      *)
(* waited for.                                                             *)
IndexSettled(t, id, email) ==
  \A r \in Table(InDoubt(t), "users") : r.key # id => r.email # email

Insert(t, row) == Proceed(t, Rewrite(txn[t], {}, {row}))

insertUser(t) ==
  LET c == txn[t].call IN
  /\ Running(t, "insertUser")
  /\ \A r \in Table(InDoubt(t), "users") : r.key # c.id
  /\ IndexSettled(t, c.id, c.email)
  /\ IF Row(Seen(t), "users", c.id) # {} \/ emailTakenLocked(Seen(t), c.email, c.id)
       THEN Return(t, AlreadyExists)
       ELSE Insert(t, UserRow(c.id, c.email, c.data, 0))

(* UPDATE users ... WHERE id AND version: the row is found and locked ...  *)
MutLockRow(t) ==
  LET row == Row(Seen(t), "users", txn[t].call.id) IN
  /\ Running(t, "lockRow")
  /\ ~AnyLocked(t, row)
  /\ IF row = {} THEN Proceed(t, [txn[t] EXCEPT !.pc = <<"lockRow", "exists">>])
     ELSE Proceed(t, Rewrite(txn[t], row, {}))

lockRow(t) ==
  LET row == {r \in Row(Seen(t), "users", txn[t].call.id) :
                 r.version = txn[t].call.version} IN
  /\ Running(t, "lockRow")
  /\ ~AnyLocked(t, row)
  /\ IF row = {} THEN Proceed(t, [txn[t] EXCEPT !.pc = <<"lockRow", "exists">>])
     ELSE Proceed(t, Rewrite(txn[t], row, {}))

(* ... then its new version enters the index.                              *)
writeRow(t) ==
  LET c == txn[t].call IN
  /\ Running(t, "writeRow")
  /\ IndexSettled(t, c.id, c.email)
  /\ IF emailTakenLocked(Seen(t), c.email, c.id) THEN Return(t, AlreadyExists)
     ELSE Insert(t, UserRow(c.id, c.email, c.data, c.version + 1))

exists(t) ==
  /\ Running(t, "exists")
  /\ Return(t, IF Row(Seen(t), "users", txn[t].call.id) = {} THEN UserNotFound
               ELSE ConcurrentUpdate)

deleteUser(t) ==
  LET row == Row(Seen(t), "users", txn[t].call.id) IN
  /\ Running(t, "deleteUser")
  /\ ~AnyLocked(t, row)
  /\ Proceed(t, Rewrite(txn[t], row, {}))

insertSession(t) ==
  LET c == txn[t].call IN
  Running(t, "insertSession") /\ Insert(t, SessionRow(c.id, c.user, c.exp))

(* The one session that DELETE or UPDATE names, and what replaces it.      *)
Named(rows, c) ==
  IF c.op = "DeleteSession"
    THEN Row(rows, "sessions", c.id) \cap Of(rows, "sessions", c.user)
    ELSE Row(rows, "sessions", c.id)

Replaced(old, c) ==
  CASE c.op = "DeleteSession"         -> {}
    [] c.op = "UpdateAuthenticatedAt" -> Stamped(old, c.at)
    [] c.op = "TouchSession"          -> Touched(old, c.seen, c.idle)

changeSession(t) ==
  LET old == Named(Seen(t), txn[t].call) IN
  /\ Running(t, "changeSession")
  /\ ~AnyLocked(t, old)
  /\ IF old = {} THEN Return(t, SessionNotFound)
     ELSE Proceed(t, Rewrite(txn[t], old, Replaced(old, txn[t].call)))

insertToken(t) ==
  LET c == txn[t].call IN
  Running(t, "insertToken") /\ Insert(t, TokenRow(c.id, c.user, c.purpose, c.exp, FALSE))

(* UPDATE ... WHERE used = false RETURNING, on the row as committed.       *)
Consume(t, old) ==
  IF old = {} THEN Proceed(t, [txn[t] EXCEPT !.pc = <<"consume", "used">>])
  ELSE Proceed(t, [Rewrite(txn[t], old, Used(old)) EXCEPT
                     !.res = <<"ok", (CHOOSE r \in old : TRUE).user>>])

Unspent(t) ==
  {r \in ForPurpose(Seen(t), txn[t].call.id, txn[t].call.purpose) : ~r.used}

MutConsume(t) == Running(t, "consume") /\ Consume(t, Unspent(t))

consume(t) ==
  /\ Running(t, "consume")
  /\ ~AnyLocked(t, Unspent(t))
  /\ Consume(t, Unspent(t))

used(t) ==
  LET c == txn[t].call IN
  /\ Running(t, "used")
  /\ Return(t, IF ForPurpose(Seen(t), c.id, c.purpose) = {} THEN TokenNotFound
               ELSE AlreadyUsed)

(* What a bulk DELETE's condition matches.                                 *)
Matching(rows, c) ==
  CASE c.op = "DeleteUserSessions"       -> Of(rows, "sessions", c.user)
    [] c.op = "DeleteUserSessionsExcept" -> Others(rows, c.user, c.keep)
    [] c.op = "CleanExpired"             -> Expired(rows, "sessions", c.now)
    [] c.op = "DeleteExpiredTokens"      -> Expired(rows, "tokens", c.now)
    [] c.op = "DeleteUserTokens"         -> UserTokens(rows, c.user, c.purpose)

deleteAll(t) ==
  /\ Running(t, "snapshot") \/ Running(t, "deleteEach")
  /\ \/ Snapshot(t, Matching(Seen(t), txn[t].call))
     \/ DeleteEach(t, Matching(Seen(t), txn[t].call))

Statement(t) ==
  \/ method(t) \/ connect(t) \/ select(t) \/ insertUser(t) \/ lockRow(t)
  \/ writeRow(t) \/ exists(t) \/ deleteUser(t) \/ insertSession(t)
  \/ changeSession(t) \/ insertToken(t) \/ consume(t) \/ used(t) \/ deleteAll(t)
  \/ commit(t)

(* Two updates that take each other's address wait for each other, and     *)
(* PostgreSQL aborts one.                                                  *)
WaitsFor(t, s) ==
  /\ Running(t, "writeRow")
  /\ \E r \in Table(txn[s].del \cup txn[s].ins, "users") :
       r.key # txn[t].call.id /\ r.email = txn[t].call.email

deadlockDetected(t) ==
  /\ \E s \in Txns \ {t} : WaitsFor(t, s) /\ WaitsFor(s, t)
  /\ End(t, db, <<"err">>)

-----------------------------------------------------------------------------

(* No, one or two users; one or two sessions of a user; a token with or    *)
(* without a user, used or not.                                            *)
Databases ==
  { {SessionRow("s1", "u", 1), TokenRow("k1", "u", "reset", 1, FALSE)},
    {UserRow("u", "e", "old", 0), SessionRow("s1", "u", 1),
     TokenRow("k1", NilUser, "reset", 1, FALSE)},
    {UserRow("u", "e", "old", 0), UserRow("v", "f", "old", 0),
     SessionRow("s1", "u", 1), SessionRow("s2", "u", 2),
     TokenRow("k1", "u", "reset", 1, TRUE)} }

Calling == {txn[s].call : s \in Txns} \ {NoCall}

Creates == {"CreateUser", "CreateSession", "CreateToken"}

(* Ids are new, and named by nobody else before the create has returned;   *)
(* an update carries a version that its caller has read.  Calls on         *)
(* different stores do not meet.                                           *)
Allowed(c) ==
  /\ \A d \in Calling : c.store = d.store
  /\ \A d \in Calling :
       ("id" \in DOMAIN c /\ "id" \in DOMAIN d /\ c.id = d.id
          /\ {c.op, d.op} \cap Creates # {}) => {c.op, d.op} = {"CreateUser"}
  /\ c.op \in {"CreateSession", "CreateToken"} => \A r \in db : r.key # c.id
  /\ c.op = "UpdateUser" => \A r \in Row(db, "users", c.id) : c.version <= r.version

=============================================================================
