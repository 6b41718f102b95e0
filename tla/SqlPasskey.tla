----------------------------- MODULE SqlPasskey -----------------------------
(***************************************************************************)
(* The passkey and challenge stores of src/store/sql/postgres/passkey.go   *)
(* and src/store/sql/sqlite/passkey.go, statement by statement, beside the *)
(* in-memory ones.  Only PostgreSQL's DeleteCredential takes the user's    *)
(* advisory lock: its guard counts rows.                                   *)
(***************************************************************************)
EXTENDS Sql, PasskeyStore

CONSTANTS Users, Ids, Names,
          Keys,        \* challenge keys
          Data,        \* session data of a ceremony
          Clock,       \* what a caller's clock may read
          TTL          \* lifetime of a challenge in the SQL stores

(* memstore: challenges are kept until they are consumed.                  *)
Forever == 1 + CHOOSE n \in Clock : \A m \in Clock : m <= n

ttl == IF impl = "memstore" THEN Forever ELSE TTL

SingleCall ==
  [op : {"SaveCredential"}, id : Ids, user : Users]
  \cup [op : {"GetCredentialsByUserID"}, user : Users]
  \cup [op : {"GetCredentialByID"}, id : Ids]
  \cup [op : {"UpdateCredentialAfterLogin"}, id : Ids, login : {<<1, TRUE, 1>>}]
  \cup [op : {"DeleteCredential"}, user : Users, id : Ids, allowLast : BOOLEAN]
  \cup [op : {"RenameCredential"}, user : Users, id : Ids, name : Names]

ChallengeCall ==
  [op : {"SaveChallenge"}, key : Keys, data : Data, now : Clock, ttl : {TTL, Forever}]
  \cup [op : {"ConsumeChallenge"}, key : Keys, now : Clock]

BulkCall ==
  [op : {"DeleteCredentialsByUserID"}, user : Users]
  \cup [op : {"DeleteExpiredChallenges"}, now : Clock]

-----------------------------------------------------------------------------
(* The programs: a statement outside a transaction commits itself.         *)

PgSaveCredential == <<"upsert", "commit">>
PgGetCredentialsByUserID == <<"selectByUser">>
PgGetCredentialByID == <<"selectByID">>
PgUpdateCredentialAfterLogin == <<"updateLogin", "commit">>

MutPgDeleteCredential == <<"count", "deleteOne", "commit">>

PgDeleteCredential == <<"lockUser", "count", "deleteOne", "commit">>
PgDeleteCredentialsByUserID == <<"snapshot", "deleteEach", "commit">>
PgRenameCredential == <<"rename", "commit">>
PgSaveChallenge == <<"upsertChallenge", "commit">>
PgConsumeChallenge == <<"consume", "commit">>
PgDeleteExpiredChallenges == <<"snapshot", "deleteEach", "commit">>

SqliteSaveCredential == <<"connect", "upsert", "commit">>
SqliteGetCredentialsByUserID == <<"connect", "selectByUser">>
SqliteGetCredentialByID == <<"connect", "selectByID">>
SqliteUpdateCredentialAfterLogin == <<"connect", "updateLogin", "commit">>
SqliteDeleteCredential == <<"connect", "count", "deleteOne", "commit">>
SqliteDeleteCredentialsByUserID == <<"connect", "snapshot", "deleteEach", "commit">>
SqliteRenameCredential == <<"connect", "rename", "commit">>
SqliteSaveChallenge == <<"connect", "upsertChallenge", "commit">>
SqliteConsumeChallenge == <<"connect", "consume", "commit">>
SqliteDeleteExpiredChallenges == <<"connect", "snapshot", "deleteEach", "commit">>

Program(op) ==
  CASE impl = "memstore" -> <<"method">>
    [] impl = "postgres" ->
         (CASE op = "SaveCredential" -> PgSaveCredential
            [] op = "GetCredentialsByUserID" -> PgGetCredentialsByUserID
            [] op = "GetCredentialByID" -> PgGetCredentialByID
            [] op = "UpdateCredentialAfterLogin" -> PgUpdateCredentialAfterLogin
            [] op = "DeleteCredential" -> PgDeleteCredential
            [] op = "DeleteCredentialsByUserID" -> PgDeleteCredentialsByUserID
            [] op = "RenameCredential" -> PgRenameCredential
            [] op = "SaveChallenge" -> PgSaveChallenge
            [] op = "ConsumeChallenge" -> PgConsumeChallenge
            [] op = "DeleteExpiredChallenges" -> PgDeleteExpiredChallenges)
    [] impl = "sqlite" ->
         (CASE op = "SaveCredential" -> SqliteSaveCredential
            [] op = "GetCredentialsByUserID" -> SqliteGetCredentialsByUserID
            [] op = "GetCredentialByID" -> SqliteGetCredentialByID
            [] op = "UpdateCredentialAfterLogin" -> SqliteUpdateCredentialAfterLogin
            [] op = "DeleteCredential" -> SqliteDeleteCredential
            [] op = "DeleteCredentialsByUserID" -> SqliteDeleteCredentialsByUserID
            [] op = "RenameCredential" -> SqliteRenameCredential
            [] op = "SaveChallenge" -> SqliteSaveChallenge
            [] op = "ConsumeChallenge" -> SqliteConsumeChallenge
            [] op = "DeleteExpiredChallenges" -> SqliteDeleteExpiredChallenges)

-----------------------------------------------------------------------------
(* The statements.                                                         *)

method(t) ==
  /\ Running(t, "method")
  /\ LET m == Method(txn[t].call, db) IN End(t, m.rows, m.res)

lockUser(t) ==
  Running(t, "lockUser") /\ Acquire(t, <<"passkey", txn[t].call.user>>)

(* INSERT ... ON CONFLICT DO UPDATE waits for the same key elsewhere.      *)
Upsert(t, old, new, table) ==
  /\ \A r \in InDoubt(t) : r.table = table => r.key # new.key
  /\ Proceed(t, Rewrite(txn[t], old, {new}))

upsert(t) ==
  LET c == txn[t].call IN
  /\ Running(t, "upsert")
  /\ Upsert(t, ByID(Seen(t), c.id), CredentialRow(c.id, c.user, Unused, ""),
            "passkey_credentials")

selectByUser(t) ==
  /\ Running(t, "selectByUser")
  /\ Return(t, GetCredentialsByUserID(Seen(t), txn[t].call.user).res)

selectByID(t) ==
  /\ Running(t, "selectByID")
  /\ Return(t, GetCredentialByID(Seen(t), txn[t].call.id).res)

(* UPDATE of the one row the condition names; none is ErrPasskeyNotFound.  *)
Update(t, old, new) ==
  /\ ~AnyLocked(t, old)
  /\ IF old = {} THEN Return(t, <<"notFound">>)
     ELSE Proceed(t, Rewrite(txn[t], old, new))

updateLogin(t) ==
  LET old == ByID(Seen(t), txn[t].call.id) IN
  Running(t, "updateLogin") /\ Update(t, old, Updated(old, txn[t].call.login))

rename(t) ==
  LET c == txn[t].call
      old == Owned(Seen(t), c.user, c.id) IN
  Running(t, "rename") /\ Update(t, old, Renamed(old, c.name))

(* The COUNT subquery of the DELETE, then the DELETE itself.               *)
count(t) ==
  /\ Running(t, "count")
  /\ Proceed(t, [txn[t] EXCEPT !.got = ByUser(Seen(t), txn[t].call.user)])

deleteOne(t) ==
  LET c == txn[t].call
      others == countByUserLocked(txn[t].got, c.user) > 1
      row == IF c.allowLast \/ others THEN Owned(Seen(t), c.user, c.id) ELSE {} IN
  /\ Running(t, "deleteOne")
  /\ ~AnyLocked(t, row)
  /\ IF row = {} THEN Proceed(t, [txn[t] EXCEPT !.pc = <<"deleteOne", "exists">>])
     ELSE Proceed(t, Rewrite(txn[t], row, {}))

exists(t) ==
  LET c == txn[t].call IN
  /\ Running(t, "exists")
  /\ Return(t, IF Owned(Seen(t), c.user, c.id) = {} THEN <<"notFound">>
               ELSE <<"lastCredential">>)

upsertChallenge(t) ==
  LET c == txn[t].call IN
  /\ Running(t, "upsertChallenge")
  /\ Upsert(t, ByKey(Seen(t), c.key), ChallengeRow(c.key, c.data, c.now + c.ttl),
            "passkey_challenges")

(* DELETE ... RETURNING; the expiry is looked at afterwards.               *)
consume(t) ==
  LET c == txn[t].call
      row == ByKey(Seen(t), c.key) IN
  /\ Running(t, "consume")
  /\ ~AnyLocked(t, row)
  /\ IF row = {} THEN Return(t, <<"challengeNotFound">>)
     ELSE Proceed(t, [Rewrite(txn[t], row, {}) EXCEPT
                        !.res = ConsumeChallenge(row, c.key, c.now).res])

(* What a bulk DELETE's condition matches.                                 *)
Matching(rows, c) ==
  CASE c.op = "DeleteCredentialsByUserID" -> ByUser(rows, c.user)
    [] c.op = "DeleteExpiredChallenges"   -> Expired(rows, c.now)

deleteAll(t) ==
  /\ txn[t].call.op \in {"DeleteCredentialsByUserID", "DeleteExpiredChallenges"}
  /\ \/ Snapshot(t, Matching(Seen(t), txn[t].call))
     \/ DeleteEach(t, Matching(Seen(t), txn[t].call))

Statement(t) ==
  \/ method(t) \/ connect(t) \/ lockUser(t) \/ upsert(t) \/ selectByUser(t)
  \/ selectByID(t) \/ updateLogin(t) \/ rename(t) \/ count(t) \/ deleteOne(t)
  \/ exists(t) \/ upsertChallenge(t) \/ consume(t) \/ deleteAll(t) \/ commit(t)

-----------------------------------------------------------------------------

Accounts ==
  {{}, {CredentialRow("c1", "u", Unused, "")},
   {CredentialRow("c1", "u", Unused, ""), CredentialRow("c2", "u", Unused, "")}}

Databases == Accounts \cup {{ChallengeRow(k, d, TTL)} : k \in Keys, d \in Data}

Calling == {txn[s].call : s \in Txns}

(* A credential is saved under a new id, which nobody names before the     *)
(* save has returned; the store sets the lifetime of a challenge.  Calls   *)
(* on different tables do not meet.                                        *)
Allowed(c) ==
  /\ \A d \in Calling : "id" \in DOMAIN c /\ "id" \in DOMAIN d /\ c.id = d.id
                         => "SaveCredential" \notin {c.op, d.op}
  /\ \A d \in Calling \ {NoCall} : "now" \in DOMAIN c <=> "now" \in DOMAIN d
  /\ c.op = "SaveCredential" => ByID(db, c.id) = {}
  /\ c.op = "SaveChallenge" => c.ttl = ttl
  /\ c.op = "DeleteExpiredChallenges" => impl # "memstore"

(* A refusal to delete the last credential is decided by the count.        *)
RefusedLast(t) ==
  /\ Running(t, "deleteOne") \/ Running(t, "exists")
  /\ ~txn[t].call.allowLast /\ Cardinality(txn[t].got) <= 1
  /\ Owned(db, txn[t].call.user, txn[t].call.id) # {}

Answer ==
  [t \in Txns |-> IF RefusedLast(t) THEN <<txn[t].call, <<"lastCredential">>, "pending">>
                  ELSE Outcome[t]]

=============================================================================
