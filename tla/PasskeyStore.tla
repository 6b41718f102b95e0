---------------------------- MODULE PasskeyStore ----------------------------
(***************************************************************************)
(* The contracts of passkey.Store and passkey.ChallengeStore, as the       *)
(* in-memory stores (src/memstore/passkey.go) fulfil them.  The raw        *)
(* WebAuthn id of a credential is identified with the id of its row; login *)
(* is what a sign-in writes: sign count, backup state and time of use.     *)
(***************************************************************************)
EXTENDS Naturals, FiniteSets

Credentials(rows) == {r \in rows : r.table = "passkey_credentials"}

Challenges(rows) == {r \in rows : r.table = "passkey_challenges"}

ByUser(rows, user) == {r \in Credentials(rows) : r.user = user}

ByID(rows, id) == {r \in Credentials(rows) : r.key = id}

Owned(rows, user, id) == ByUser(rows, user) \cap ByID(rows, id)

ByKey(rows, key) == {r \in Challenges(rows) : r.key = key}

CredentialRow(id, user, login, name) ==
  [table |-> "passkey_credentials", key |-> id, user |-> user,
   login |-> login, name |-> name]

ChallengeRow(key, data, exp) ==
  [table |-> "passkey_challenges", key |-> key, data |-> data, exp |-> exp]

Unused == <<0, FALSE, 0>>

Ret(rows, res) == [rows |-> rows, res |-> res]

-----------------------------------------------------------------------------

SaveCredential(rows, id, user) ==
  Ret((rows \ ByID(rows, id)) \cup {CredentialRow(id, user, Unused, "")}, <<"ok">>)

GetCredentialsByUserID(rows, user) == Ret(rows, <<"ok", ByUser(rows, user)>>)

GetCredentialByID(rows, id) ==
  Ret(rows, IF ByID(rows, id) = {} THEN <<"notFound">>
            ELSE <<"ok", CHOOSE r \in ByID(rows, id) : TRUE>>)

Updated(old, login) == {[r EXCEPT !.login = login] : r \in old}

UpdateCredentialAfterLogin(rows, id, login) ==
  LET old == ByID(rows, id) IN
  IF old = {} THEN Ret(rows, <<"notFound">>)
  ELSE Ret((rows \ old) \cup Updated(old, login), <<"ok">>)

countByUserLocked(rows, user) == Cardinality(ByUser(rows, user))

DeleteCredential(rows, user, id, allowLast) ==
  IF Owned(rows, user, id) = {} THEN Ret(rows, <<"notFound">>)
  ELSE IF ~allowLast /\ countByUserLocked(rows, user) <= 1
    THEN Ret(rows, <<"lastCredential">>)
    ELSE Ret(rows \ Owned(rows, user, id), <<"ok">>)

DeleteCredentialsByUserID(rows, user) == Ret(rows \ ByUser(rows, user), <<"ok">>)

Renamed(old, name) == {[r EXCEPT !.name = name] : r \in old}

RenameCredential(rows, user, id, name) ==
  LET old == Owned(rows, user, id) IN
  IF old = {} THEN Ret(rows, <<"notFound">>)
  ELSE Ret((rows \ old) \cup Renamed(old, name), <<"ok">>)

-----------------------------------------------------------------------------
(* Challenges.  now is the caller's clock; the in-memory store's           *)
(* challenges do not expire, so its calls carry an endless ttl.            *)

SaveChallenge(rows, key, data, exp) ==
  Ret((rows \ ByKey(rows, key)) \cup {ChallengeRow(key, data, exp)}, <<"ok">>)

MutConsumeChallenge(rows, key, now) ==
  LET row == ByKey(rows, key) IN
  Ret(rows, IF \A r \in row : now >= r.exp THEN <<"challengeNotFound">>
            ELSE <<"ok", (CHOOSE r \in row : TRUE).data>>)

(* The challenge is gone whether or not it was still good.                 *)
ConsumeChallenge(rows, key, now) ==
  LET row == ByKey(rows, key) IN
  Ret(rows \ row, IF \A r \in row : now >= r.exp THEN <<"challengeNotFound">>
                  ELSE <<"ok", (CHOOSE r \in row : TRUE).data>>)

Expired(rows, now) == {r \in Challenges(rows) : r.exp < now}

DeleteExpiredChallenges(rows, now) == Ret(rows \ Expired(rows, now), <<"ok">>)

Method(c, rows) ==
  CASE c.op = "SaveCredential"    -> SaveCredential(rows, c.id, c.user)
    [] c.op = "GetCredentialsByUserID" -> GetCredentialsByUserID(rows, c.user)
    [] c.op = "GetCredentialByID" -> GetCredentialByID(rows, c.id)
    [] c.op = "UpdateCredentialAfterLogin" ->
         UpdateCredentialAfterLogin(rows, c.id, c.login)
    [] c.op = "DeleteCredential"  -> DeleteCredential(rows, c.user, c.id, c.allowLast)
    [] c.op = "DeleteCredentialsByUserID" -> DeleteCredentialsByUserID(rows, c.user)
    [] c.op = "RenameCredential"  -> RenameCredential(rows, c.user, c.id, c.name)
    [] c.op = "SaveChallenge"     -> SaveChallenge(rows, c.key, c.data, c.now + c.ttl)
    [] c.op = "ConsumeChallenge"  -> ConsumeChallenge(rows, c.key, c.now)
    [] c.op = "DeleteExpiredChallenges" -> DeleteExpiredChallenges(rows, c.now)

=============================================================================
