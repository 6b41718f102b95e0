---------------------------- MODULE AccountSuite ----------------------------
(***************************************************************************)
(* RunUserStore, RunSessionStore and RunTokenStore of src/storetest, run   *)
(* against every implementation.  Every definition under their headings is *)
(* one subtest.  The five subtests about values shared with the caller     *)
(* (...AreIndependent, ...IsNotAliased) are left out: values here are      *)
(* never shared.                                                           *)
(***************************************************************************)
EXTENDS SqlAccounts, StoreTest, TLC

UserStoreCall(op, args) == args @@ [store |-> "user", op |-> op]
SessionStoreCall(op, args) == args @@ [store |-> "session", op |-> op]
TokenStoreCall(op, args) == args @@ [store |-> "token", op |-> op]

Create(id, email) == UserStoreCall("CreateUser", [id |-> id, email |-> email, data |-> "new"])
ByID(id) == UserStoreCall("GetUserByID", [id |-> id])
ByEmail(email) == UserStoreCall("GetUserByEmail", [email |-> email])
Write(id, email, data, version) ==
  UserStoreCall("UpdateUser", [id |-> id, email |-> email, data |-> data, version |-> version])
Remove(id) == UserStoreCall("DeleteUser", [id |-> id])

(* The live sessions and tokens expire at 2, the expired ones at 0; the    *)
(* deletions read 1 on the clock.                                          *)
Issue(id, user, exp) == SessionStoreCall("CreateSession", [id |-> id, user |-> user, exp |-> exp])
newSession(id, user) == <<Issue(id, user, 2), Ok>>
ByHash(id) == SessionStoreCall("GetSessionByTokenHash", [id |-> id])
Revoke(user, id) == SessionStoreCall("DeleteSession", [user |-> user, id |-> id])
RevokeAll(user) == SessionStoreCall("DeleteUserSessions", [user |-> user])
RevokeOthers(user, keep) ==
  SessionStoreCall("DeleteUserSessionsExcept", [user |-> user, keep |-> keep])
Clean == SessionStoreCall("CleanExpired", [now |-> 1])
Reauthenticated(id, at) == SessionStoreCall("UpdateAuthenticatedAt", [id |-> id, at |-> at])
Touch(id, seen, idle) ==
  SessionStoreCall("TouchSession", [id |-> id, seen |-> seen, idle |-> idle])
List(user) == SessionStoreCall("ListUserSessions", [user |-> user])

newTokenFor(id, user, purpose, exp) ==
  <<TokenStoreCall("CreateToken", [id |-> id, user |-> user, purpose |-> purpose, exp |-> exp]), Ok>>
newToken(id, purpose) == newTokenFor(id, "u", purpose, 2)
Redeem(id, purpose) == TokenStoreCall("ConsumeToken", [id |-> id, purpose |-> purpose])
Purge == TokenStoreCall("DeleteExpiredTokens", [now |-> 1])
PurgeUser(user, purpose) ==
  TokenStoreCall("DeleteUserTokens", [user |-> user, purpose |-> purpose])

newUser(id, email) == <<Create(id, email), Ok>>

Is(row) == <<"ok", row>>

-----------------------------------------------------------------------------
(* RunUserStore                                                            *)

CreateUserRoundTrips ==
  LET u == UserRow("u", "e", "new", 0) IN
  Sequential(<< newUser("u", "e"), <<ByID("u"), Is(u)>>, <<ByEmail("e"), Is(u)>> >>)

GetUserByIDUnknown == Sequential(<< <<ByID("u"), UserNotFound>> >>)

GetUserByEmailUnknown == Sequential(<< <<ByEmail("e"), UserNotFound>> >>)

CreateUserDuplicateEmail ==
  Sequential(<< newUser("u", "e"), <<Create("v", "e"), AlreadyExists>>,
                <<ByEmail("e"), Is(UserRow("u", "e", "new", 0))>> >>)

UpdateUserPersistsAndAdvancesVersion ==
  Sequential(<< newUser("u", "e"), <<Write("u", "e", "rotated", 0), Ok>>,
                <<ByID("u"), Is(UserRow("u", "e", "rotated", 1))>> >>)

UpdateUserWithStaleVersion ==
  Sequential(<< newUser("u", "e"), <<Write("u", "e", "winner", 0), Ok>>,
                <<Write("u", "e", "loser", 0), ConcurrentUpdate>>,
                <<ByID("u"), Is(UserRow("u", "e", "winner", 1))>> >>)

UpdateUserRejectsAnotherUsersEmail ==
  Sequential(<< newUser("u", "e"), newUser("v", "f"),
                <<Write("v", "e", "new", 0), AlreadyExists>>,
                <<ByEmail("e"), Is(UserRow("u", "e", "new", 0))>>,
                <<ByID("v"), Is(UserRow("v", "f", "new", 0))>> >>)

UpdateUserKeepingItsOwnEmail ==
  Sequential(<< newUser("u", "e"), <<Write("u", "e", "staged", 0), Ok>> >>)

(* Any error will do.                                                      *)
UpdateUserForAnUnknownID ==
  Subtest(<<Write("u", "e", "new", 0)>>, {},
          {<<UserNotFound>>, <<ConcurrentUpdate>>, <<AlreadyExists>>})

DeleteUserRemovesTheUser ==
  Sequential(<< newUser("u", "e"), <<Remove("u"), Ok>>, <<ByID("u"), UserNotFound>>,
                <<ByEmail("e"), UserNotFound>> >>)

DisableAndLockFieldsRoundTrip ==
  Sequential(<< newUser("u", "e"), <<Write("u", "e", "disabled", 0), Ok>>,
                <<ByID("u"), Is(UserRow("u", "e", "disabled", 1))>>,
                <<Write("u", "e", "cleared", 1), Ok>>,
                <<ByID("u"), Is(UserRow("u", "e", "cleared", 2))>> >>)

(* Each racer writes its own hash; the stored one is the winner's.         *)
ConcurrentUpdateUserFromOneRead ==
  LET hash == <<"hash1", "hash2", "hash3">> IN
  Race(<< newUser("u", "e") >>, [g \in racers |-> Write("u", "e", hash[g], 0)], <<ByID("u")>>,
       {[g \in racers |-> IF g = w THEN Ok ELSE ConcurrentUpdate]
          \o <<Is(UserRow("u", "e", hash[w], 1))>> : w \in racers})

ConcurrentCreateUserWithOneEmail ==
  LET id == <<"u", "v", "w">> IN
  Race(<<>>, [g \in racers |-> Create(id[g], "e")], <<ByEmail("e")>>,
       {[g \in racers |-> IF g = w THEN Ok ELSE AlreadyExists]
          \o <<Is(UserRow(id[w], "e", "new", 0))>> : w \in racers})

ConcurrentUpdateUserOntoOneEmail ==
  LET id == <<"u", "v", "w">>
      email == <<"e", "f", "g">> IN
  Race([g \in racers |-> newUser(id[g], email[g])],
       [g \in racers |-> Write(id[g], "target", "new", 0)],
       <<ByEmail("target")>> \o [g \in racers |-> ByID(id[g])],
       {[g \in racers |-> IF g = w THEN Ok ELSE AlreadyExists]
          \o <<Is(UserRow(id[w], "target", "new", 1))>>
          \o [g \in racers |-> Is(IF g = w THEN UserRow(id[g], "target", "new", 1)
                                  ELSE UserRow(id[g], email[g], "new", 0))] :
        w \in racers})

RunUserStore ==
  { CreateUserRoundTrips, GetUserByIDUnknown, GetUserByEmailUnknown,
    CreateUserDuplicateEmail, UpdateUserPersistsAndAdvancesVersion,
    UpdateUserWithStaleVersion, UpdateUserRejectsAnotherUsersEmail,
    UpdateUserKeepingItsOwnEmail, UpdateUserForAnUnknownID, DeleteUserRemovesTheUser,
    DisableAndLockFieldsRoundTrip, ConcurrentUpdateUserFromOneRead,
    ConcurrentCreateUserWithOneEmail, ConcurrentUpdateUserOntoOneEmail }

-----------------------------------------------------------------------------
(* RunSessionStore                                                         *)

CreateSessionRoundTrips ==
  Sequential(<< newSession("s1", "u"), <<ByHash("s1"), Is(SessionRow("s1", "u", 2))>> >>)

GetSessionByTokenHashUnknown == Sequential(<< <<ByHash("s1"), SessionNotFound>> >>)

DeleteSessionRemovesTheOwners ==
  Sequential(<< newSession("s1", "u"), <<Revoke("u", "s1"), Ok>>,
                <<ByHash("s1"), SessionNotFound>> >>)

DeleteSessionForAnotherUser ==
  Sequential(<< newSession("s1", "u"), <<Revoke("v", "s1"), SessionNotFound>>,
                <<ByHash("s1"), Ok>> >>)

DeleteSessionUnknownID == Sequential(<< <<Revoke("u", "s1"), SessionNotFound>> >>)

DeleteUserSessionsRemovesOnlyThatUsers ==
  Sequential(<< newSession("s1", "u"), newSession("s2", "u"), newSession("s3", "v"),
                <<RevokeAll("u"), Ok>>, <<ByHash("s1"), SessionNotFound>>,
                <<ByHash("s2"), SessionNotFound>>, <<ByHash("s3"), Ok>> >>)

DeleteUserSessionsMatchingNothing == Sequential(<< <<RevokeAll("u"), Ok>> >>)

CleanExpiredRemovesOnlyExpired ==
  Sequential(<< <<Issue("s1", "u", 0), Ok>>, newSession("s2", "u"), <<Clean, Ok>>,
                <<ByHash("s1"), SessionNotFound>>, <<ByHash("s2"), Ok>> >>)

UpdateAuthenticatedAtStamps ==
  Sequential(<< newSession("s1", "u"), <<Reauthenticated("s1", 1), Ok>>,
                <<ByHash("s1"), Is([SessionRow("s1", "u", 2) EXCEPT !.auth = 1])>> >>)

UpdateAuthenticatedAtUnknownID ==
  Sequential(<< <<Reauthenticated("s1", 1), SessionNotFound>> >>)

TouchSessionUpdates ==
  LET touched == [SessionRow("s1", "u", 2) EXCEPT !.seen = 1, !.idle = {2}] IN
  Sequential(<< newSession("s1", "u"), <<Touch("s1", 1, {2}), Ok>>,
                <<ByHash("s1"), Is(touched)>> >>)

TouchSessionCanClearIdleExpiresAt ==
  LET touched == [SessionRow("s1", "u", 2) EXCEPT !.seen = 2] IN
  Sequential(<< newSession("s1", "u"), <<Touch("s1", 1, {1}), Ok>>,
                <<Touch("s1", 2, {}), Ok>>, <<ByHash("s1"), Is(touched)>> >>)

TouchSessionUnknownID == Sequential(<< <<Touch("s1", 1, {2}), SessionNotFound>> >>)

ListUserSessionsOnlyThatUsers ==
  Sequential(<< newSession("s1", "u"), newSession("s2", "u"), newSession("s3", "v"),
                <<List("u"), Is({SessionRow("s1", "u", 2), SessionRow("s2", "u", 2)})>> >>)

ListUserSessionsMatchingNothing == Sequential(<< <<List("u"), Is({})>> >>)

DeleteUserSessionsExceptRemovesOnlyOthers ==
  Sequential(<< newSession("s1", "u"), newSession("s2", "u"), newSession("s3", "u"),
                newSession("s4", "v"), <<RevokeOthers("u", "s1"), Ok>>, <<ByHash("s1"), Ok>>,
                <<ByHash("s2"), SessionNotFound>>, <<ByHash("s3"), SessionNotFound>>,
                <<ByHash("s4"), Ok>> >>)

DeleteUserSessionsExceptUnknownKeepID ==
  Sequential(<< newSession("s1", "u"), newSession("s2", "u"),
                <<RevokeOthers("u", "s3"), Ok>>, <<ByHash("s1"), SessionNotFound>>,
                <<ByHash("s2"), SessionNotFound>> >>)

DeleteUserSessionsExceptMatchingNothing ==
  Sequential(<< <<RevokeOthers("u", "s1"), Ok>> >>)

ConcurrentDeleteSession ==
  Race(<< newSession("s1", "u") >>, [g \in racers |-> Revoke("u", "s1")], <<>>,
       exactlyOneWinner(MaxRacers, SessionNotFound))

RunSessionStore ==
  { CreateSessionRoundTrips, GetSessionByTokenHashUnknown, DeleteSessionRemovesTheOwners,
    DeleteSessionForAnotherUser, DeleteSessionUnknownID,
    DeleteUserSessionsRemovesOnlyThatUsers, DeleteUserSessionsMatchingNothing,
    CleanExpiredRemovesOnlyExpired, UpdateAuthenticatedAtStamps,
    UpdateAuthenticatedAtUnknownID, TouchSessionUpdates,
    TouchSessionCanClearIdleExpiresAt, TouchSessionUnknownID,
    ListUserSessionsOnlyThatUsers, ListUserSessionsMatchingNothing,
    DeleteUserSessionsExceptRemovesOnlyOthers, DeleteUserSessionsExceptUnknownKeepID,
    DeleteUserSessionsExceptMatchingNothing, ConcurrentDeleteSession }

-----------------------------------------------------------------------------
(* RunTokenStore                                                           *)

ConsumeTokenReturnsTheStoredToken ==
  Sequential(<< newToken("k1", "reset"), <<Redeem("k1", "reset"), Is("u")>> >>)

ConsumeTokenTwice ==
  Sequential(<< newToken("k1", "link"), <<Redeem("k1", "link"), Ok>>,
                <<Redeem("k1", "link"), AlreadyUsed>> >>)

ConsumeTokenUnknownHash == Sequential(<< <<Redeem("k1", "reset"), TokenNotFound>> >>)

ConsumeTokenWrongPurpose ==
  Sequential(<< newToken("k1", "twoFactor"), <<Redeem("k1", "reset"), TokenNotFound>>,
                <<Redeem("k1", "twoFactor"), Ok>> >>)

DeleteExpiredTokensRemovesOnlyExpired ==
  Sequential(<< newTokenFor("k1", "u", "reset", 0), newToken("k2", "reset"), <<Purge, Ok>>,
                <<Redeem("k1", "reset"), TokenNotFound>>, <<Redeem("k2", "reset"), Ok>> >>)

DeleteUserTokensRemovesOnlyThatUserAndPurpose ==
  Sequential(<< newToken("k1", "reset"), newToken("k2", "twoFactor"),
                newTokenFor("k3", "v", "reset", 2), <<PurgeUser("u", "reset"), Ok>>,
                <<Redeem("k1", "reset"), TokenNotFound>>, <<Redeem("k2", "twoFactor"), Ok>>,
                <<Redeem("k3", "reset"), Ok>> >>)

DeleteUserTokensMatchingNothing == Sequential(<< <<PurgeUser("u", "change"), Ok>> >>)

ConsumeTokenWithoutUser ==
  Sequential(<< newTokenFor("k1", NilUser, "link", 2),
                <<Redeem("k1", "link"), Is(NilUser)>> >>)

DeleteUserTokensForNilUser ==
  Sequential(<< newTokenFor("k1", NilUser, "link", 2), <<PurgeUser(NilUser, "link"), Ok>>,
                <<Redeem("k1", "link"), Ok>> >>)

ConcurrentConsumeToken ==
  Race(<< newToken("k1", "reset") >>, [g \in racers |-> Redeem("k1", "reset")], <<>>,
       exactlyOneWinner(MaxRacers, AlreadyUsed))

RunTokenStore ==
  { ConsumeTokenReturnsTheStoredToken, ConsumeTokenTwice, ConsumeTokenUnknownHash,
    ConsumeTokenWrongPurpose, DeleteExpiredTokensRemovesOnlyExpired,
    DeleteUserTokensRemovesOnlyThatUserAndPurpose, DeleteUserTokensMatchingNothing,
    ConsumeTokenWithoutUser, DeleteUserTokensForNilUser, ConcurrentConsumeToken }

=============================================================================
