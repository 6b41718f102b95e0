---------------------------- MODULE PasskeySuite ----------------------------
(***************************************************************************)
(* RunPasskeyStore and RunPasskeyChallengeStore, src/storetest/passkey.go, *)
(* run against every implementation.  Every definition between the two     *)
(* headings is one subtest.  SaveChallengeCopiesTheCallersData is left     *)
(* out: values here are never shared.                                      *)
(***************************************************************************)
EXTENDS SqlPasskey, StoreTest

SaveCred(id, user) == [op |-> "SaveCredential", id |-> id, user |-> user]
GetByUser(user) == [op |-> "GetCredentialsByUserID", user |-> user]
GetByID(id) == [op |-> "GetCredentialByID", id |-> id]
AfterLogin(id, login) == [op |-> "UpdateCredentialAfterLogin", id |-> id, login |-> login]
DeleteCred(user, id, allowLast) ==
  [op |-> "DeleteCredential", user |-> user, id |-> id, allowLast |-> allowLast]
DeleteUser(user) == [op |-> "DeleteCredentialsByUserID", user |-> user]
RenameCred(user, id, name) ==
  [op |-> "RenameCredential", user |-> user, id |-> id, name |-> name]
SaveChal(key, data) ==
  [op |-> "SaveChallenge", key |-> key, data |-> data, now |-> 0, ttl |-> TTL]
Consume(key) == [op |-> "ConsumeChallenge", key |-> key, now |-> 0]

NotFound == <<"notFound">>
LastCredential == <<"lastCredential">>
ChallengeNotFound == <<"challengeNotFound">>

newCredential(id, user) == CredentialRow(id, user, Unused, "")

Creds(rows) == <<"ok", rows>>

SaveAll(creds) == [i \in DOMAIN creds |-> <<SaveCred(creds[i][1], creds[i][2]), Ok>>]

-----------------------------------------------------------------------------
(* RunPasskeyStore                                                         *)

SaveCredentialRoundTrips ==
  Sequential(<< <<SaveCred("c1", "u"), Ok>>,
                <<GetByID("c1"), <<"ok", newCredential("c1", "u")>>>>,
                <<GetByUser("u"), Creds({newCredential("c1", "u")})>> >>)

GetCredentialsByUserIDOnlyThatUsers ==
  Sequential(SaveAll(<< <<"c1", "u">>, <<"c2", "u">>, <<"c3", "v">> >>) \o
    << <<GetByUser("u"), Creds({newCredential("c1", "u"), newCredential("c2", "u")})>> >>)

GetCredentialsByUserIDUnknownUser == Sequential(<< <<GetByUser("u"), Creds({})>> >>)

GetCredentialByIDUnknown == Sequential(<< <<GetByID("c1"), NotFound>> >>)

UpdateCredentialAfterLoginPersists ==
  LET used == CredentialRow("c1", "u", <<9, TRUE, 5>>, "") IN
  Sequential(<< <<SaveCred("c1", "u"), Ok>>, <<AfterLogin("c1", <<9, TRUE, 5>>), Ok>>,
                <<GetByID("c1"), <<"ok", used>>>>, <<GetByUser("u"), Creds({used})>> >>)

DeleteCredentialRemovesANonLast ==
  Sequential(SaveAll(<< <<"c1", "u">>, <<"c2", "u">> >>) \o
    << <<DeleteCred("u", "c1", FALSE), Ok>>,
       <<GetByUser("u"), Creds({newCredential("c2", "u")})>> >>)

DeleteCredentialRefusesTheLast ==
  Sequential(<< <<SaveCred("c1", "u"), Ok>>,
                <<DeleteCred("u", "c1", FALSE), LastCredential>>,
                <<GetByUser("u"), Creds({newCredential("c1", "u")})>> >>)

DeleteCredentialRemovesTheLastWithAllowLast ==
  Sequential(<< <<SaveCred("c1", "u"), Ok>>, <<DeleteCred("u", "c1", TRUE), Ok>>,
                <<GetByUser("u"), Creds({})>> >>)

DeleteCredentialForAnotherUser ==
  Sequential(SaveAll(<< <<"c1", "u">>, <<"c2", "u">>, <<"c3", "v">>, <<"c4", "v">> >>) \o
    << <<DeleteCred("v", "c1", TRUE), NotFound>>,
       <<GetByUser("u"), Creds({newCredential("c1", "u"), newCredential("c2", "u")})>> >>)

DeleteCredentialUnknownID ==
  Sequential(<< <<SaveCred("c1", "u"), Ok>>, <<DeleteCred("u", "c2", TRUE), NotFound>> >>)

DeleteCredentialsByUserIDOnlyThatUsers ==
  Sequential(SaveAll(<< <<"c1", "u">>, <<"c2", "u">>, <<"c3", "v">> >>) \o
    << <<DeleteUser("u"), Ok>>, <<GetByUser("u"), Creds({})>>, <<GetByID("c1"), NotFound>>,
       <<GetByUser("v"), Creds({newCredential("c3", "v")})>> >>)

RenameCredentialSetsName ==
  LET renamed == CredentialRow("c1", "u", Unused, "n") IN
  Sequential(<< <<SaveCred("c1", "u"), Ok>>, <<RenameCred("u", "c1", "n"), Ok>>,
                <<GetByID("c1"), <<"ok", renamed>>>>, <<GetByUser("u"), Creds({renamed})>> >>)

RenameCredentialUnknownID == Sequential(<< <<RenameCred("u", "c1", "n"), NotFound>> >>)

RenameCredentialForAnotherUser ==
  Sequential(<< <<SaveCred("c1", "u"), Ok>>, <<RenameCred("v", "c1", "n"), NotFound>>,
                <<GetByID("c1"), <<"ok", newCredential("c1", "u")>>>> >>)

ConcurrentDeleteNeverEmptiesTheUser ==
  Race(SaveAll(<< <<"c1", "u">>, <<"c2", "u">> >>),
       <<DeleteCred("u", "c1", FALSE), DeleteCred("u", "c2", FALSE)>>, <<GetByUser("u")>>,
       {<<Ok, LastCredential, Creds({newCredential("c2", "u")})>>,
        <<LastCredential, Ok, Creds({newCredential("c1", "u")})>>})

ConcurrentDeleteOfTheSameCredential ==
  Race(SaveAll(<< <<"c1", "u">>, <<"c2", "u">> >>),
       [i \in racers |-> DeleteCred("u", "c1", FALSE)], <<>>,
       exactlyOneWinner(MaxRacers, NotFound))

-----------------------------------------------------------------------------
(* RunPasskeyChallengeStore                                                *)

SaveChallengeRoundTrips ==
  Sequential(<< <<SaveChal("k", "d"), Ok>>, <<Consume("k"), <<"ok", "d">>>> >>)

ConsumeChallengeTwiceFails ==
  Sequential(<< <<SaveChal("k", "d"), Ok>>, <<Consume("k"), Ok>>,
                <<Consume("k"), ChallengeNotFound>> >>)

ConsumeChallengeUnknownKeyFails == Sequential(<< <<Consume("k"), ChallengeNotFound>> >>)

ChallengesAreScopedToTheirKey ==
  Sequential(<< <<SaveChal("register", "d"), Ok>>, <<SaveChal("login", "e"), Ok>>,
                <<Consume("register"), <<"ok", "d">>>>, <<Consume("login"), <<"ok", "e">>>> >>)

SaveChallengeReplacesAnEarlierValue ==
  Sequential(<< <<SaveChal("k", "d"), Ok>>, <<SaveChal("k", "e"), Ok>>,
                <<Consume("k"), <<"ok", "e">>>> >>)

ConcurrentConsumeChallenge ==
  Race(<< <<SaveChal("k", "d"), Ok>> >>, [i \in racers |-> Consume("k")], <<>>,
       exactlyOneWinner(MaxRacers, ChallengeNotFound))

-----------------------------------------------------------------------------

RunPasskeyStore ==
  { SaveCredentialRoundTrips, GetCredentialsByUserIDOnlyThatUsers,
    GetCredentialsByUserIDUnknownUser, GetCredentialByIDUnknown,
    UpdateCredentialAfterLoginPersists, DeleteCredentialRemovesANonLast,
    DeleteCredentialRefusesTheLast, DeleteCredentialRemovesTheLastWithAllowLast,
    DeleteCredentialForAnotherUser, DeleteCredentialUnknownID,
    DeleteCredentialsByUserIDOnlyThatUsers, RenameCredentialSetsName,
    RenameCredentialUnknownID, RenameCredentialForAnotherUser,
    ConcurrentDeleteNeverEmptiesTheUser, ConcurrentDeleteOfTheSameCredential }

RunPasskeyChallengeStore ==
  { SaveChallengeRoundTrips, ConsumeChallengeTwiceFails,
    ConsumeChallengeUnknownKeyFails, ChallengesAreScopedToTheirKey,
    SaveChallengeReplacesAnEarlierValue, ConcurrentConsumeChallenge }

=============================================================================
