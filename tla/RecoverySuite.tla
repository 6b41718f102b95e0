--------------------------- MODULE RecoverySuite ---------------------------
(***************************************************************************)
(* RunRecoveryStore, src/storetest/recovery.go.  One definition up to      *)
(* RunRecoveryStore is one subtest.                                        *)
(***************************************************************************)
EXTENDS SqlRecovery, StoreTest

Replace(user, hashes) == [op |-> "ReplaceCodes", user |-> user, hashes |-> hashes]
Use(user, hash) == [op |-> "ConsumeCode", user |-> user, hash |-> hash]
Count(user) == [op |-> "CountCodes", user |-> user]
Delete(user) == [op |-> "DeleteCodes", user |-> user]

Left(n) == <<"ok", n>>

ReplaceCodesStoresTheWholeSet ==
  Sequential(<< <<Replace("u", {1, 2}), Ok>>, <<Count("u"), Left(2)>>, <<Use("u", 1), Ok>>,
                <<Use("u", 2), Ok>> >>)

ReplaceCodesDiscardsThePreviousSet ==
  Sequential(<< <<Replace("u", {1, 2}), Ok>>, <<Replace("u", {3, 4, 5}), Ok>>,
                <<Count("u"), Left(3)>>, <<Use("u", 1), CodeNotFound>> >>)

ConsumeCodeRemovesOnlyThatCode ==
  Sequential(<< <<Replace("u", {1, 2, 3}), Ok>>, <<Use("u", 2), Left(2)>>,
                <<Count("u"), Left(2)>>, <<Use("u", 1), Ok>>, <<Use("u", 3), Ok>> >>)

ConsumeCodeTwice ==
  Sequential(<< <<Replace("u", {1, 2}), Ok>>, <<Use("u", 1), Ok>>,
                <<Use("u", 1), CodeNotFound>> >>)

ConsumeCodeForAnotherUser ==
  Sequential(<< <<Replace("u", {1, 2}), Ok>>, <<Use("v", 1), CodeNotFound>>,
                <<Use("u", 1), Ok>> >>)

ConsumeCodeUnknownHash ==
  Sequential(<< <<Replace("u", {1, 2}), Ok>>, <<Use("u", 3), CodeNotFound>> >>)

CountCodesForAnUnknownUser == Sequential(<< <<Count("u"), Left(0)>> >>)

DeleteCodesRemovesEveryCode ==
  Sequential(<< <<Replace("u", {1, 2, 3}), Ok>>, <<Delete("u"), Ok>>, <<Count("u"), Left(0)>>,
                <<Use("u", 1), CodeNotFound>> >>)

ReplaceCodesWithAnEmptySet ==
  Sequential(<< <<Replace("u", {1, 2}), Ok>>, <<Replace("u", {}), Ok>>,
                <<Count("u"), Left(0)>> >>)

DeleteCodesForAnUnknownUser == Sequential(<< <<Delete("u"), Ok>> >>)

ConcurrentConsumeCode ==
  Race(<< <<Replace("u", {1, 2}), Ok>> >>, [g \in racers |-> Use("u", 1)], <<Count("u")>>,
       {o \o <<Left(1)>> : o \in exactlyOneWinner(MaxRacers, CodeNotFound)})

(* Every count below the number of codes is reported by one racer.         *)
ConcurrentConsumeReturnsEachRemainingCount ==
  Race(<< <<Replace("u", racers), Ok>> >>, [g \in racers |-> Use("u", g)], <<>>,
       {[g \in racers |-> Left(f[g] - 1)] :
          f \in {f \in [racers -> racers] : {f[g] : g \in racers} = racers}})

ConcurrentConsumeOfDistinctCodes ==
  Race(<< <<Replace("u", racers), Ok>> >>, [g \in racers |-> Use("u", g)], <<Count("u")>>,
       {[g \in racers |-> Ok] \o <<Left(0)>>})

RunRecoveryStore ==
  { ReplaceCodesStoresTheWholeSet, ReplaceCodesDiscardsThePreviousSet,
    ConsumeCodeRemovesOnlyThatCode, ConsumeCodeTwice, ConsumeCodeForAnotherUser,
    ConsumeCodeUnknownHash, CountCodesForAnUnknownUser, DeleteCodesRemovesEveryCode,
    ReplaceCodesWithAnEmptySet, DeleteCodesForAnUnknownUser, ConcurrentConsumeCode,
    ConcurrentConsumeReturnsEachRemainingCount, ConcurrentConsumeOfDistinctCodes }

=============================================================================
