------------------------------- MODULE Suites -------------------------------
(***************************************************************************)
(* The conformance suites of src/storetest against the stores of           *)
(* src/memstore, src/store/sql/postgres and src/store/sql/sqlite: every    *)
(* subtest in every interleaving of the calls it races.                    *)
(***************************************************************************)
EXTENDS StoreTest

CONSTANTS TotpIds, MaxCounter,
          PasskeyUsers, PasskeyIds, Names, Keys, Data, ChallengeClock, TTL,
          Users, Emails, Sessions, Tokens, Purposes, Clock, Expiries,
          Generations, FirstCodes

Totp == INSTANCE TotpSuite WITH Ids <- TotpIds
Passkey ==
  INSTANCE PasskeySuite WITH Users <- PasskeyUsers, Ids <- PasskeyIds,
                             Clock <- ChallengeClock
Accounts == INSTANCE AccountSuite
Recovery == INSTANCE RecoverySuite

TotpTests == Totp!RunTOTPStore
PasskeyTests == Passkey!RunPasskeyStore \cup Passkey!RunPasskeyChallengeStore
AccountTests ==
  Accounts!RunUserStore \cup Accounts!RunSessionStore \cup Accounts!RunTokenStore
RecoveryTests == Recovery!RunRecoveryStore

VARIABLE suite     \* whose subtest is under way

vars == <<impl, db, held, txn, test, suite>>

Init ==
  /\ impl \in Impls
  /\ \/ suite = "totp" /\ test \in TotpTests
     \/ suite = "passkey" /\ test \in PasskeyTests
     \/ suite = "accounts" /\ test \in AccountTests
     \/ suite = "recovery" /\ test \in RecoveryTests
  /\ db = {} /\ held = {} /\ txn = [t \in Txns |-> Idle]

Program(op) ==
  CASE suite = "totp"     -> Totp!Program(op)
    [] suite = "passkey"  -> Passkey!Program(op)
    [] suite = "accounts" -> Accounts!Program(op)
    [] suite = "recovery" -> Recovery!Program(op)

StartCall(i) ==
  /\ Ready(test, i)
  /\ Begin(i, test.calls[i], Program(test.calls[i].op))
  /\ UNCHANGED <<test, suite>>

Statement(i) ==
  /\ \/ suite = "totp" /\ Totp!Statement(i)
     \/ suite = "passkey" /\ Passkey!Statement(i)
     \/ suite = "accounts" /\ Accounts!Statement(i)
     \/ suite = "recovery" /\ Recovery!Statement(i)
  /\ UNCHANGED <<test, suite>>

(* A finished subtest stays finished; one that hangs is a deadlock.        *)
Next ==
  \/ \E i \in Txns : StartCall(i) \/ Statement(i)
  \/ Finished(test) /\ UNCHANGED vars

Spec == Init /\ [][Next]_vars

(* Every subtest of RunTOTPStore, RunPasskeyStore,                         *)
(* RunPasskeyChallengeStore, RunUserStore, RunSessionStore, RunTokenStore  *)
(* and RunRecoveryStore passes on the in-memory, the PostgreSQL and the    *)
(* SQLite stores, in every interleaving of the calls it races.             *)
EverySubtestPasses == Passed(test)

=============================================================================
