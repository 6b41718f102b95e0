------------------------------- MODULE Stores -------------------------------
(***************************************************************************)
(* The stores of the library together: TOTP (SqlTotp), passkeys and        *)
(* challenges (SqlPasskey), users, sessions and tokens (SqlAccounts) and   *)
(* recovery codes (SqlRecovery), each in memory, on PostgreSQL and on      *)
(* SQLite, called concurrently.  No statement touches the tables of two    *)
(* stores and no method takes the advisory locks of two, so the calls of   *)
(* one behaviour go to one store.                                          *)
(***************************************************************************)
EXTENDS Sql

CONSTANTS Families,        \* the stores that are called
          BulkChoices,     \* whether deletions of several rows are called
          TotpIds, MaxCounter,
          PasskeyUsers, PasskeyIds, Names, Keys, Data, ChallengeClock, TTL,
          Users, Emails, Sessions, Tokens, Purposes, Clock, Expiries,
          Generations, FirstCodes

ASSUME StoresAssumption ==
  /\ Txns = 1 .. 3
  /\ Families \subseteq {"totp", "passkey", "accounts", "recovery"}
  /\ BulkChoices \subseteq BOOLEAN
  /\ TTL \in Nat \ {0} /\ ChallengeClock \subseteq Nat
  /\ \A g, h \in Generations \cup {FirstCodes} : g = h \/ g \cap h = {}

VARIABLES family, bulk     \* chosen once

vars == <<impl, db, held, txn, family, bulk>>

Totp == INSTANCE SqlTotp WITH Ids <- TotpIds
Passkey ==
  INSTANCE SqlPasskey WITH Users <- PasskeyUsers, Ids <- PasskeyIds,
                           Clock <- ChallengeClock
Accounts == INSTANCE SqlAccounts
Recovery == INSTANCE SqlRecovery

(* The calls the contract is about, on one row, one slot or one code set,  *)
(* and the deletions of several rows, which promise less.                  *)
TotpCalls == Totp!Call
PasskeyCalls == Passkey!SingleCall \cup Passkey!ChallengeCall
AccountCalls == Accounts!UserCall \cup Accounts!SessionCall \cup Accounts!TokenCall
RecoveryCalls == Recovery!CodeCall

PasskeyBulk == Passkey!BulkCall
AccountBulk == Accounts!BulkCall
RecoveryBulk == Recovery!BulkCall

ContractCalls == TotpCalls \cup PasskeyCalls \cup AccountCalls \cup RecoveryCalls

BulkCalls == PasskeyBulk \cup AccountBulk \cup RecoveryBulk

-----------------------------------------------------------------------------

Databases ==
  CASE family = "totp"     -> Totp!Databases
    [] family = "passkey"  -> Passkey!Databases
    [] family = "accounts" -> Accounts!Databases
    [] family = "recovery" -> Recovery!Databases

Init ==
  /\ impl \in Impls
  /\ family \in Families
  /\ bulk \in BulkChoices
  /\ family = "totp" => ~bulk
  /\ db \in Databases
  /\ held = {}
  /\ txn = [t \in Txns |-> Idle]

(* Calls are numbered in the order they begin; a behaviour makes at most   *)
(* MaxCalls of them, of which one is a deletion of several rows if bulk.   *)
MaxCalls == IF family = "recovery" THEN 3 ELSE 2

NextCall(t) ==
  t <= MaxCalls /\ \A s \in 1 .. t - 1 : txn[s].call # NoCall

Start(t) ==
  /\ NextCall(t)
  /\ bulk => t < MaxCalls \/ \E s \in Txns : txn[s].call \in BulkCalls
  /\ \/ family = "totp" /\ \E c \in TotpCalls : Begin(t, c, Totp!Program(c.op))
     \/ /\ family = "passkey"
        /\ \E c \in PasskeyCalls :
             Passkey!Allowed(c) /\ Begin(t, c, Passkey!Program(c.op))
     \/ /\ family = "accounts"
        /\ \E c \in AccountCalls :
             Accounts!Allowed(c) /\ Begin(t, c, Accounts!Program(c.op))
     \/ /\ family = "recovery"
        /\ \E c \in RecoveryCalls :
             Recovery!Allowed(c) /\ Begin(t, c, Recovery!Program(c.op))
  /\ UNCHANGED <<family, bulk>>

(* got holds the keys that a deletion's caller had reason to think were    *)
(* there.                                                                  *)
BeginBulk(t, c, program, matching) ==
  /\ txn[t].call = NoCall
  /\ Put(t, [Idle EXCEPT !.call = c, !.pc = program,
                         !.got = {r.key : r \in matching}])
  /\ UNCHANGED <<impl, db, held>>

StartBulk(t) ==
  /\ bulk
  /\ NextCall(t)
  /\ \/ /\ family = "passkey"
        /\ \E c \in PasskeyBulk :
             /\ Passkey!Allowed(c)
             /\ BeginBulk(t, c, Passkey!Program(c.op), Passkey!Matching(db, c))
     \/ /\ family = "accounts"
        /\ \E c \in AccountBulk :
             /\ Accounts!Allowed(c)
             /\ BeginBulk(t, c, Accounts!Program(c.op), Accounts!Matching(db, c))
     \/ /\ family = "recovery"
        /\ \E c \in RecoveryBulk :
             BeginBulk(t, c, Recovery!Program(c.op), Recovery!Matching(db, c))
  /\ UNCHANGED <<family, bulk>>

Statement(t) ==
  /\ \/ family = "totp" /\ Totp!Statement(t)
     \/ family = "passkey" /\ Passkey!Statement(t)
     \/ family = "accounts" /\ (Accounts!Statement(t) \/ Accounts!deadlockDetected(t))
     \/ family = "recovery" /\ Recovery!Statement(t)
  /\ UNCHANGED <<family, bulk>>

StatementFails(t) == Fail(t) /\ UNCHANGED <<family, bulk>>

Next ==
  \E t \in Txns : Start(t) \/ StartBulk(t) \/ Statement(t) \/ StatementFails(t)

(* The goroutines and the database make progress: a call under way takes   *)
(* its next statement unless it waits for another one.  Two deletions of   *)
(* several rows may wait for each other in any order of the rows; for them *)
(* no progress is assumed.                                                 *)
Spec ==
  /\ Init /\ [][Next]_vars
  /\ \A t \in Txns : WF_vars(~bulk /\ Statement(t))

-----------------------------------------------------------------------------
(* Properties.                                                             *)

ContractMethod(c, rows) ==
  CASE c \in TotpCalls     -> Totp!Method(c, rows)
    [] c \in PasskeyCalls  -> Passkey!Method(c, rows)
    [] c \in AccountCalls  -> Accounts!Method(c, rows)
    [] c \in RecoveryCalls -> Recovery!Method(c, rows)

Answers ==
  CASE bulk -> [t \in Txns |-> <<>>]
    [] ~bulk /\ family = "passkey" -> Passkey!Answer
    [] OTHER -> Outcome

Contract ==
  INSTANCE AtomicStore WITH Calls <- ContractCalls, Method <- ContractMethod,
                            rows <- IF bulk THEN {} ELSE db, out <- Answers

(* The statements of the SQL stores add up to the contract: however        *)
(* transactions interleave and fail, every call takes effect at one moment *)
(* and returns what an atomic store would have returned then.  Two         *)
(* confirmations cannot both promote, two deletions cannot both find       *)
(* another passkey left, of two updates from one read one is refused, of   *)
(* two callers with one token, challenge or recovery code one gets it, the *)
(* count ConsumeCode returns is the one its own deletion produced, and the *)
(* follow-up query that explains a refusal never explains it wrongly.      *)
ImplementsContract == Contract!Spec

(* No call waits for ever on a user lock, a row, an index entry or the     *)
(* connection: every early return ends its transaction, the user lock is   *)
(* the first statement of a method that takes it, and PostgreSQL resolves  *)
(* two UpdateUser calls that exchange addresses.                           *)
EveryCallReturns ==
  \A t \in Txns : (~bulk /\ txn[t].call # NoCall) ~> Done(t)

Matching(rows, c) ==
  CASE c \in PasskeyBulk -> Passkey!Matching(rows, c)
    [] c \in AccountBulk -> Accounts!Matching(rows, c)
    [] c \in RecoveryBulk -> Recovery!Matching(rows, c)

(* When a deletion of several rows returns (DeleteUserSessions,            *)
(* CleanExpired, DeleteUserTokens, DeleteCredentialsByUserID, DeleteCodes  *)
(* and the others), no row that matched when it was called is left,        *)
(* although the rows are visited one by one while sessions are touched and *)
(* tokens and codes consumed.                                              *)
BulkDeleteIsComplete ==
  [][\A t \in Txns :
       (/\ txn[t].pc # <<>> /\ Done(t)'
        /\ txn[t].call \in BulkCalls /\ txn'[t].res = <<"ok">>)
       => {r.key : r \in Matching(db', txn[t].call)} \cap txn[t].got = {}]_vars

(* postgres/recovery.go: "two concurrent replacements for one user         *)
(* serialize on it rather than interleaving into a mixed set."             *)
NoMixedSet ==
  family = "recovery" =>
    \E g \in Generations \cup {FirstCodes} : {r.key[2] : r \in db} \subseteq g

=============================================================================
