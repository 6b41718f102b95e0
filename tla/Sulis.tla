------------------------------- MODULE Sulis --------------------------------
(***************************************************************************)
(* The account core of the library: the Sulis type's flows over the user,  *)
(* session and token stores (src/sulis.go, issue.go, session.go,           *)
(* twofactor.go, magiclink.go, emailverification.go, changeemail.go,       *)
(* status.go, over src/memstore).                                          *)
(*                                                                         *)
(* Every call of a flow is a request.  A request runs alone only inside a  *)
(* store method, which holds the store's mutex; between two store methods  *)
(* any other request may run.  So a request is a program counter that      *)
(* names its next store call, and the rows it has read are copies that may *)
(* be stale.  One action starts each flow; one action performs each store  *)
(* call, together with the code that runs up to the next one.              *)
(*                                                                         *)
(* Automatic lockout is off, which is the default configuration; rate      *)
(* limiting and the password policy refuse a request before its first      *)
(* store call and so start nothing.  A token's expiry and a magic link's   *)
(* nonce are checked once, right after the token is consumed, so whether   *)
(* the check passes is a choice of that step.                              *)
(***************************************************************************)
EXTENDS Naturals

CONSTANTS
  Uids,       \* user ids available to uuid.NewV7
  Emails,     \* normalized addresses
  Passwords,
  Requests,   \* concurrent calls
  Ops,        \* the flows that may be called
  Seeds,      \* contents of the stores at start: see SeedsAssumption
  RevokeSessionsOnPasswordChange,   \* Config, default TRUE
  RequireVerifiedEmail              \* Config, default TRUE

MaxUserUpdateAttempts == 3

VARIABLES
  users,      \* user rows by id, a function on the ids in use
  sessions,   \* session rows
  tokens,     \* token rows
  proven,     \* history: addresses whose mailbox has been proven
  nextId,     \* the next session or token id
  req         \* the state of every request

stores == <<users, sessions, tokens, proven, nextId>>
vars == <<users, sessions, tokens, proven, nextId, req>>

-----------------------------------------------------------------------------
(* Rows.  An absent value ("" or nil or uuid.Nil) is the empty set.  A     *)
(* hash is salted: gen tells hashes of one password apart, and a re-hash   *)
(* of the same password keeps gen.                                         *)

Hash == [pw : Passwords, gen : Nat, weak : BOOLEAN]

Row == [email : Emails, hash : SUBSET Hash, verified : BOOLEAN,
        pending : SUBSET Emails, disabled : BOOLEAN, version : Nat]

AtMostOne(S) == \A x, y \in S : x = y

NewRow(e, hash) ==
  [email |-> e, hash |-> hash, verified |-> FALSE, pending |-> {},
   disabled |-> FALSE, version |-> 0]

Flows == {"Register", "Login", "ChangePassword", "SetInitialPassword",
          "CreatePasswordResetToken", "ResetPassword", "CreateMagicLinkToken",
          "RedeemMagicLink", "CreateEmailVerificationToken", "VerifyEmail",
          "ChangeEmail", "ConfirmEmailChange", "CreateTwoFactorToken",
          "CompleteTwoFactor", "IssueSessionUnchecked", "RefreshSession",
          "RevokeSession", "RevokeAllSessions", "DisableUser", "EnableUser"}

(* Of a session, root is the sign-in it was rotated from; of a session and *)
(* a token, born is the owner's row version when it was stored (history).  *)
Session == [id : Nat, uid : Uids, root : Nat, born : Nat, via : Flows]

Purposes == {"password_reset", "magic_link", "two_factor",
             "email_verification", "email_change"}

(* mailbox is where the token was sent, against the hash a pending login   *)
(* was verified with (both history).                                       *)
Token == [id : Nat, purpose : Purposes, uid : SUBSET Uids,
          email : SUBSET Emails, used : BOOLEAN, born : Nat,
          mailbox : SUBSET Emails, against : SUBSET Hash]

SetsPassword == {"ChangePassword", "SetInitialPassword", "ResetPassword"}

Stamps == {"VerifyEmail", "RedeemMagicLink"}

(* The purpose of the token a flow redeems, and of the one it issues.      *)
Redeems(op) ==
  CASE op = "ResetPassword" -> "password_reset"
    [] op = "VerifyEmail" -> "email_verification"
    [] op = "ConfirmEmailChange" -> "email_change"
    [] op = "RedeemMagicLink" -> "magic_link"
    [] OTHER -> "two_factor"

Issues(op) ==
  CASE op = "CreatePasswordResetToken" -> "password_reset"
    [] op = "CreateEmailVerificationToken" -> "email_verification"
    [] op = "ChangeEmail" -> "email_change"
    [] op = "CreateMagicLinkToken" -> "magic_link"
    [] OTHER -> "two_factor"

PCs == {"idle", "lookup", "relookup", "create", "consume", "load", "read",
        "taken", "write", "reload", "revoke", "purgeReset", "purge2FA",
        "purgeMagic", "factor", "token", "session", "delete", "done"}

(* user is the row the flow has loaded, cur the mutated row it is about to *)
(* write; wver is the version its write produced (0: none), got whether it *)
(* was handed its token.                                                   *)
Request ==
  [op : Flows \cup {"none"}, pc : PCs, uid : Uids, email : Emails, pw : Passwords,
   new : Passwords, tok : Nat, got : BOOLEAN, nil : BOOLEAN, sess : Nat,
   root : Nat, user : Row, cur : Row, hadpw : BOOLEAN, tries : Nat,
   wver : Nat, res : {"none", "ok", "err", "conflict"}]

AnyUid == CHOOSE u \in Uids : TRUE
AnyEmail == CHOOSE e \in Emails : TRUE
AnyPassword == CHOOSE p \in Passwords : TRUE

Idle ==
  [op |-> "none", pc |-> "idle", uid |-> AnyUid,
   email |-> AnyEmail, pw |-> AnyPassword, new |-> AnyPassword, tok |-> 0,
   got |-> FALSE, nil |-> FALSE, sess |-> 0, root |-> 0,
   user |-> NewRow(AnyEmail, {}), cur |-> NewRow(AnyEmail, {}),
   hadpw |-> FALSE, tries |-> 0, wver |-> 0, res |-> "none"]

-----------------------------------------------------------------------------
(* The stores at start hold what earlier requests left there.              *)

UniqueEmails(us) ==
  \A u, v \in DOMAIN us : us[u].email = us[v].email => u = v

(* What a token carries: it names one user, except a magic link sent       *)
(* before the account exists; one that is bound to an address was sent to  *)
(* it; a magic link for an account whose address is not yet verified was   *)
(* sent to that address.                                                   *)
TokenShape(t, us) ==
  /\ \/ \E u \in DOMAIN us : t.uid = {u}
     \/ t.uid = {} /\ t.purpose = "magic_link"
  /\ (t.uid = {} \/ t.purpose \in {"email_verification", "email_change"}) =>
       \E e \in Emails : t.email = {e} /\ t.mailbox = {e}
  /\ t.purpose = "magic_link" =>
       \A u \in t.uid : us[u].verified \/ t.mailbox = {us[u].email}

SeedOK(s) ==
  /\ DOMAIN s.users \subseteq Uids
  /\ s.users \in [DOMAIN s.users -> Row]
  /\ \A u \in DOMAIN s.users : AtMostOne(s.users[u].hash)
  /\ UniqueEmails(s.users)
  /\ s.proven \subseteq Emails
  /\ \A u \in DOMAIN s.users :
       s.users[u].verified => s.users[u].email \in s.proven
  /\ s.nextId \in Nat
  /\ s.sessions \subseteq Session
  /\ \A x \in s.sessions :
       /\ x.uid \in DOMAIN s.users
       /\ x.id < s.nextId /\ x.root < s.nextId
       /\ x.born <= s.users[x.uid].version
       /\ s.users[x.uid].verified \/ x.via = "Register"
       /\ \A y \in s.sessions : x.id = y.id \/ x.root = y.root => x = y
  /\ s.tokens \subseteq Token
  /\ \A t \in s.tokens :
       /\ t.id < s.nextId
       /\ TokenShape(t, s.users)
       /\ \A u \in t.uid : u \in DOMAIN s.users /\ t.born <= s.users[u].version
       /\ \A v \in s.tokens : t.id = v.id => t = v

ASSUME SeedsAssumption ==
  /\ Emails # {} /\ Passwords # {} /\ Uids # {}
  /\ RevokeSessionsOnPasswordChange \in BOOLEAN
  /\ RequireVerifiedEmail \in BOOLEAN
  /\ \A s \in Seeds : SeedOK(s)

Init ==
  /\ \E s \in Seeds :
       /\ users = s.users
       /\ sessions = s.sessions
       /\ tokens = s.tokens
       /\ proven = s.proven
       /\ nextId = s.nextId
  /\ req = [r \in Requests |-> Idle]

-----------------------------------------------------------------------------
(* Bookkeeping of a request.                                               *)

Put(r, q) == req' = [req EXCEPT ![r] = q]

Done(q, res) == [q EXCEPT !.pc = "done", !.res = res, !.cur = Idle.cur]

Begin(r, q) ==
  /\ q.op \in Ops
  /\ req[r].pc = "idle"
  /\ Put(r, q)
  /\ UNCHANGED stores

(* The element of an optional value that is present.                       *)
Only(S) == CHOOSE x \in S : TRUE

Holders(e) == {u \in DOMAIN users : users[u].email = e}

verifyPassword(p, hash) == \E h \in hash : h.pw = p

-----------------------------------------------------------------------------
(* Decisions taken on a row the request holds, which may be stale.         *)

accountStatus(row) == ~row.disabled

MutRequireVerifiedEmail(row) == TRUE

requireVerifiedEmail(row) == RequireVerifiedEmail => row.verified

MayHaveSession(row) == accountStatus(row) /\ requireVerifiedEmail(row)

completeFirstFactor(q) ==
  IF MayHaveSession(q.user) THEN [q EXCEPT !.pc = "factor"]
                            ELSE Done(q, "err")

(* VerifyPassword after GetUserByEmail: a weak hash is upgraded first.     *)
VerifyPassword(q) ==
  IF ~verifyPassword(q.pw, q.user.hash) THEN Done(q, "err")
  ELSE IF \E h \in q.user.hash : h.weak THEN [q EXCEPT !.pc = "read"]
  ELSE completeFirstFactor(q)

(* What follows stampEmailVerified in its two callers.                     *)
AfterStamp(q) ==
  IF q.op = "VerifyEmail" THEN Done(q, "ok") ELSE completeFirstFactor(q)

stampEmailVerified(q) ==
  IF q.user.verified THEN AfterStamp(q) ELSE [q EXCEPT !.pc = "read"]

(* The guards of the mutate closures passed to updateUserWithRetry, run on *)
(* the row the update has just read.                                       *)
UnchangedHash(q, row) == row.hash = q.user.hash

MutVerifyOld(q, row) == verifyPassword(q.pw, q.user.hash)

verifyOld(q, row) == verifyPassword(q.pw, row.hash)

Passwordless(row) == row.hash = {}

NotVerified(row) == ~row.verified

MutStillStaged(q, row) == row.pending # {}

StillStaged(q, row) == row.pending = {q.email}

Accepts(q, row) ==
  /\ q.op = "Login" => UnchangedHash(q, row)
  /\ q.op = "ChangePassword" => verifyOld(q, row)
  /\ q.op = "SetInitialPassword" => Passwordless(row)
  /\ q.op \in Stamps => NotVerified(row)
  /\ q.op = "ConfirmEmailChange" => StillStaged(q, row)

(* What the closures make of a row they accept.                            *)
NewHash(q, row) == {[pw |-> q.new, gen |-> row.version + 1, weak |-> FALSE]}

Rehashed(hash) == {[h EXCEPT !.weak = FALSE] : h \in hash}

Stamped(row) == [row EXCEPT !.verified = TRUE]

Staged(q, row) == [row EXCEPT !.pending = {q.email}]

Swapped(row) ==
  [row EXCEPT !.email = Only(row.pending), !.pending = {}, !.verified = TRUE]

Disabled(row) == [row EXCEPT !.disabled = TRUE]

Enabled(row) == [row EXCEPT !.disabled = FALSE]

Mutate(q, row) ==
  CASE q.op = "Login" -> [row EXCEPT !.hash = Rehashed(row.hash)]
    [] q.op \in SetsPassword -> [row EXCEPT !.hash = NewHash(q, row)]
    [] q.op \in Stamps -> Stamped(row)
    [] q.op = "ChangeEmail" -> Staged(q, row)
    [] q.op = "ConfirmEmailChange" -> Swapped(row)
    [] q.op = "DisableUser" -> Disabled(row)
    [] OTHER -> Enabled(row)

(* updateUserWithRetry returning an error: rehashPassword drops it, and    *)
(* stampEmailVerified reloads on errAlreadyVerified.                       *)
UpdateFailed(q, res) ==
  IF q.op = "Login" THEN completeFirstFactor(q) ELSE Done(q, res)

Refused(q) ==
  IF q.op \in Stamps THEN [q EXCEPT !.pc = "reload"] ELSE UpdateFailed(q, "err")

MutUpdated(q) ==
  CASE q.op = "Login" -> completeFirstFactor(q)
    [] q.op \in SetsPassword \cup {"ConfirmEmailChange"} ->
         [q EXCEPT !.pc = "purgeReset"]
    [] q.op \in Stamps -> AfterStamp([q EXCEPT !.user = q.cur])
    [] q.op = "ChangeEmail" -> [q EXCEPT !.pc = "token"]
    [] OTHER -> Done(q, "ok")

(* What follows the write.  stampEmailVerified hands its caller the row    *)
(* updateUserWithRetry returned, which still carries the version read.     *)
Updated(q) ==
  CASE q.op = "Login" -> completeFirstFactor(q)
    [] q.op \in SetsPassword ->
         [q EXCEPT !.pc = IF RevokeSessionsOnPasswordChange
                            THEN "revoke" ELSE "purgeReset"]
    [] q.op \in Stamps ->
         LET p == [q EXCEPT !.user = q.cur]
         IN IF q.hadpw THEN [p EXCEPT !.pc = "revoke"] ELSE AfterStamp(p)
    [] q.op = "ChangeEmail" -> [q EXCEPT !.pc = "token"]
    [] q.op \in {"ConfirmEmailChange", "DisableUser"} ->
         [q EXCEPT !.pc = "revoke"]
    [] OTHER -> Done(q, "ok")

AfterRevoke(q) ==
  CASE q.op \in SetsPassword \cup {"ConfirmEmailChange"} ->
         [q EXCEPT !.pc = "purgeReset"]
    [] q.op \in Stamps -> AfterStamp(q)
    [] OTHER -> Done(q, "ok")

-----------------------------------------------------------------------------
(* Store calls.  Each is atomic, and takes the request to its next one.    *)

(* UserStore.GetUserByEmail.                                               *)
Found(q, u) ==
  LET p == [q EXCEPT !.uid = u, !.user = users[u]] IN
  CASE q.op = "Login" -> VerifyPassword(p)
    [] q.op = "RedeemMagicLink" -> stampEmailVerified(p)
    [] q.op = "ChangeEmail" -> Done(q, "err")
    [] OTHER -> [p EXCEPT !.pc = "token"]

NotFound(q) ==
  CASE q.op = "CreatePasswordResetToken" -> Done(q, "ok")
    [] q.op = "CreateMagicLinkToken" -> [q EXCEPT !.pc = "token", !.nil = TRUE]
    [] q.op = "ChangeEmail" -> [q EXCEPT !.pc = "read"]
    [] q.op = "RedeemMagicLink" /\ q.pc = "lookup" -> [q EXCEPT !.pc = "create"]
    [] OTHER -> Done(q, "err")

GetUserByEmail(r) ==
  LET q == req[r] IN
  /\ q.pc \in {"lookup", "relookup"}
  /\ \/ \E u \in Holders(q.email) : Put(r, Found(q, u))
     \/ Holders(q.email) = {} /\ Put(r, NotFound(q))
  /\ UNCHANGED stores

(* UserStore.CreateUser, for Register and getOrCreatePasswordlessUser.     *)
CreateUser(r) ==
  LET q == req[r]
      hash == IF q.op = "Register"
                THEN {[pw |-> q.new, gen |-> 0, weak |-> FALSE]} ELSE {}
      row == NewRow(q.email, hash)
  IN
  /\ q.pc = "create"
  /\ \/ /\ Holders(q.email) # {}
        /\ Put(r, IF q.op = "Register" THEN Done(q, "err")
                  ELSE [q EXCEPT !.pc = "relookup"])
        /\ UNCHANGED users
     \/ /\ Holders(q.email) = {}
        /\ \E u \in Uids \ DOMAIN users :
             /\ users' = [v \in DOMAIN users \cup {u} |->
                            IF v = u THEN row ELSE users[v]]
             /\ Put(r, [q EXCEPT !.uid = u, !.user = row,
                                 !.pc = IF q.op = "Register"
                                          THEN "session" ELSE "read"])
  /\ UNCHANGED <<sessions, tokens, proven, nextId>>

(* UserStore.GetUserByID, where a flow loads the row it decides on.        *)
Loaded(q) ==
  CASE q.op = "VerifyEmail" ->
         IF q.user.email # q.email THEN Done(q, "err")
                                   ELSE stampEmailVerified(q)
    [] q.op = "RedeemMagicLink" -> stampEmailVerified(q)
    [] q.op = "ChangePassword" -> [q EXCEPT !.pc = "read"]
    [] q.op = "CreateEmailVerificationToken" ->
         [q EXCEPT !.pc = "token", !.email = q.user.email]
    [] q.op = "CreateTwoFactorToken" ->
         IF requireVerifiedEmail(q.user) THEN [q EXCEPT !.pc = "token"]
                                         ELSE Done(q, "err")
    [] OTHER ->
         IF MayHaveSession(q.user) THEN [q EXCEPT !.pc = "session"]
                                   ELSE Done(q, "err")

GetUserByID(r) ==
  LET q == req[r]
      p == [q EXCEPT !.user = users[q.uid]] IN
  /\ q.pc \in {"load", "reload"}
  /\ Put(r, IF q.pc = "load" THEN Loaded(p) ELSE AfterStamp(p))
  /\ UNCHANGED stores

(* updateUserWithRetry: the read of one attempt, and mutate on that copy.  *)
ReadForUpdate(r) ==
  LET q == req[r]
      row == users[q.uid] IN
  /\ q.pc = "read"
  /\ Put(r, IF ~Accepts(q, row) THEN Refused(q)
            ELSE [q EXCEPT !.cur = Mutate(q, row), !.hadpw = row.hash # {},
                           !.pc = IF q.op = "ConfirmEmailChange"
                                    THEN "taken" ELSE "write"])
  /\ UNCHANGED stores

(* ConfirmEmailChange's early check that the address is still free, inside *)
(* mutate and so between the read and the write.                           *)
StillFree(r) ==
  LET q == req[r] IN
  /\ q.pc = "taken"
  /\ Put(r, IF Holders(q.email) = {} THEN [q EXCEPT !.pc = "write"]
                                     ELSE Done(q, "err"))
  /\ UNCHANGED stores

(* UserStore.UpdateUser, and the retry on ErrConcurrentUpdate.             *)
MutEmailTaken(e, u) == FALSE

EmailTaken(e, u) == \E v \in DOMAIN users : v # u /\ users[v].email = e

MutVersionMatches(q) == TRUE

VersionMatches(q) == users[q.uid].version = q.cur.version

MutConflict(q) == [q EXCEPT !.pc = "write"]

MutGiveUpEarly(q) ==
  IF q.tries + 2 < MaxUserUpdateAttempts
    THEN [q EXCEPT !.pc = "read", !.tries = q.tries + 1]
    ELSE UpdateFailed(q, "conflict")

Conflict(q) ==
  IF q.tries + 1 < MaxUserUpdateAttempts
    THEN [q EXCEPT !.pc = "read", !.tries = q.tries + 1]
    ELSE UpdateFailed(q, "conflict")

UpdateUser(r) ==
  LET q == req[r]
      version == users[q.uid].version + 1 IN
  /\ q.pc = "write"
  /\ \/ /\ VersionMatches(q) /\ ~EmailTaken(q.cur.email, q.uid)
        /\ users' = [users EXCEPT ![q.uid] = [q.cur EXCEPT !.version = version]]
        /\ Put(r, Updated([q EXCEPT !.wver = version]))
     \/ /\ VersionMatches(q) /\ EmailTaken(q.cur.email, q.uid)
        /\ Put(r, UpdateFailed(q, "err"))
        /\ UNCHANGED users
     \/ /\ ~VersionMatches(q)
        /\ Put(r, Conflict(q))
        /\ UNCHANGED users
  /\ UNCHANGED <<sessions, tokens, proven, nextId>>

(* SessionStore.DeleteUserSessions, behind revokeUserSessions.             *)
DeleteUserSessions(r) ==
  LET q == req[r] IN
  /\ q.pc = "revoke"
  /\ sessions' = {x \in sessions : x.uid # q.uid}
  /\ Put(r, AfterRevoke(q))
  /\ UNCHANGED <<users, tokens, proven, nextId>>

(* TokenStore.DeleteUserTokens, three times in a row.                      *)
Purged(pc) ==
  CASE pc = "purgeReset" -> "password_reset"
    [] pc = "purge2FA" -> "two_factor"
    [] OTHER -> "magic_link"

MutAfterPurge(q) ==
  IF q.pc = "purgeReset" THEN [q EXCEPT !.pc = "purge2FA"] ELSE Done(q, "ok")

AfterPurge(q) ==
  CASE q.pc = "purgeReset" -> [q EXCEPT !.pc = "purge2FA"]
    [] q.pc = "purge2FA" -> [q EXCEPT !.pc = "purgeMagic"]
    [] OTHER -> Done(q, "ok")

DeleteUserTokens(r) ==
  LET q == req[r] IN
  /\ q.pc \in {"purgeReset", "purge2FA", "purgeMagic"}
  /\ tokens' = {t \in tokens :
                 t.uid # {q.uid} \/ t.purpose # Purged(q.pc)}
  /\ Put(r, AfterPurge(q))
  /\ UNCHANGED <<users, sessions, proven, nextId>>

(* TokenStore.ConsumeToken under consumeToken, and the checks each flow    *)
(* makes on the token it is handed.  Failing one burns the token.  A token *)
(* that was sent to a mailbox proves that mailbox.                         *)
Consumed(q, t, u) ==
  LET p == [q EXCEPT !.got = TRUE, !.uid = u] IN
  CASE q.op = "ResetPassword" -> [p EXCEPT !.pc = "read"]
    [] q.op = "VerifyEmail" ->
         [p EXCEPT !.pc = "load", !.email = Only(t.email)]
    [] q.op = "ConfirmEmailChange" ->
         [p EXCEPT !.pc = "read", !.email = Only(t.email)]
    [] q.op = "RedeemMagicLink" -> [p EXCEPT !.pc = "load"]
    [] OTHER -> IF u = q.uid THEN [p EXCEPT !.pc = "load"]
                ELSE Done([q EXCEPT !.got = TRUE], "err")

MutLive(q) == {t \in tokens : t.id = q.tok /\ t.purpose = Redeems(q.op)}

Live(q) ==
  {t \in tokens : t.id = q.tok /\ t.purpose = Redeems(q.op) /\ ~t.used}

ConsumeToken(r) ==
  LET q == req[r] IN
  /\ q.pc = "consume"
  /\ \/ /\ Live(q) = {}
        /\ Put(r, Done(q, "err"))
        /\ UNCHANGED <<tokens, proven>>
     \/ \E t \in Live(q) :
          /\ tokens' = (tokens \ {t}) \cup {[t EXCEPT !.used = TRUE]}
          /\ \/ /\ Put(r, Done([q EXCEPT !.got = TRUE], "err")) \* expired
                /\ UNCHANGED proven
             \/ /\ \E u \in t.uid : Put(r, Consumed(q, t, u))
                /\ proven' = proven \cup t.mailbox
             \/ /\ t.uid = {}
                /\ Put(r, [q EXCEPT !.got = TRUE, !.pc = "lookup",
                                    !.email = Only(t.email)])
                /\ proven' = proven \cup t.mailbox
  /\ UNCHANGED <<users, sessions, nextId>>

(* TokenStore.CreateToken, under createTokenForUserWithEmail and           *)
(* issueMagicLinkToken.                                                    *)
BoundToEmail == {"CreateEmailVerificationToken", "ChangeEmail"}

CreateToken(r) ==
  LET q == req[r]
      purpose == Issues(q.op) IN
  /\ q.pc = "token"
  /\ tokens' = tokens \cup
       {[id |-> nextId, purpose |-> purpose, used |-> FALSE,
         uid |-> IF q.nil THEN {} ELSE {q.uid},
         email |-> IF q.nil \/ q.op \in BoundToEmail THEN {q.email} ELSE {},
         born |-> IF q.nil THEN 0 ELSE users[q.uid].version,
         mailbox |-> IF purpose = "two_factor" THEN {} ELSE {q.email},
         against |-> IF q.op = "Login" THEN q.user.hash ELSE {}]}
  /\ nextId' = nextId + 1
  /\ Put(r, Done(q, "ok"))
  /\ UNCHANGED <<users, sessions, proven>>

(* SecondFactorChecker.HasSecondFactor, supplied by the application.       *)
HasSecondFactor(r) ==
  LET q == req[r] IN
  /\ q.pc = "factor"
  /\ \E next \in {"token", "session"} : Put(r, [q EXCEPT !.pc = next])
  /\ UNCHANGED stores

(* SessionStore.CreateSession, under createSession and RefreshSession.     *)
CreateSession(r) ==
  LET q == req[r] IN
  /\ q.pc = "session"
  /\ sessions' = sessions \cup
       {[id |-> nextId, uid |-> q.uid, born |-> users[q.uid].version,
         root |-> IF q.op = "RefreshSession" THEN q.root ELSE nextId,
         via |-> q.op]}
  /\ nextId' = nextId + 1
  /\ Put(r, Done(q, "ok"))
  /\ UNCHANGED <<users, tokens, proven>>

(* SessionStore.DeleteSession, scoped to its owner.                        *)
MutGone(q) ==
  IF q.op = "RefreshSession" THEN [q EXCEPT !.pc = "load"] ELSE Done(q, "err")

Gone(q) == Done(q, "err")

DeleteSession(r) ==
  LET q == req[r]
      mine == {x \in sessions : x.id = q.sess /\ x.uid = q.uid} IN
  /\ q.pc = "delete"
  /\ sessions' = sessions \ mine
  /\ Put(r, IF mine = {} THEN Gone(q)
            ELSE IF q.op = "RefreshSession" THEN [q EXCEPT !.pc = "load"]
            ELSE Done(q, "ok"))
  /\ UNCHANGED <<users, tokens, proven, nextId>>

(* Any store call may fail; the flow returns the error.  A call that       *)
(* fails has changed nothing.                                              *)
StoreError(r) ==
  LET q == req[r] IN
  /\ q.pc \notin {"idle", "done"}
  /\ Put(r, IF q.pc \in {"read", "taken", "write"} THEN UpdateFailed(q, "err")
            ELSE Done(q, "err"))
  /\ UNCHANGED stores

(* TokenStore.DeleteExpiredTokens, called by the application's cleanup.    *)
DeleteExpiredTokens ==
  /\ "DeleteExpiredTokens" \in Ops
  /\ \E t \in tokens : tokens' = tokens \ {t}
  /\ UNCHANGED <<users, sessions, proven, nextId, req>>

-----------------------------------------------------------------------------
(* The flows: how each begins, up to its first store call.                 *)

Register(r) ==
  \E e \in Emails, p \in Passwords :
    Begin(r, [Idle EXCEPT !.op = "Register", !.pc = "create",
                          !.email = e, !.new = p])

Login(r) ==
  \E e \in Emails, p \in Passwords :
    Begin(r, [Idle EXCEPT !.op = "Login", !.pc = "lookup",
                          !.email = e, !.pw = p])

ChangePassword(r) ==
  \E u \in DOMAIN users, p, new \in Passwords :
    Begin(r, [Idle EXCEPT !.op = "ChangePassword", !.pc = "load",
                          !.uid = u, !.pw = p, !.new = new])

SetInitialPassword(r) ==
  \E u \in DOMAIN users, new \in Passwords :
    Begin(r, [Idle EXCEPT !.op = "SetInitialPassword", !.pc = "read",
                          !.uid = u, !.new = new])

(* Flows that begin by looking up an address.                              *)
RequestByEmail(r, op) ==
  \E e \in Emails :
    Begin(r, [Idle EXCEPT !.op = op, !.pc = "lookup", !.email = e])

CreatePasswordResetToken(r) == RequestByEmail(r, "CreatePasswordResetToken")

CreateMagicLinkToken(r) == RequestByEmail(r, "CreateMagicLinkToken")

(* Flows that begin by redeeming a token.                                  *)
Redeem(r, op, u, new) ==
  \E t \in tokens :
    /\ t.purpose = Redeems(op)
    /\ Begin(r, [Idle EXCEPT !.op = op, !.pc = "consume", !.tok = t.id,
                             !.uid = u, !.new = new])

ResetPassword(r) ==
  \E new \in Passwords : Redeem(r, "ResetPassword", Idle.uid, new)

RedeemMagicLink(r) == Redeem(r, "RedeemMagicLink", Idle.uid, Idle.new)

VerifyEmail(r) == Redeem(r, "VerifyEmail", Idle.uid, Idle.new)

ConfirmEmailChange(r) == Redeem(r, "ConfirmEmailChange", Idle.uid, Idle.new)

CompleteTwoFactor(r) ==
  \E u \in DOMAIN users : Redeem(r, "CompleteTwoFactor", u, Idle.new)

ChangeEmail(r) ==
  \E u \in DOMAIN users, e \in Emails :
    Begin(r, [Idle EXCEPT !.op = "ChangeEmail", !.pc = "lookup",
                          !.uid = u, !.email = e])

(* Flows that begin from a user id, at the store call named by pc.         *)
RequestByID(r, op, pc) ==
  \E u \in DOMAIN users :
    Begin(r, [Idle EXCEPT !.op = op, !.pc = pc, !.uid = u])

CreateEmailVerificationToken(r) ==
  RequestByID(r, "CreateEmailVerificationToken", "load")

CreateTwoFactorToken(r) == RequestByID(r, "CreateTwoFactorToken", "load")

IssueSessionUnchecked(r) == RequestByID(r, "IssueSessionUnchecked", "load")

RevokeAllSessions(r) == RequestByID(r, "RevokeAllSessions", "revoke")

DisableUser(r) == RequestByID(r, "DisableUser", "read")

EnableUser(r) == RequestByID(r, "EnableUser", "read")

RefreshSession(r) ==
  \E x \in sessions :
    Begin(r, [Idle EXCEPT !.op = "RefreshSession", !.pc = "delete",
                          !.uid = x.uid, !.sess = x.id, !.root = x.root])

RevokeSession(r) ==
  \E x \in sessions, u \in DOMAIN users :
    Begin(r, [Idle EXCEPT !.op = "RevokeSession", !.pc = "delete",
                          !.uid = u, !.sess = x.id])

-----------------------------------------------------------------------------
Call(r) ==
  \/ Register(r) \/ Login(r)
  \/ ChangePassword(r) \/ SetInitialPassword(r)
  \/ CreatePasswordResetToken(r) \/ ResetPassword(r)
  \/ CreateMagicLinkToken(r) \/ RedeemMagicLink(r)
  \/ CreateEmailVerificationToken(r) \/ VerifyEmail(r)
  \/ ChangeEmail(r) \/ ConfirmEmailChange(r)
  \/ CreateTwoFactorToken(r) \/ CompleteTwoFactor(r)
  \/ IssueSessionUnchecked(r) \/ RefreshSession(r)
  \/ RevokeSession(r) \/ RevokeAllSessions(r)
  \/ DisableUser(r) \/ EnableUser(r)

StoreCall(r) ==
  \/ GetUserByEmail(r) \/ CreateUser(r) \/ GetUserByID(r)
  \/ ReadForUpdate(r) \/ StillFree(r) \/ UpdateUser(r)
  \/ ConsumeToken(r) \/ CreateToken(r) \/ DeleteUserTokens(r)
  \/ CreateSession(r) \/ DeleteSession(r) \/ DeleteUserSessions(r)
  \/ HasSecondFactor(r)

Next ==
  \/ \E r \in Requests : Call(r) \/ StoreCall(r) \/ StoreError(r)
  \/ DeleteExpiredTokens

Spec == Init /\ [][Next]_vars

(* A goroutine that has begun keeps making its store calls.  That a call   *)
(* fails is not assumed.                                                   *)
FairSpec == Spec /\ \A r \in Requests : WF_vars(StoreCall(r))

-----------------------------------------------------------------------------
(* Properties.                                                             *)

(* Every row, session, token and request state is well formed, and an      *)
(* account has at most one password: a new hash replaces the old one.      *)
TypeOK ==
  /\ DOMAIN users \subseteq Uids
  /\ users \in [DOMAIN users -> Row]
  /\ \A u \in DOMAIN users : AtMostOne(users[u].hash)
  /\ sessions \subseteq Session
  /\ tokens \subseteq Token
  /\ proven \subseteq Emails
  /\ nextId \in Nat
  /\ req \in [Requests -> Request]

(* No two accounts hold one address, however registrations, first magic    *)
(* links and confirmed address changes race: UserStore's storage-layer     *)
(* check (user.go, UserStore) is what closes the window that               *)
(* ConfirmEmailChange's own GetUserByEmail check leaves open.              *)
EmailUnique == UniqueEmails(users)

(* A verified account's address is one whose mailbox was proven, by a      *)
(* token sent to exactly that address.  RedeemMagicLink stamps the account *)
(* a link names without comparing addresses, and this still holds.         *)
VerifiedAddressProved ==
  \A u \in DOMAIN users : users[u].verified => users[u].email \in proven

(* With RequireVerifiedEmail on, an account whose address is unverified    *)
(* holds no session but the ones Register itself issued: the gates of      *)
(* issue.go, twofactor.go and RefreshSession are checked on a row loaded   *)
(* earlier, and that is enough.                                            *)
UnverifiedOnlySignup ==
  RequireVerifiedEmail =>
    \A x \in sessions : users[x.uid].verified \/ x.via = "Register"

(* A flow that promises to cut off what came before its write: a password  *)
(* set, a confirmed address change, a disable, or the first verification   *)
(* of an account that had a password.                                      *)
CutsOff(q) ==
  /\ q.pc = "done" /\ q.res = "ok"
  /\ \/ q.op \in SetsPassword /\ RevokeSessionsOnPasswordChange
     \/ q.op \in {"ConfirmEmailChange", "DisableUser"}
     \/ q.op = "VerifyEmail" /\ q.wver > 0 /\ q.hadpw

(* Once such a flow has returned success, no session stored before its     *)
(* write is left (setPassword, ConfirmEmailChange, DisableUser,            *)
(* stampEmailVerified all revoke after writing).                           *)
SessionsCutOff ==
  \A r \in Requests : CutsOff(req[r]) =>
    \A x \in sessions : x.uid = req[r].uid => x.born >= req[r].wver

(* Once a password set or an address change has returned success, no       *)
(* reset, two-factor or magic-link token stored for the account before its *)
(* write is left (the purges of setPassword and ConfirmEmailChange).       *)
TokensCutOff ==
  \A r \in Requests :
    /\ req[r].pc = "done" /\ req[r].res = "ok"
    /\ req[r].op \in SetsPassword \cup {"ConfirmEmailChange"}
    => \A t \in tokens :
         /\ t.uid = {req[r].uid}
         /\ t.purpose \in {"password_reset", "two_factor", "magic_link"}
         => t.born >= req[r].wver

(* A sign-in never becomes two live sessions, however many RefreshSession  *)
(* and RevokeSession calls race on copies of the same session: the old row *)
(* is deleted first, and only the call that deleted it mints a new one.    *)
OneSessionPerSignIn ==
  \A x, y \in sessions : x.root = y.root => x = y

(* Of any number of requests presenting one token, one is handed it, and   *)
(* it stays burned also when that request then fails (consumeToken).       *)
TokenHandedOnce ==
  \A r, s \in Requests :
    req[r].got /\ req[s].got /\ req[r].tok = req[s].tok => r = s

(* A stored password hash is replaced only on the strength of a check made *)
(* against that very hash: ChangePassword's old password matches what it   *)
(* overwrites, SetInitialPassword overwrites nothing, a login's re-hash    *)
(* keeps the password; ResetPassword spent a token.  A check against a     *)
(* stale copy never counts (updateUserWithRetry re-runs the guards).       *)
MayReplaceHash(q, old, new) ==
  \/ q.op = "Login" /\ new = Rehashed(old)
  \/ q.op = "ChangePassword" /\ verifyPassword(q.pw, old)
  \/ q.op = "SetInitialPassword" /\ old = {}
  \/ q.op = "ResetPassword" /\ q.got

PasswordReplacedOnProof ==
  [][\A u \in DOMAIN users : users'[u].hash # users[u].hash =>
       \A r \in Requests : req'[r] # req[r] =>
         MayReplaceHash(req[r], users[u].hash, users'[u].hash)]_users

(* A flow that rewrites the whole row takes nothing back that another flow *)
(* wrote: only DisableUser and EnableUser change the disabled mark, a      *)
(* verification is never undone, and an address changes only to the one    *)
(* that is staged at that moment, so a superseded ChangeEmail never takes  *)
(* effect.                                                                 *)
NoLostUpdate ==
  [][\A u \in DOMAIN users :
       /\ users'[u].disabled # users[u].disabled =>
            \A r \in Requests : req'[r] # req[r] =>
              req[r].op \in {"DisableUser", "EnableUser"}
       /\ users[u].verified => users'[u].verified
       /\ users'[u].email # users[u].email =>
            users[u].pending = {users'[u].email}]_users

(* Every request that has begun returns: conflicts are retried a bounded   *)
(* number of times (updateUserWithRetry).                                  *)
Terminates ==
  \A r \in Requests : req[r].pc # "idle" ~> req[r].pc = "done"

(* An update gives up with ErrConcurrentUpdate only when it was beaten     *)
(* maxUserUpdateAttempts times: attempt n lost to the write of request     *)
(* by[n], and every time it was another one, with a later version.         *)
GivesUpOnlyIfBeaten ==
  \A r \in Requests : req[r].res = "conflict" =>
    \E by \in [1 .. MaxUserUpdateAttempts -> Requests] :
      /\ \A n \in DOMAIN by : req[by[n]].uid = req[r].uid /\ req[by[n]].wver > 0
      /\ \A n, m \in DOMAIN by : n < m => req[by[n]].wver < req[by[m]].wver

(* emailverification.go: "Give the caller the row as persisted, so the     *)
(* *User it returns reflects the verification and carries the current      *)
(* version."                                                               *)
ReturnedRowIsPersisted ==
  \A r \in Requests :
    req[r].op = "VerifyEmail" /\ req[r].pc = "done" /\ req[r].wver > 0 =>
      req[r].user.version = req[r].wver

(* sulis.go: "A pending 2FA login token was minted against the old         *)
(* password's first factor; once the password changes, that pending login  *)
(* must not be completable, so purge it too."                              *)
PendingLoginFollowsPassword ==
  \A r \in Requests :
    req[r].op \in SetsPassword /\ req[r].pc = "done" /\ req[r].res = "ok" =>
      \A t \in tokens : t.uid = {req[r].uid} /\ ~t.used =>
        \A h \in t.against : h.gen >= req[r].wver

=============================================================================
