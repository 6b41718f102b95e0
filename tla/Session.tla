------------------------------ MODULE Session ------------------------------
(***************************************************************************)
(* The life of a sign-in (src/session.go, ValidateSession in src/sulis.go, *)
(* src/stepup.go): every request validates its token first, then may ask   *)
(* for a recent proof, re-authenticate or refresh.  One login of one user  *)
(* at time 0, its row and the rows that replace it; the store calls of     *)
(* concurrent requests interleave.                                         *)
(***************************************************************************)
EXTENDS Integers

CONSTANTS Requests,
          IDs,                \* row identifiers, 0 the login's; bounds the refreshes
          IdleTimeouts,       \* the configurations tried; 0 is off
          defaultSessionTouchInterval,
          SessionDuration,
          maxAge,             \* what the callers of RequireRecentAuth ask for
          Kinds,              \* what the requests are for
          Statuses,           \* the states of the account that are tried
          MaxTime             \* bound on the clock

ASSUME SessionAssumption ==
  /\ IdleTimeouts \subseteq Nat /\ SessionDuration \in Nat /\ maxAge \in Nat /\ MaxTime \in Nat
  /\ defaultSessionTouchInterval \in Nat
  /\ IDs \subseteq Nat /\ 0 \in IDs
  /\ Kinds \subseteq {"validate", "sensitive", "reauth", "refresh", "revoke"}
  /\ "active" \in Statuses
  /\ Statuses \subseteq {"active", "unverified", "locked", "disabled"}

VARIABLES IdleTimeout,
          clock,
          status,    \* what the user row says of the account
          rows,      \* rows[id]: {} or {the stored session}
          used,      \* the identifiers given out
          proofs,    \* history: when a password was proved for this sign-in
          active,    \* history: when ValidateSession let a request through
          minted,    \* history: when a row of the sign-in was minted
          req

vars == <<IdleTimeout, clock, status, rows, used, proofs, active, minted, req>>

-----------------------------------------------------------------------------

sessionTouchIntervalDivisor == 4

sessionTouchInterval ==
  IF IdleTimeout > 0 THEN IdleTimeout \div sessionTouchIntervalDivisor
                     ELSE defaultSessionTouchInterval

idleExpiresAt(at) == IF IdleTimeout <= 0 THEN {} ELSE {at + IdleTimeout}

NewRow(now, authenticatedAt) ==
  [ExpiresAt |-> now + SessionDuration, AuthenticatedAt |-> authenticatedAt,
   LastSeenAt |-> now, IdleExpiresAt |-> idleExpiresAt(now)]

accountStatus(s) == s \notin {"disabled", "locked"}

requireVerifiedEmail(s) == s # "unverified"

RequireRecentAuth(session, now) == now - session.AuthenticatedAt <= maxAge

IdleExpired(session, now) == \E t \in session.IdleExpiresAt : now > t

-----------------------------------------------------------------------------
(* A request: id is the row its token names, sess the copy it holds, now   *)
(* the time it read, res its answer.  A history: since is "disabled"       *)
(* while the account has been disabled from the request's beginning on.    *)

Idle == [pc |-> "idle", kind |-> "validate", id |-> 0, sess |-> NewRow(0, 0),
         now |-> 0, since |-> "active", res |-> "none"]

Answer(r, res) ==
  req' = [req EXCEPT ![r] = [Idle EXCEPT !.pc = "done", !.kind = req[r].kind, !.res = res,
                                         !.since = req[r].since]]

Go(r, pc) == req' = [req EXCEPT ![r].pc = pc]

(* ValidateSession: the row is read, then the clock.                       *)
GetSessionByTokenHash(r) ==
  /\ req[r].pc = "idle"
  /\ \E id \in used, kind \in Kinds :
       req' = [req EXCEPT
         ![r] = [Idle EXCEPT !.kind = kind, !.id = id, !.since = status,
                   !.pc = IF rows[id] = {} THEN "done" ELSE "clock",
                   !.res = IF rows[id] = {} THEN "not found" ELSE "none",
                   !.sess = IF rows[id] = {} THEN Idle.sess
                                             ELSE CHOOSE s \in rows[id] : TRUE]]
  /\ UNCHANGED <<IdleTimeout, clock, status, rows, used, proofs, active, minted>>

MutCheckExpiry(r) ==
  /\ req[r].pc = "clock"
  /\ req' = [req EXCEPT ![r].now = clock,
       ![r].pc = IF clock > req[r].sess.ExpiresAt THEN "expired" ELSE "user"]
  /\ UNCHANGED <<IdleTimeout, clock, status, rows, used, proofs, active, minted>>

CheckExpiry(r) ==
  /\ req[r].pc = "clock"
  /\ req' = [req EXCEPT ![r].now = clock,
       ![r].pc = IF IdleExpired(req[r].sess, clock) \/ clock > req[r].sess.ExpiresAt
                   THEN "expired" ELSE "user"]
  /\ UNCHANGED <<IdleTimeout, clock, status, rows, used, proofs, active, minted>>

(* An expired row is deleted, and the deletion's error is dropped.         *)
DeleteExpired(r) ==
  /\ req[r].pc = "expired"
  /\ \/ rows' = [rows EXCEPT ![req[r].id] = {}]
     \/ rows' = rows
  /\ Answer(r, IF IdleExpired(req[r].sess, req[r].now) THEN "idle expired" ELSE "expired")
  /\ UNCHANGED <<IdleTimeout, clock, status, used, proofs, active, minted>>

(* What the handler behind Authenticate goes on to do, once validated.     *)
Proceed(kind) == CASE kind = "validate"  -> "valid"
                   [] kind = "sensitive" -> "gate"
                   [] kind = "reauth"    -> "verify"
                   [] kind = "refresh"   -> "delete"
                   [] kind = "revoke"    -> "revoke"

MutAdmits(s) == TRUE

Admits(s) == s # "disabled"

GetUserByID(r) ==
  /\ req[r].pc = "user"
  /\ IF ~Admits(status)
       THEN Answer(r, "disabled") /\ UNCHANGED active
       ELSE /\ Go(r, IF req[r].now - req[r].sess.LastSeenAt >= sessionTouchInterval
                       THEN "touch" ELSE Proceed(req[r].kind))
            /\ active' = active \cup {req[r].now}
  /\ UNCHANGED <<IdleTimeout, clock, status, rows, used, proofs, minted>>

Touched(s, now) == [s EXCEPT !.LastSeenAt = now, !.IdleExpiresAt = idleExpiresAt(now)]

MutWhere(id, s) == rows[id] \cup {s}

(* UPDATE ... WHERE id = ? writes the row only while there is one.         *)
Where(id, s) == IF rows[id] = {} THEN {} ELSE {s}

TouchSession(r) ==
  LET q == req[r] IN
  /\ q.pc = "touch"
  /\ \/ /\ rows' = [rows EXCEPT ![q.id] =
                      Where(q.id, Touched(IF @ = {} THEN q.sess ELSE CHOOSE s \in @ : TRUE, q.now))]
        /\ req' = [req EXCEPT ![r].pc = Proceed(q.kind),
                              ![r].sess = IF rows[q.id] = {} THEN @ ELSE Touched(@, q.now)]
     \/ /\ rows' = rows
        /\ Go(r, Proceed(q.kind))
  /\ UNCHANGED <<IdleTimeout, clock, status, used, proofs, active, minted>>

Validated(r) ==
  /\ req[r].pc = "valid"
  /\ Answer(r, "ok")
  /\ UNCHANGED <<IdleTimeout, clock, status, rows, used, proofs, active, minted>>

(* A sensitive operation: the gate reads the clock again.                  *)
Gate(r) ==
  /\ req[r].pc = "gate"
  /\ req' = [req EXCEPT ![r].pc = "done", ![r].now = clock, ![r].sess = Idle.sess,
       ![r].res = IF RequireRecentAuth(req[r].sess, clock) THEN "ok" ELSE "reauth required"]
  /\ UNCHANGED <<IdleTimeout, clock, status, rows, used, proofs, active, minted>>

-----------------------------------------------------------------------------

(* ReAuthenticate up to the reading of the clock: the user is loaded, then *)
(* the status checked, then the password (any outcome; the limiter's and   *)
(* the hash's errors are refusals too).                                    *)
ReAuthenticate(r) ==
  /\ req[r].pc = "verify"
  /\ \/ Answer(r, "refused") /\ UNCHANGED proofs
     \/ /\ accountStatus(status)
        /\ req' = [req EXCEPT ![r].pc = "stamp", ![r].now = clock]
        /\ proofs' = proofs \cup {clock}
  /\ UNCHANGED <<IdleTimeout, clock, status, rows, used, active, minted>>

UpdateAuthenticatedAt(r) ==
  LET q == req[r] IN
  /\ q.pc = "stamp"
  /\ rows' = [rows EXCEPT ![q.id] = {[s EXCEPT !.AuthenticatedAt = q.now] : s \in @}]
  /\ Answer(r, IF rows[q.id] = {} THEN "not found" ELSE "ok")
  /\ UNCHANGED <<IdleTimeout, clock, status, used, proofs, active, minted>>

(* RefreshSession: delete, look at the account, mint.                      *)
RefreshDelete(r) ==
  /\ req[r].pc = "delete"
  /\ rows' = [rows EXCEPT ![req[r].id] = {}]
  /\ IF rows[req[r].id] = {} THEN Answer(r, "not found") ELSE Go(r, "account")
  /\ UNCHANGED <<IdleTimeout, clock, status, used, proofs, active, minted>>

RefreshCheck(r) ==
  /\ req[r].pc = "account"
  /\ IF accountStatus(status) /\ requireVerifiedEmail(status)
       THEN req' = [req EXCEPT ![r].pc = "mint", ![r].now = clock]
       ELSE Answer(r, "refused")
  /\ UNCHANGED <<IdleTimeout, clock, status, rows, used, proofs, active, minted>>

MutFresh(session, now) == NewRow(now, now)

Fresh(session, now) == NewRow(now, session.AuthenticatedAt)

RefreshMint(r) ==
  LET q == req[r] IN
  /\ q.pc = "mint"
  /\ \E id \in IDs \ used :
       /\ \A i \in IDs \ used : id <= i
       /\ rows' = [rows EXCEPT ![id] = {Fresh(q.sess, q.now)}]
       /\ used' = used \cup {id}
  /\ minted' = minted \cup {q.now}
  /\ Answer(r, "ok")
  /\ UNCHANGED <<IdleTimeout, clock, status, proofs, active>>

RevokeSession(r) ==
  /\ req[r].pc = "revoke"
  /\ rows' = [rows EXCEPT ![req[r].id] = {}]
  /\ Answer(r, IF rows[req[r].id] = {} THEN "not found" ELSE "ok")
  /\ UNCHANGED <<IdleTimeout, clock, status, used, proofs, active, minted>>

-----------------------------------------------------------------------------

CleanExpired ==
  /\ \E id \in used, s \in UNION {rows[i] : i \in used} :
       s \in rows[id] /\ s.ExpiresAt < clock
  /\ rows' = [id \in IDs |-> {s \in rows[id] : s.ExpiresAt >= clock}]
  /\ UNCHANGED <<IdleTimeout, clock, status, used, proofs, active, minted, req>>

(* DisableUser, EnableUser, a lockout, a verified address: what they do to *)
(* the user row.  The revocation of DisableUser is an action of its own,   *)
(* for the two writes of DisableUser are two, and the second may fail.     *)
SetStatus ==
  /\ status' \in Statuses \ {status}
  /\ req' = [r \in Requests |-> [req[r] EXCEPT !.since = IF @ = "disabled" THEN status' ELSE @]]
  /\ UNCHANGED <<IdleTimeout, clock, rows, used, proofs, active, minted>>

revokeUserSessions ==
  /\ status = "disabled"
  /\ \E id \in used : rows[id] # {}
  /\ rows' = [id \in IDs |-> {}]
  /\ UNCHANGED <<IdleTimeout, clock, status, used, proofs, active, minted, req>>

Tick ==
  /\ clock < MaxTime
  /\ clock' = clock + 1
  /\ UNCHANGED <<IdleTimeout, status, rows, used, proofs, active, minted, req>>

-----------------------------------------------------------------------------

Init ==
  /\ IdleTimeout \in IdleTimeouts
  /\ clock = 0
  /\ status \in Statuses \ {"disabled", "locked"}
  /\ rows = [id \in IDs |-> IF id = 0 THEN {NewRow(0, 0)} ELSE {}]
  /\ used = {0}
  /\ proofs = {0}
  /\ active = {}
  /\ minted = {0}
  /\ req = [r \in Requests |-> Idle]

Step(r) ==
  \/ GetSessionByTokenHash(r) \/ CheckExpiry(r) \/ DeleteExpired(r)
  \/ GetUserByID(r) \/ TouchSession(r) \/ Validated(r) \/ Gate(r)
  \/ ReAuthenticate(r) \/ UpdateAuthenticatedAt(r)
  \/ RefreshDelete(r) \/ RefreshCheck(r) \/ RefreshMint(r)
  \/ RevokeSession(r)

Next == (\E r \in Requests : Step(r)) \/ CleanExpired \/ SetStatus \/ revokeUserSessions \/ Tick

Spec == Init /\ [][Next]_vars

-----------------------------------------------------------------------------

Admitted(q) == q.res = "ok" \/ q.pc \notin {"idle", "clock", "expired", "user", "done"}

(* ValidateSession keeps nothing alive but use: a request it lets through  *)
(* comes within IdleTimeout of an earlier one it let through, or of the    *)
(* minting of a row, and within SessionDuration of the minting of a row,   *)
(* whatever touches and refreshes were delayed.                            *)
KeptAliveByUseOnly ==
  [][\A r \in Requests : (~Admitted(req[r]) /\ Admitted(req'[r])) =>
       /\ IdleTimeout > 0 => \E t \in active \cup minted : req[r].now - t \in 0 .. IdleTimeout
       /\ \E m \in minted : req[r].now - m \in 0 .. SessionDuration]_vars

(* RequireRecentAuth lets a request through only within maxAge of a moment *)
(* at which the user did prove the password: refreshes and liveness        *)
(* touches never stand in for a proof.                                     *)
RecentAuthIsRecent ==
  \A r \in Requests :
    (req[r].kind = "sensitive" /\ req[r].res = "ok") =>
      \E p \in proofs : p <= req[r].now /\ req[r].now - p <= maxAge

(* Sessions that outlive DisableUser are of no use, rows minted by a       *)
(* RefreshSession that raced it included: a request during which the       *)
(* account was disabled all along is never let through.                    *)
DisabledStaysOut ==
  \A r \in Requests : req[r].since = "disabled" => ~Admitted(req[r])

(* A row once deleted (revoked, refreshed away, expired or cleaned) never  *)
(* comes back: the delayed TouchSession or UpdateAuthenticatedAt of a      *)
(* request that read it earlier writes nothing.                            *)
DeletedStaysDeleted ==
  [][\A id \in used : rows[id] = {} => rows'[id] = {}]_vars

=============================================================================
