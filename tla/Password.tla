------------------------------ MODULE Password ------------------------------
(***************************************************************************)
(* The password of one account: VerifyPassword, ChangePassword and         *)
(* ResetPassword (src/sulis.go) with the hashes of src/password.go and the *)
(* automatic lockout of src/status.go, over the versioned row of the user  *)
(* store.  Instances of the library with different Argon2 parameters serve *)
(* the requests, as during a deployment that raises the cost.  A hash      *)
(* records the string it was made of, the parameters and the salt; two     *)
(* hashes of one password differ.                                          *)
(***************************************************************************)
EXTENDS Integers

CONSTANTS
  Requests,               \* one call each
  Forms,                  \* the strings that may be typed
  NFKC,                   \* the normal form of each of them
  Deployed,               \* the Argon2 parameters of the running instances
  Oldest,                 \* those in force before passwords were normalized
  None,                   \* the salt of the first hash
  Threshold,              \* FailureLockoutThreshold
  Policies,               \* FailureLockoutBaseBackoff and FailureLockoutMaxBackoff
  Width,                  \* bits of a time.Duration: 64 in the code
  MaxShift,               \* lockoutBackoff's clamp: 32 in the code
  MaxTime                 \* bound on the clock

Costs == {"Memory", "Iterations", "Parallelism"}

pow2[n \in Nat] == IF n = 0 THEN 1 ELSE 2 * pow2[n - 1]

(* Normalizing twice changes nothing; deployments only ever raise the      *)
(* cost; the base backoff loses no bit when shifted by MaxShift.           *)
ASSUME PasswordAssumption ==
  /\ NFKC \in [Forms -> Forms]
  /\ \A f \in Forms : NFKC[NFKC[f]] = NFKC[f]
  /\ Oldest \in Deployed /\ Deployed \subseteq [Costs -> Nat]
  /\ \A p, q \in Deployed :
       (\A c \in Costs : p[c] <= q[c]) \/ (\A c \in Costs : q[c] <= p[c])
  /\ \A p \in Deployed, c \in Costs : Oldest[c] <= p[c]
  /\ Threshold \in Nat \ {0} /\ Policies \subseteq [base : Nat \ {0}, max : Nat \ {0}]
  /\ Width \in Nat \ {0} /\ MaxShift \in Nat /\ MaxTime \in Nat
  /\ \A p \in Policies :
       p.base * pow2[MaxShift] < pow2[Width - 1] /\ p.max < pow2[Width - 1]

maxUserUpdateAttempts == 3

VARIABLES
  policy,    \* the configured backoff
  clock,
  row,       \* hash, attempts, until (LockedUntil, 0 is nil) and version
  req,       \* the requests
  fails,     \* history: failures recorded since the last clearing
  current,   \* history: the password last set
  accepted   \* history: what has verified since then

vars == <<policy, clock, row, req, fails, current, accepted>>

-----------------------------------------------------------------------------
(* password.go                                                             *)

normalizePassword(password) == NFKC[password]

MutHashPassword(password, params, salt) ==
  [of |-> password, argon2 |-> params, salt |-> salt]

hashPassword(password, params, salt) ==
  [of |-> normalizePassword(password), argon2 |-> params, salt |-> salt]

(* The raw form is tried when the normal one does not match.               *)
verifyPassword(password, hash) ==
  LET normalized == normalizePassword(password) IN
  [ok     |-> hash.of \in {normalized, password},
   legacy |-> hash.of = password /\ normalized # password]

MutNeedsRehash(hash, want) == \E c \in Costs : hash.argon2[c] # want[c]

needsRehash(hash, want) == \E c \in Costs : hash.argon2[c] < want[c]

-----------------------------------------------------------------------------
(* status.go                                                               *)

(* n in the two's complement of Width bits.                                *)
Wrap(n) == LET m == n % pow2[Width] IN IF m < pow2[Width - 1] THEN m ELSE m - pow2[Width]

MutClamp(excess) == excess

clamp(excess) == IF excess > MaxShift THEN MaxShift ELSE excess

lockoutBackoff(excess) ==
  LET backoff == Wrap(policy.base * pow2[clamp(excess)]) IN
  IF backoff <= 0 \/ backoff > policy.max THEN policy.max ELSE backoff

accountLocked(u, now) == u.until # 0 /\ now < u.until

(* The mutation of recordFailedLogin, and what it leaves in locked.        *)
Failed(u, now) ==
  [u EXCEPT !.attempts = @ + 1,
            !.until = IF u.attempts + 1 >= Threshold
                        THEN now + lockoutBackoff(u.attempts + 1 - Threshold)
                        ELSE @]

Locks(u) == u.attempts + 1 >= Threshold

(* The mutation of clearFailedLogins, also part of setPassword's.          *)
Cleared(u) == [u EXCEPT !.attempts = 0, !.until = 0]

-----------------------------------------------------------------------------
(* Of a request, job is the update it has under way, seen the row that     *)
(* VerifyPassword looked up, new the hash it would store, cur the mutated  *)
(* row to be written, locked the variable of recordFailedLogin's closure.  *)

NoHash == [of |-> CHOOSE f \in Forms : TRUE, argon2 |-> Oldest, salt |-> None]

NoRow == [hash |-> NoHash, attempts |-> 0, until |-> 0, version |-> 0]

Idle ==
  [pc |-> "idle", job |-> "none", old |-> {}, new |-> NoHash, seen |-> NoRow,
   cur |-> NoRow, now |-> 0, tries |-> 0, locked |-> FALSE,
   res |-> "none"]

Done(res) == [Idle EXCEPT !.pc = "done", !.res = res]

Put(r, q) == req' = [req EXCEPT ![r] = q]

(* The hash found: one this library wrote, or one from before              *)
(* normalization.                                                          *)
Init ==
  /\ \E h \in {hashPassword(f, p, None) : f \in Forms, p \in Deployed}
              \cup {[of |-> f, argon2 |-> Oldest, salt |-> None] : f \in Forms} :
       /\ row = [NoRow EXCEPT !.hash = h]
       /\ current = normalizePassword(h.of)
  /\ policy \in Policies /\ clock = 1 /\ fails = 0 /\ accepted = {}
  /\ req = [r \in Requests |-> Idle]

(* Lookup and comparison, up to the first update it makes.                 *)
VerifyPassword(r) ==
  \E password \in Forms, argon2 \in Deployed :
    LET v == verifyPassword(password, row.hash)
        q == [Idle EXCEPT !.seen = row, !.new = hashPassword(password, argon2, r)] IN
    /\ req[r].pc = "idle"
    /\ accepted' = IF v.ok THEN accepted \cup {password} ELSE accepted
    /\ Put(r, IF ~v.ok THEN [q EXCEPT !.pc = "now", !.job = "fail"]
              ELSE IF v.legacy \/ needsRehash(row.hash, argon2)
                THEN [q EXCEPT !.pc = "read", !.job = "rehash"]
              ELSE [q EXCEPT !.pc = "status"])
    /\ UNCHANGED <<policy, clock, row, fails, current>>

(* recordFailedLogin reads the clock once, before its first attempt.       *)
recordFailedLogin(r) ==
  /\ req[r].pc = "now"
  /\ Put(r, [req[r] EXCEPT !.pc = "read", !.now = clock])
  /\ UNCHANGED <<policy, clock, row, fails, current, accepted>>

(* On the row looked up at the start; then clearFailedLogins, if there is  *)
(* something to clear.                                                     *)
accountStatus(r) ==
  LET seen == req[r].seen IN
  /\ req[r].pc = "status"
  /\ Put(r, IF accountLocked(seen, clock) THEN Done("locked")
            ELSE IF seen.attempts = 0 /\ seen.until = 0 THEN Done("ok")
            ELSE [req[r] EXCEPT !.pc = "read", !.job = "clear", !.tries = 0])
  /\ UNCHANGED <<policy, clock, row, fails, current, accepted>>

(* setPassword, with the guard of ChangePassword or, for ResetPassword,    *)
(* none.                                                                   *)
SetPassword(r, old) ==
  \E new \in Forms, argon2 \in Deployed :
    /\ req[r].pc = "idle"
    /\ Put(r, [Idle EXCEPT !.pc = "read", !.job = "set", !.old = old,
                           !.new = hashPassword(new, argon2, r)])
    /\ UNCHANGED <<policy, clock, row, fails, current, accepted>>

ChangePassword(r) == \E old \in Forms : SetPassword(r, {old})

ResetPassword(r) == SetPassword(r, {})

-----------------------------------------------------------------------------
(* updateUserWithRetry: a fresh read, the guard and the mutation on it.    *)

MutRehashGuard(q) == TRUE

RehashGuard(q) == row.hash = q.seen.hash

verifyOld(q) == \A old \in q.old : verifyPassword(old, row.hash).ok

Guard(q) ==
  /\ q.job = "rehash" => RehashGuard(q)
  /\ q.job = "set" => verifyOld(q)

Mutated(q) ==
  CASE q.job = "fail"   -> Failed(row, q.now)
    [] q.job = "rehash" -> [row EXCEPT !.hash = q.new]
    [] q.job = "clear"  -> Cleared(row)
    [] q.job = "set"    -> [Cleared(row) EXCEPT !.hash = q.new]

(* The update is over.  An upgrade or a clearing that failed is swallowed; *)
(* so is a failure that lost every race, but no other error of its write.  *)
After(q, written, lostRace) ==
  CASE q.job = "rehash" -> [q EXCEPT !.pc = "status"]
    [] q.job = "clear"  -> Done("ok")
    [] q.job = "fail"   -> Done(IF written \/ lostRace THEN "invalid" ELSE "err")
    [] q.job = "set"    -> Done(IF written THEN "ok" ELSE "err")

GetUserByID(r) ==
  LET q == req[r] IN
  /\ q.pc = "read"
  /\ Put(r, IF Guard(q)
              THEN [q EXCEPT !.pc = "write", !.cur = Mutated(q),
                             !.locked = q.job = "fail" /\ Locks(row)]
              ELSE After(q, FALSE, FALSE))
  /\ UNCHANGED <<policy, clock, row, fails, current, accepted>>

MutVersionMatches(q) == TRUE

VersionMatches(q) == q.cur.version = row.version

Land(r) ==
  LET q == req[r] IN
  /\ VersionMatches(q)
  /\ row' = [q.cur EXCEPT !.version = row.version + 1]
  /\ fails' = CASE q.job = "fail" -> fails + 1
                [] q.job = "rehash" -> fails
                [] OTHER -> 0
  /\ IF q.job = "set" THEN current' = normalizePassword(q.new.of) /\ accepted' = {}
                      ELSE UNCHANGED <<current, accepted>>
  /\ Put(r, After(q, TRUE, FALSE))

(* ErrConcurrentUpdate: retried, a bounded number of times.                *)
Conflict(r) ==
  LET q == req[r] IN
  /\ ~VersionMatches(q)
  /\ Put(r, IF q.tries + 1 = maxUserUpdateAttempts THEN After(q, FALSE, TRUE)
            ELSE [q EXCEPT !.tries = @ + 1, !.pc = "read"])
  /\ UNCHANGED <<row, fails, current, accepted>>

UpdateUser(r) ==
  /\ req[r].pc = "write"
  /\ Land(r) \/ Conflict(r)
  /\ UNCHANGED <<policy, clock>>

(* The store fails the read or the write.                                  *)
StoreError(r) ==
  /\ req[r].pc \in {"read", "write"}
  /\ Put(r, After(req[r], FALSE, FALSE))
  /\ UNCHANGED <<policy, clock, row, fails, current, accepted>>

Tick ==
  /\ clock < MaxTime
  /\ clock' = clock + 1
  /\ UNCHANGED <<policy, row, req, fails, current, accepted>>

Next ==
  \/ Tick
  \/ \E r \in Requests :
       \/ VerifyPassword(r) \/ ChangePassword(r) \/ ResetPassword(r)
       \/ recordFailedLogin(r) \/ accountStatus(r) \/ GetUserByID(r)
       \/ UpdateUser(r) \/ StoreError(r)

Spec == Init /\ [][Next]_vars

-----------------------------------------------------------------------------
(* Properties.                                                             *)

(* The stored count is the number of failures recorded since the last      *)
(* clearing, however failures, logins, upgrades and resets of the same row *)
(* interleave and retry, and the account is locked only after Threshold of *)
(* them (recordFailedLogin: an undercount "can never trigger one early or  *)
(* falsely").                                                              *)
AttemptsCounted == row.attempts = fails /\ (row.until # 0 => fails >= Threshold)

(* However many failures follow, a deadline is set with at least as much   *)
(* backoff as the doubling up to the clamp asks for, or max: "any overflow *)
(* that still slipped through (a zero or negative result) also clamps to   *)
(* max rather than producing a lockout shorter than intended"              *)
(* (lockoutBackoff).                                                       *)
NeverShorterThanIntended ==
  \A r \in Requests :
    req[r].pc = "write" /\ req[r].locked =>
      LET excess == req[r].cur.attempts - Threshold
          doubled == policy.base * pow2[IF excess > MaxShift THEN MaxShift ELSE excess]
          backoff == req[r].cur.until - req[r].now IN
      backoff = IF doubled > policy.max THEN policy.max ELSE doubled

(* What signed the owner in keeps doing so until the password is changed:  *)
(* no upgrade, to dearer parameters or to the normal form, by whichever    *)
(* instance and from whichever spelling, locks the owner out.              *)
AcceptedStaysAccepted == \A f \in accepted : verifyPassword(f, row.hash).ok

(* The stored hash is of the password last set: an upgrade, a counted      *)
(* failure or a clearing that raced a change never brings the replaced     *)
(* password back.                                                          *)
HashOfCurrentPassword == normalizePassword(row.hash.of) = current

(* "there is never a reason to downgrade a hash the operator hasn't asked  *)
(* to weaken": until the password is set anew no step lowers a cost of its *)
(* hash, although instances with the old parameters still serve logins.    *)
NeverWeakened ==
  [][(\A r \in Requests : req[r].job = "set" => req'[r] = req[r]) =>
       \A c \in Costs : row'.hash.argon2[c] >= row.hash.argon2[c]]_vars

=============================================================================
