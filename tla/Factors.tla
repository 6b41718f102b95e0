------------------------------ MODULE Factors ------------------------------
(***************************************************************************)
(* The second factors of one account in the example application            *)
(* (src/examples/webapp: app.go, handlers_mfa.go, handlers_passkey.go,     *)
(* handlers_account.go): the handlers compose sulis, totp, passkey and     *)
(* recovery over one database, plus the pending logins that the process    *)
(* keeps in memory.  The services' calls are single steps here; Sulis,     *)
(* Totp, Passkey and SqlRecovery look inside them.  The gate of               *)
(* requireRecentAuth is Session's: a request it stops has no step.         *)
(***************************************************************************)
EXTENDS Integers, FiniteSets

CONSTANTS Requests, Keys,
          Ops,          \* the handlers the requests run
          Enrolled,     \* the factors an account may begin with: [totp, keys, codes]
          CodeCount,    \* recovery codes per set
          TTL,          \* pendingCookieTTL and TwoFactorTokenDuration
          MaxTokens,    \* bound on the pending logins
          MaxTime       \* bound on the clock

ASSUME FactorsAssumption ==
  /\ Enrolled \subseteq [totp : {"none", "active"}, keys : SUBSET Keys, codes : 0 .. CodeCount]
  /\ \A e \in Enrolled : e.codes > 0 => e.totp = "active" \/ e.keys # {}
  /\ CodeCount \in Nat /\ TTL \in Nat /\ MaxTokens \in Nat /\ MaxTime \in Nat
  /\ IsFiniteSet(Keys)
  /\ Ops \subseteq {"login", "second", "enroll", "confirm", "disable", "generate",
                   "register", "delete"}

VARIABLES clock,
          totp,       \* "none", "pending" or "active"
          keys,       \* the registered passkeys
          codes,      \* how many recovery codes are left
          tokens,     \* the two-factor tokens in the store: [id, expires]
          pending2FA, \* the map in memory: the same shape
          given,      \* the pending tokens that browsers were given
          made,       \* how many tokens were minted
          checked,    \* history: per token, the submissions that tried a code
          req

vars == <<clock, totp, keys, codes, tokens, pending2FA, given, made, checked, req>>

HasFactor == totp = "active" \/ keys # {}

Idle == [pc |-> "idle", op |-> "none", token |-> 0, key |-> "none", recovery |-> FALSE,
         saw |-> FALSE, held |-> TRUE, stable |-> TRUE, off |-> FALSE, res |-> "none"]

(* Three histories of a request in flight: held while the account has had  *)
(* a factor at all times since it began, stable while its factors have not *)
(* changed, off once its TOTP was disabled.  active and left are what a    *)
(* step makes of the factors.                                              *)
Watch(active, left) ==
  [r \in Requests |->
    IF req[r].pc \in {"idle", "done"} THEN req[r] ELSE
    [req[r] EXCEPT !.held   = @ /\ (active \/ left # {}),
                   !.stable = @ /\ active = (totp = "active") /\ left = keys,
                   !.off    = @ \/ (totp = "active" /\ ~active)]]

Go(r, pc) == req' = [req EXCEPT ![r].pc = pc]

Answer(r, res) == req' = [req EXCEPT ![r].pc = "done", ![r].res = res]

First(op) == CASE op = "login"    -> "totp?"
               [] op = "second"   -> "take"
               [] op = "enroll"   -> "enroll"
               [] op = "confirm"  -> "confirm"
               [] op = "disable"  -> "unenroll"
               [] op = "generate" -> "generate"
               [] op = "register" -> "save"
               [] op = "delete"   -> "active?"

(* Login comes to completeFirstFactor with the password proved.            *)
Start(r) ==
  \E op \in Ops, n \in given \cup {0}, k \in Keys, recovery \in BOOLEAN :
    /\ req[r].pc = "idle"
    /\ (op = "second") = (n # 0)
    /\ op # "second" => ~recovery
    /\ op \notin {"register", "delete"} => k = CHOOSE x \in Keys : TRUE
    /\ req' = [req EXCEPT ![r] = [Idle EXCEPT !.op = op, !.pc = First(op), !.token = n,
                                              !.key = k, !.recovery = recovery,
                                              !.held = HasFactor]]
    /\ UNCHANGED <<clock, totp, keys, codes, tokens, pending2FA, given, made, checked>>

-----------------------------------------------------------------------------
(* Signing in.  HasSecondFactor asks the two stores one after the other.   *)

CheckTOTP(r) ==
  /\ req[r].pc = "totp?"
  /\ Go(r, IF totp = "active" THEN "token" ELSE "keys?")
  /\ UNCHANGED <<clock, totp, keys, codes, tokens, pending2FA, given, made, checked>>

MutAnyKey(ks) == FALSE

AnyKey(ks) == Cardinality(ks) > 0

CheckKeys(r) ==
  /\ req[r].pc = "keys?"
  /\ IF AnyKey(keys) THEN Go(r, "token") ELSE Answer(r, "session")
  /\ UNCHANGED <<clock, totp, keys, codes, tokens, pending2FA, given, made, checked>>

(* completeFirstFactor stores a two-factor token, then handleLoginResult   *)
(* adds to the map, sweeping what has expired, and sets the cookie.        *)
CreateToken(r) ==
  /\ req[r].pc = "token"
  /\ made < MaxTokens
  /\ made' = made + 1
  /\ tokens' = tokens \cup {[id |-> made + 1, expires |-> clock + TTL]}
  /\ req' = [req EXCEPT ![r].pc = "add", ![r].token = made + 1]
  /\ UNCHANGED <<clock, totp, keys, codes, pending2FA, given, checked>>

handleLoginResult(r) ==
  /\ req[r].pc = "add"
  /\ pending2FA' = {e \in pending2FA : clock <= e.expires}
                   \cup {[id |-> req[r].token, expires |-> clock + TTL]}
  /\ given' = given \cup {req[r].token}
  /\ Answer(r, "second factor")
  /\ UNCHANGED <<clock, totp, keys, codes, tokens, made, checked>>

Entry(map, id) == {e \in map : e.id = id}

MutTaken(id) == pending2FA

Taken(id) == pending2FA \ Entry(pending2FA, id)

(* handleSecondFactor: the entry is taken, the code is verified (the right *)
(* one or not), and the token is consumed.                                 *)
Take(r) ==
  LET id == req[r].token IN
  /\ req[r].pc = "take"
  /\ pending2FA' = Taken(id)
  /\ IF \E e \in Entry(pending2FA, id) : clock <= e.expires
       THEN Go(r, "verify") /\ checked' = [checked EXCEPT ![id] = @ + 1]
       ELSE Answer(r, "expired") /\ UNCHANGED checked
  /\ UNCHANGED <<clock, totp, keys, codes, tokens, given, made>>

VerifyFactor(r) ==
  /\ req[r].pc = "verify"
  /\ \/ Answer(r, "wrong code") /\ UNCHANGED codes
     \/ /\ req[r].recovery /\ codes > 0
        /\ codes' = codes - 1
        /\ Go(r, "complete")
     \/ /\ ~req[r].recovery /\ totp = "active"
        /\ Go(r, "complete") /\ UNCHANGED codes
  /\ UNCHANGED <<clock, totp, keys, tokens, pending2FA, given, made, checked>>

CompleteTwoFactor(r) ==
  LET id == req[r].token IN
  /\ req[r].pc = "complete"
  /\ tokens' = tokens \ Entry(tokens, id)
  /\ Answer(r, IF \E e \in Entry(tokens, id) : clock <= e.expires THEN "session" ELSE "token invalid")
  /\ UNCHANGED <<clock, totp, keys, codes, pending2FA, given, made, checked>>

-----------------------------------------------------------------------------
(* The security page.                                                      *)

handleTOTPEnroll(r) ==
  /\ req[r].pc = "enroll"
  /\ IF totp = "active" THEN Answer(r, "refused") /\ UNCHANGED totp
                        ELSE Answer(r, "ok") /\ totp' = "pending"
  /\ UNCHANGED <<clock, keys, codes, tokens, pending2FA, given, made, checked>>

handleTOTPConfirm(r) ==
  /\ req[r].pc = "confirm"
  /\ \/ Answer(r, "wrong code") /\ UNCHANGED totp
     \/ /\ totp = "pending"
        /\ totp' = "active"
        /\ req' = [Watch(TRUE, keys) EXCEPT ![r] = [req[r] EXCEPT !.pc = "done", !.res = "ok"]]
  /\ UNCHANGED <<clock, keys, codes, tokens, pending2FA, given, made, checked>>

(* handleTOTPDisable, in its three store calls.                            *)
Unenroll(r) ==
  /\ req[r].pc = "unenroll"
  /\ totp' = "none"
  /\ req' = [Watch(FALSE, keys) EXCEPT ![r] = [req[r] EXCEPT !.pc = "left?"]]
  /\ UNCHANGED <<clock, keys, codes, tokens, pending2FA, given, made, checked>>

CheckLeft(r) ==
  /\ req[r].pc = "left?"
  /\ IF keys = {} THEN Go(r, "purge") ELSE Answer(r, "ok")
  /\ UNCHANGED <<clock, totp, keys, codes, tokens, pending2FA, given, made, checked>>

PurgeCodes(r) ==
  /\ req[r].pc = "purge"
  /\ codes' = 0
  /\ Answer(r, "ok")
  /\ UNCHANGED <<clock, totp, keys, tokens, pending2FA, given, made, checked>>

handleRecoveryGenerate(r) ==
  /\ req[r].pc = "generate"
  /\ codes' = CodeCount
  /\ Answer(r, "ok")
  /\ UNCHANGED <<clock, totp, keys, tokens, pending2FA, given, made, checked>>

handlePasskeyRegisterFinish(r) ==
  /\ req[r].pc = "save"
  /\ keys' = keys \cup {req[r].key}
  /\ req' = [Watch(totp = "active", keys') EXCEPT ![r] = [req[r] EXCEPT !.pc = "done", !.res = "ok"]]
  /\ UNCHANGED <<clock, totp, codes, tokens, pending2FA, given, made, checked>>

MutAllowLast(active) == TRUE

AllowLast(active) == active

(* handlePasskeyDelete: what it saw of TOTP decides whether the last       *)
(* passkey may go.                                                         *)
CheckActive(r) ==
  /\ req[r].pc = "active?"
  /\ req' = [req EXCEPT ![r].pc = "delete", ![r].saw = AllowLast(totp = "active")]
  /\ UNCHANGED <<clock, totp, keys, codes, tokens, pending2FA, given, made, checked>>

DeleteCredential(r) ==
  LET q == req[r] IN
  /\ q.pc = "delete"
  /\ IF q.key \notin keys \/ (~q.saw /\ Cardinality(keys) <= 1)
       THEN Answer(r, "refused") /\ UNCHANGED keys
       ELSE /\ keys' = keys \ {q.key}
            /\ req' = [Watch(totp = "active", keys') EXCEPT
                         ![r] = [q EXCEPT !.pc = "done", !.res = "ok"]]
  /\ UNCHANGED <<clock, totp, codes, tokens, pending2FA, given, made, checked>>

-----------------------------------------------------------------------------

(* A store call fails: the handler answers with the error, and a login     *)
(* fails closed.  The last two calls of handleTOTPDisable only log theirs, *)
(* so the page is shown as if they had been made.                          *)
StoreFailed(r) ==
  /\ req[r].pc \notin {"idle", "take", "add", "done"}
  /\ Answer(r, IF req[r].pc \in {"left?", "purge"} THEN "ok" ELSE "error")
  /\ UNCHANGED <<clock, totp, keys, codes, tokens, pending2FA, given, made, checked>>

(* The process restarts: the map is lost, and so are requests in flight.   *)
Restart ==
  /\ pending2FA # {}
  /\ pending2FA' = {}
  /\ req' = [r \in Requests |-> IF req[r].pc \in {"idle", "done"} THEN req[r]
                                ELSE [Idle EXCEPT !.op = req[r].op, !.pc = "done", !.res = "lost"]]
  /\ UNCHANGED <<clock, totp, keys, codes, tokens, given, made, checked>>

Tick ==
  /\ clock < MaxTime
  /\ clock' = clock + 1
  /\ UNCHANGED <<totp, keys, codes, tokens, pending2FA, given, made, checked, req>>

Init ==
  /\ clock = 0
  /\ \E e \in Enrolled : totp = e.totp /\ keys = e.keys /\ codes = e.codes
  /\ tokens = {} /\ pending2FA = {} /\ given = {} /\ made = 0
  /\ checked = [n \in 1 .. MaxTokens |-> 0]
  /\ req = [r \in Requests |-> Idle]

Step(r) ==
  \/ Start(r) \/ CheckTOTP(r) \/ CheckKeys(r) \/ CreateToken(r) \/ handleLoginResult(r)
  \/ Take(r) \/ VerifyFactor(r) \/ CompleteTwoFactor(r)
  \/ handleTOTPEnroll(r) \/ handleTOTPConfirm(r)
  \/ Unenroll(r) \/ CheckLeft(r) \/ PurgeCodes(r) \/ handleRecoveryGenerate(r)
  \/ handlePasskeyRegisterFinish(r) \/ CheckActive(r) \/ DeleteCredential(r)
  \/ StoreFailed(r)

Next == (\E r \in Requests : Step(r)) \/ Restart \/ Tick

Spec == Init /\ [][Next]_vars

-----------------------------------------------------------------------------

(* pendingLogins.take: "one pending login is resolved by exactly one       *)
(* submission": however often the form is sent, and whatever restarts and  *)
(* expires meanwhile, at most one code is tried per pending login.         *)
PendingResolvedOnce == \A n \in DOMAIN checked : checked[n] <= 1

(* completeFirstFactor with the application's HasSecondFactor: a password  *)
(* alone opens a session only for an account without a second factor,      *)
(* unless its factors were changing while it was asked for.                *)
SecondFactorDemanded ==
  \A r \in Requests :
    (req[r].op = "login" /\ req[r].res = "session" /\ req[r].stable) => ~req[r].held

(* handlePasskeyDelete with DeleteOptions.AllowLast: deleting passkeys,    *)
(* however many requests do it at once, takes an account's only second     *)
(* factor away only if its TOTP was disabled under the request's feet.     *)
LastPasskeyKept ==
  [][(HasFactor /\ ~HasFactor' /\ totp # "active") =>
       \E r \in Requests : req[r].pc = "delete" /\ req'[r].pc = "done" /\ req[r].off]_vars

=============================================================================
