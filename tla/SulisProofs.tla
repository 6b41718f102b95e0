---------------------------- MODULE SulisProofs -----------------------------
(***************************************************************************)
(* Proofs about Sulis, for any accounts, addresses, passwords, any number  *)
(* of concurrent requests and any contents of the stores at start that     *)
(* SeedsAssumption allows: first what rests on the invariant IInv, then    *)
(* who beats an update that gives up.                                      *)
(***************************************************************************)
EXTENDS Sulis, TLAPS

-----------------------------------------------------------------------------
(* The decisions of a flow keep a request well typed and keep what it      *)
(* knows: what it was called with, the user it is about, its token.        *)

Results == {"none", "ok", "err", "conflict"}

(* The flows that rewrite a user row.                                      *)
Updates == {"Login", "ChangeEmail", "ConfirmEmailChange", "DisableUser",
            "EnableUser"} \cup SetsPassword \cup Stamps

Keeps(q, p) ==
  /\ p \in Request
  /\ p.op = q.op /\ p.uid = q.uid /\ p.tok = q.tok /\ p.got = q.got

(* p is q moved on, not to a write, and to a read only if it is to update. *)
Advances(q, p) ==
  /\ Keeps(q, p)
  /\ p.pc \in PCs \ {"idle", "consume", "taken", "write"}
  /\ p.pc = "read" => p.op \in Updates
  /\ p.pc = "create" => p.op = "RedeemMagicLink"

(* A request before it begins is a request.                                *)
LEMMA IdleType == Idle \in Request /\ Idle.cur \in Row
<1>1. AnyEmail \in Emails /\ AnyPassword \in Passwords /\ AnyUid \in Uids
  BY SeedsAssumption DEF AnyUid, AnyEmail, AnyPassword
<1>2. NewRow(AnyEmail, {}) \in Row
  BY <1>1 DEF NewRow, Row
<1>3. Idle \in Request
  BY <1>1, <1>2 DEF Idle, Request, PCs
<1>4. Idle.cur = NewRow(AnyEmail, {})
  BY DEF Idle
<1>5. QED
  BY <1>2, <1>3, <1>4

(* Moving a request to another store call changes nothing else of it.      *)
LEMMA SetPC ==
  ASSUME NEW q \in Request, NEW pc \in PCs
  PROVE  /\ Keeps(q, [q EXCEPT !.pc = pc])
         /\ [q EXCEPT !.pc = pc].pc = pc
BY DEF Keeps, Request

(* Moving to a store call other than the read of an update.                *)
LEMMA GoTo ==
  ASSUME NEW q \in Request,
         NEW pc \in {"reload", "revoke", "purgeReset", "purge2FA",
                     "purgeMagic", "factor", "token", "session", "load",
                     "relookup"}
  PROVE  Advances(q, [q EXCEPT !.pc = pc])
<1> DEFINE p == [q EXCEPT !.pc = pc]
<1>1. pc \in PCs \ {"idle", "consume", "taken", "write", "read", "create"}
  BY DEF PCs
<1>2. Keeps(q, p) /\ p.pc = pc
  BY <1>1, SetPC
<1> HIDE DEF p
<1>3. Advances(q, p)
  BY <1>1, <1>2 DEF Advances
<1>4. QED
  BY <1>3 DEF p

(* Going to the read of an update, for the flows that update.              *)
LEMMA GoToRead ==
  ASSUME NEW q \in Request, q.op \in Updates
  PROVE  Advances(q, [q EXCEPT !.pc = "read"])
<1> DEFINE p == [q EXCEPT !.pc = "read"]
<1>1. Keeps(q, p) /\ p.pc = "read"
  BY SetPC, Zenon DEF PCs
<1> HIDE DEF p
<1>2. Advances(q, p)
  BY <1>1 DEF Advances, Keeps, PCs
<1>3. QED
  BY <1>2, ZenonT(40) DEF p

(* Returning.                                                              *)
LEMMA DoneAdvances ==
  ASSUME NEW q \in Request, NEW res \in Results
  PROVE  Advances(q, Done(q, res)) /\ Done(q, res).pc = "done"
<1>1. Keeps(q, Done(q, res)) /\ Done(q, res).pc = "done"
  BY IdleType, ZenonT(30) DEF Keeps, Done, Request, Results, PCs
<1>2. QED
  BY <1>1 DEF Advances, PCs

(* The tails of the flows: each takes a request one call further, or to    *)
(* its end, and keeps who it is about.                                     *)
LEMMA FirstFactorAdvances ==
  ASSUME NEW q \in Request
  PROVE  Advances(q, completeFirstFactor(q))
BY GoTo, DoneAdvances, Zenon DEF completeFirstFactor, Results

(* VerifyPassword: wrong password, refused, re-hash, or on to the session. *)
LEMMA VerifyPasswordAdvances ==
  ASSUME NEW q \in Request, q.op = "Login"
  PROVE  Advances(q, VerifyPassword(q))
BY GoToRead, DoneAdvances, FirstFactorAdvances
   DEF VerifyPassword, Results, Updates

(* What VerifyEmail and RedeemMagicLink do once the row is stamped.        *)
LEMMA AfterStampAdvances ==
  ASSUME NEW q \in Request
  PROVE  Advances(q, AfterStamp(q))
BY DoneAdvances, FirstFactorAdvances DEF AfterStamp, Results

(* stampEmailVerified, when it finds the row stamped already and when not. *)
LEMMA StampAdvances ==
  ASSUME NEW q \in Request, q.op \in Stamps
  PROVE  Advances(q, stampEmailVerified(q))
BY GoToRead, AfterStampAdvances DEF stampEmailVerified, Updates

(* updateUserWithRetry returning an error.                                 *)
LEMMA UpdateFailedAdvances ==
  ASSUME NEW q \in Request, NEW res \in Results
  PROVE  Advances(q, UpdateFailed(q, res))
BY DoneAdvances, FirstFactorAdvances DEF UpdateFailed

(* A mutate closure refusing the row.                                      *)
LEMMA RefusedAdvances ==
  ASSUME NEW q \in Request
  PROVE  Advances(q, Refused(q))
BY GoTo, UpdateFailedAdvances, Zenon DEF Refused, Results

(* Counting a lost attempt.                                                *)
LEMMA SetTries ==
  ASSUME NEW q \in Request, NEW n \in Nat
  PROVE  LET p == [q EXCEPT !.pc = "read", !.tries = n]
         IN  Keeps(q, p) /\ p.pc = "read"
BY ZenonT(40) DEF Keeps, Request, PCs

(* A lost compare-and-swap: another attempt, or giving up.                 *)
LEMMA ConflictAdvances ==
  ASSUME NEW q \in Request, q.op \in Updates
  PROVE  Advances(q, Conflict(q))
<1> DEFINE p == [q EXCEPT !.pc = "read", !.tries = q.tries + 1]
<1>0. q.tries + 1 \in Nat
  BY DEF Request
<1>1. Keeps(q, p) /\ p.pc = "read"
  BY <1>0, SetTries, Zenon
<1> HIDE DEF p
<1>2. Advances(q, p)
  BY <1>1 DEF Advances, Keeps, PCs
<1>3. QED
  BY <1>2, UpdateFailedAdvances DEF Conflict, Results, p

(* What follows a write that succeeded.                                    *)
LEMMA UpdatedAdvances ==
  ASSUME NEW q \in Request
  PROVE  Advances(q, Updated(q))
<1>1. CASE q.op = "Login"
  <2>1. Updated(q) = completeFirstFactor(q)
    BY <1>1 DEF Updated, SetsPassword, Stamps
  <2>2. QED
    BY <2>1, FirstFactorAdvances
<1>2. CASE q.op \in SetsPassword
  <2>1. \E pc \in {"revoke", "purgeReset"} : Updated(q) = [q EXCEPT !.pc = pc]
    BY <1>2 DEF Updated, SetsPassword, Stamps
  <2>2. QED
    BY <2>1, GoTo, Zenon
<1>3. CASE q.op \in Stamps
  <2> DEFINE p == [q EXCEPT !.user = q.cur]
  <2>1. p \in Request /\ Keeps(q, p)
    BY DEF Request, Keeps
  <2>2. Advances(p, [p EXCEPT !.pc = "revoke"]) /\ Advances(p, AfterStamp(p))
    BY <2>1, GoTo, AfterStampAdvances, Zenon
  <2>3. Updated(q) = IF q.hadpw THEN [p EXCEPT !.pc = "revoke"] ELSE AfterStamp(p)
    BY <1>3 DEF Updated, Stamps, SetsPassword
  <2> HIDE DEF p
  <2>4. QED
    BY <2>1, <2>2, <2>3 DEF Advances, Keeps
<1>4. CASE q.op = "ChangeEmail"
  BY <1>4, GoTo, Zenon DEF Updated, Stamps, SetsPassword
<1>5. CASE q.op \in {"ConfirmEmailChange", "DisableUser"}
  BY <1>5, GoTo, Zenon DEF Updated, Stamps, SetsPassword
<1>6. CASE q.op \notin {"Login", "ChangeEmail", "ConfirmEmailChange",
                       "DisableUser"} \cup SetsPassword \cup Stamps
  BY <1>6, DoneAdvances DEF Updated, Results
<1>7. QED
  BY <1>1, <1>2, <1>3, <1>4, <1>5, <1>6

(* What follows a revocation of sessions.                                  *)
LEMMA AfterRevokeAdvances ==
  ASSUME NEW q \in Request
  PROVE  Advances(q, AfterRevoke(q))
<1>1. CASE q.op \in SetsPassword \cup {"ConfirmEmailChange"}
  <2>1. AfterRevoke(q) = [q EXCEPT !.pc = "purgeReset"]
    BY <1>1 DEF AfterRevoke, SetsPassword, Stamps
  <2>2. QED
    BY <2>1, GoTo, Zenon
<1>2. CASE q.op \in Stamps
  BY <1>2, AfterStampAdvances DEF AfterRevoke, Stamps, SetsPassword
<1>3. CASE q.op \notin SetsPassword \cup {"ConfirmEmailChange"} \cup Stamps
  BY <1>3, DoneAdvances DEF AfterRevoke, Results
<1>4. QED
  BY <1>1, <1>2, <1>3

(* What follows a purge of tokens.                                         *)
LEMMA AfterPurgeAdvances ==
  ASSUME NEW q \in Request
  PROVE  Advances(q, AfterPurge(q))
BY GoTo, DoneAdvances, Zenon DEF AfterPurge, Results

(* Deleting a session that is gone.                                        *)
LEMMA GoneAdvances ==
  ASSUME NEW q \in Request
  PROVE  Advances(q, Gone(q))
BY DoneAdvances DEF Gone, Results

-----------------------------------------------------------------------------
(* The inductive invariant.                                                *)

(* The stores: well typed, one account an address, ids given out once, and *)
(* no session or token of an account that does not exist.                  *)
StoreOK ==
  /\ DOMAIN users \subseteq Uids
  /\ users \in [DOMAIN users -> Row]
  /\ \A u \in DOMAIN users : AtMostOne(users[u].hash)
  /\ UniqueEmails(users)
  /\ sessions \subseteq Session
  /\ \A x \in sessions : x.uid \in DOMAIN users
  /\ tokens \subseteq Token
  /\ \A t \in tokens :
       /\ t.id < nextId
       /\ t.uid \subseteq DOMAIN users
       /\ (t.uid = {} \/ t.purpose \in {"email_verification", "email_change"}) =>
            \E e \in Emails : t.email = {e}
  /\ \A t, v \in tokens : t.id = v.id => t = v
  /\ proven \subseteq Emails
  /\ nextId \in Nat

UserPCs == {"load", "reload", "read", "taken", "write", "revoke", "purgeReset",
            "purge2FA", "purgeMagic", "factor", "session", "delete"}

(* A request that goes on to use a user id has that of an account.         *)
Knows(q) ==
  q.pc \in UserPCs \/ q.op = "ChangeEmail" \/ (q.pc = "token" /\ ~q.nil) =>
    q.uid \in DOMAIN users

(* Only the flows that rewrite a row reach a write, ResetPassword only     *)
(* with its token spent; only two flows create an account.                 *)
Fits(q) ==
  /\ q.pc # "idle" => q.op \in Flows
  /\ q.pc = "create" => q.op \in {"Register", "RedeemMagicLink"}
  /\ q.pc \in {"read", "taken", "write"} => q.op \in Updates
  /\ q.op = "ResetPassword" /\ q.pc \notin {"idle", "consume", "done"} => q.got

(* A row about to be written was made from one the store held, and if the  *)
(* version is still that one, from exactly the row the store holds now.    *)
WriteOK(q) ==
  q.pc \in {"taken", "write"} =>
    /\ AtMostOne(q.cur.hash)
    /\ q.cur.version <= users[q.uid].version
    /\ q.cur.version = users[q.uid].version =>
         Accepts(q, users[q.uid]) /\ q.cur = Mutate(q, users[q.uid])

(* A token that was handed out is burned, or gone.                         *)
Burned(q) ==
  q.got => q.tok < nextId /\ \A t \in tokens : t.id = q.tok => t.used

ReqOK(q) == Knows(q) /\ Fits(q) /\ WriteOK(q) /\ Burned(q)

IInv ==
  /\ StoreOK
  /\ req \in [Requests -> Request]
  /\ \A r \in Requests : ReqOK(req[r])
  /\ TokenHandedOnce

(* What any store call may do to the stores, as far as a request that is   *)
(* in the middle of something is concerned.                                *)
StoresGrow ==
  /\ DOMAIN users \subseteq DOMAIN users'
  /\ \A u \in DOMAIN users :
       users'[u] = users[u] \/ users'[u].version > users[u].version
  /\ nextId' >= nextId
  /\ \A t \in tokens' :
       t.id >= nextId \/ \E s \in tokens : s.id = t.id /\ (s.used => t.used)

(* A request that does not move keeps its part of the invariant, whatever  *)
(* others do to the stores: a version that moved on makes its pending      *)
(* write harmless.                                                         *)
LEMMA RequestFrame ==
  ASSUME NEW q \in Request, StoreOK, StoreOK', StoresGrow, ReqOK(q)
  PROVE  ReqOK(q)'
<1>1. Knows(q)'
  BY DEF Knows, ReqOK, StoresGrow
<1>2. Fits(q)'
  BY DEF Fits, ReqOK
<1>3. WriteOK(q)'
  <2> SUFFICES ASSUME q.pc \in {"taken", "write"}
               PROVE  /\ AtMostOne(q.cur.hash)
                      /\ q.cur.version <= users'[q.uid].version
                      /\ q.cur.version = users'[q.uid].version =>
                           /\ Accepts(q, users'[q.uid])
                           /\ q.cur = Mutate(q, users'[q.uid])
    BY DEF WriteOK, Accepts, Mutate
  <2>1. q.uid \in DOMAIN users /\ q.uid \in DOMAIN users'
    BY DEF Knows, ReqOK, UserPCs, StoresGrow
  <2>2. /\ users[q.uid].version \in Nat /\ users'[q.uid].version \in Nat
        /\ q.cur.version \in Nat
    BY <2>1 DEF StoreOK, Row, Request
  <2>3. /\ AtMostOne(q.cur.hash) /\ q.cur.version <= users[q.uid].version
        /\ q.cur.version = users[q.uid].version =>
             Accepts(q, users[q.uid]) /\ q.cur = Mutate(q, users[q.uid])
    BY DEF WriteOK, ReqOK
  <2>4. CASE users'[q.uid] = users[q.uid]
    BY <2>3, <2>4
  <2>5. CASE users'[q.uid].version > users[q.uid].version
    BY <2>2, <2>3, <2>5
  <2>6. QED
    BY <2>1, <2>4, <2>5 DEF StoresGrow
<1>4. Burned(q)'
  <2> SUFFICES ASSUME q.got
               PROVE  q.tok < nextId' /\ \A t \in tokens' : t.id = q.tok => t.used
    BY DEF Burned
  <2>1. q.tok < nextId /\ \A t \in tokens : t.id = q.tok => t.used
    BY DEF Burned, ReqOK
  <2>2. q.tok \in Nat /\ nextId \in Nat /\ nextId' \in Nat
    BY DEF StoreOK, Request
  <2>3. ASSUME NEW t \in tokens', t.id = q.tok
        PROVE  t.used
    BY <2>1, <2>2, <2>3 DEF StoresGrow
  <2>4. QED
    BY <2>1, <2>2, <2>3 DEF StoresGrow
<1>5. QED
  BY <1>1, <1>2, <1>3, <1>4 DEF ReqOK

(* One request moves to p while the stores change as above.                *)
LEMMA RequestStep ==
  ASSUME IInv, NEW r \in Requests, NEW p \in Request, Put(r, p),
         StoreOK', StoresGrow, ReqOK(p)',
         p.got => \A s \in Requests : s # r /\ req[s].got => req[s].tok # p.tok
  PROVE  IInv'
<1>1. /\ req' \in [Requests -> Request] /\ req'[r] = p
      /\ \A s \in Requests : s # r => req'[s] = req[s]
  BY DEF IInv, Put
<1>2. \A s \in Requests : ReqOK(req[s])'
  <2>1. ASSUME NEW s \in Requests
        PROVE  ReqOK(req[s])'
    <3>1. PICK q \in Request : q = req'[s]
      BY <1>1
    <3>2. ReqOK(q)'
      <4>1. CASE s = r
        BY <1>1, <3>1, <4>1
      <4>2. CASE s # r
        <5>1. ReqOK(q)
          BY <1>1, <3>1, <4>2 DEF IInv
        <5>2. QED
          BY <5>1, RequestFrame DEF IInv
      <4>3. QED
        BY <4>1, <4>2
    <3>3. QED
      BY <3>1, <3>2
  <2>2. QED
    BY <2>1
<1>3. TokenHandedOnce'
  BY <1>1 DEF TokenHandedOnce, IInv
<1>4. QED
  BY <1>1, <1>2, <1>3 DEF IInv

(* A step that leaves the stores alone.                                    *)
LEMMA NoStoreChange ==
  ASSUME StoreOK, UNCHANGED stores
  PROVE  StoreOK' /\ StoresGrow
<1>1. nextId \in Nat
  BY DEF StoreOK
<1>2. QED
  BY <1>1 DEF stores, StoreOK, StoresGrow, UniqueEmails, AtMostOne

(* The usual step: the request moves on to its next store call, or         *)
(* returns; q is the request with the user it is now about.                *)
LEMMA MoveStep ==
  ASSUME IInv, NEW r \in Requests, NEW q \in Request, NEW p \in Request,
         Put(r, p), Advances(q, p), StoreOK', StoresGrow, Knows(p)',
         q.op = req[r].op, q.tok = req[r].tok, q.got = req[r].got,
         req[r].pc \notin {"idle", "consume", "done"}
  PROVE  IInv'
<1>1. PICK o \in Request : o = req[r] /\ ReqOK(o)
  BY DEF IInv
<1>2. /\ p.op = o.op /\ p.tok = o.tok /\ p.got = o.got
      /\ p.pc \notin {"taken", "write"}
      /\ p.pc = "read" => p.op \in Updates
      /\ p.pc = "create" => p.op = "RedeemMagicLink"
  BY <1>1 DEF Advances, Keeps
<1>3. p.got => \A s \in Requests : s # r /\ req[s].got => req[s].tok # p.tok
  BY <1>1, <1>2, Zenon DEF IInv, TokenHandedOnce
<1>4. ReqOK(o)'
  BY <1>1, RequestFrame DEF IInv
<1>5. Fits(p)' /\ WriteOK(p)'
  BY <1>1, <1>2 DEF ReqOK, Fits, WriteOK
<1>6. Burned(p)'
  BY <1>2, <1>4 DEF ReqOK, Burned
<1>7. ReqOK(p)'
  BY <1>5, <1>6 DEF ReqOK
<1>8. QED
  BY <1>3, <1>7, RequestStep

(* The same, for a request that goes on with the account it was about.     *)
LEMMA AdvanceStep ==
  ASSUME IInv, NEW r \in Requests, NEW p \in Request, Put(r, p),
         Advances(req[r], p), StoreOK', StoresGrow,
         req[r].pc \notin {"idle", "consume", "done"},
         req[r].pc \in UserPCs \/ p.pc = "done"
  PROVE  IInv'
<1>1. PICK q \in Request : q = req[r] /\ ReqOK(q)
  BY DEF IInv
<1>2. p.op = q.op /\ p.uid = q.uid
  BY <1>1 DEF Advances, Keeps
<1>3. Knows(p)
  BY <1>1, <1>2 DEF ReqOK, Knows, UserPCs
<1>4. Knows(p)'
  BY <1>3 DEF Knows, StoresGrow
<1>5. QED
  BY <1>1, <1>4, MoveStep

-----------------------------------------------------------------------------
(* Each action keeps the invariant.                                        *)

(* A flow begins: it has no token and nothing to write.                    *)
LEMMA BeginStep ==
  ASSUME IInv, NEW r \in Requests, NEW p \in Request, Begin(r, p),
         ~p.got, p.op \in Flows, p.pc \notin {"taken", "write"},
         p.pc = "read" => p.op \in Updates,
         p.pc = "create" => p.op = "Register",
         p.op = "ResetPassword" => p.pc = "consume",
         Knows(p)
  PROVE  IInv'
<1>1. Put(r, p) /\ StoreOK' /\ StoresGrow
  BY NoStoreChange DEF Begin, IInv
<1>2. ReqOK(p)
  BY DEF ReqOK, Fits, WriteOK, Burned
<1>3. ReqOK(p)'
  BY <1>1, <1>2, RequestFrame DEF IInv
<1>4. QED
  BY <1>1, <1>3, RequestStep

(* What a flow begins with is well typed.                                  *)
LEMMA IdleGot == Idle.got = FALSE
BY DEF Idle

(* Flows that begin by looking up an address.                              *)
LEMMA ByEmailStep ==
  ASSUME IInv, NEW r \in Requests,
         NEW op \in Flows \ {"ResetPassword", "ChangeEmail"},
         RequestByEmail(r, op)
  PROVE  IInv'
<1>1. PICK e \in Emails :
        Begin(r, [Idle EXCEPT !.op = op, !.pc = "lookup", !.email = e])
  BY Zenon DEF RequestByEmail
<1> DEFINE p == [Idle EXCEPT !.op = op, !.pc = "lookup", !.email = e]
<1>2. p \in Request /\ p.got = FALSE /\ p.op = op /\ p.pc = "lookup"
  BY IdleType, IdleGot, Zenon DEF Request, PCs
<1> HIDE DEF p
<1>3. Knows(p)
  BY <1>2 DEF Knows, UserPCs
<1>4. Begin(r, p)
  BY <1>1 DEF p
<1>5. QED
  BY <1>2, <1>3, <1>4, BeginStep

(* Flows that begin by redeeming a token.                                  *)
LEMMA RedeemStep ==
  ASSUME IInv, NEW r \in Requests, NEW op \in Flows \ {"ChangeEmail"},
         NEW u \in Uids, NEW new \in Passwords, Redeem(r, op, u, new)
  PROVE  IInv'
<1>1. PICK t \in tokens :
        Begin(r, [Idle EXCEPT !.op = op, !.pc = "consume", !.tok = t.id,
                              !.uid = u, !.new = new])
  BY Zenon DEF Redeem
<1>2. t.id \in Nat
  BY DEF IInv, StoreOK, Token
<1> DEFINE p == [Idle EXCEPT !.op = op, !.pc = "consume", !.tok = t.id,
                             !.uid = u, !.new = new]
<1>3. p \in Request /\ p.got = FALSE /\ p.op = op /\ p.pc = "consume"
  BY <1>2, IdleType, IdleGot, Zenon DEF Request, PCs
<1> HIDE DEF p
<1>4. Knows(p)
  BY <1>3 DEF Knows, UserPCs
<1>5. Begin(r, p)
  BY <1>1 DEF p
<1>6. QED
  BY <1>3, <1>4, <1>5, BeginStep

(* Flows that begin from a user id.                                        *)
LEMMA ByIDStep ==
  ASSUME IInv, NEW r \in Requests, NEW op \in Flows \ {"ResetPassword"},
         NEW pc \in {"load", "read", "revoke"}, pc = "read" => op \in Updates,
         RequestByID(r, op, pc)
  PROVE  IInv'
<1>1. PICK u \in DOMAIN users :
        Begin(r, [Idle EXCEPT !.op = op, !.pc = pc, !.uid = u])
  BY Zenon DEF RequestByID
<1> DEFINE p == [Idle EXCEPT !.op = op, !.pc = pc, !.uid = u]
<1>2. u \in Uids
  BY DEF IInv, StoreOK
<1>3. p \in Request /\ p.got = FALSE /\ p.op = op /\ p.pc = pc /\ p.uid = u
  BY <1>2, IdleType, IdleGot, Zenon DEF Request, PCs
<1> HIDE DEF p
<1>4. Knows(p)
  BY <1>3 DEF Knows
<1>5. Begin(r, p)
  BY <1>1 DEF p
<1>6. QED
  BY <1>3, <1>4, <1>5, BeginStep

(* Every flow begins with its part of the invariant.                       *)
LEMMA CallStep ==
  ASSUME IInv, NEW r \in Requests, Call(r)
  PROVE  IInv'
<1>1. CASE Register(r)
  <2>1. PICK e \in Emails, new \in Passwords :
          Begin(r, [Idle EXCEPT !.op = "Register", !.pc = "create",
                                !.email = e, !.new = new])
    BY <1>1, Zenon DEF Register
  <2>a. "Register" \in Flows /\ "create" \in PCs
    BY DEF Flows, PCs
  <2> DEFINE p == [Idle EXCEPT !.op = "Register", !.pc = "create",
                               !.email = e, !.new = new]
  <2>2. p \in Request /\ p.got = FALSE /\ p.op = "Register" /\ p.pc = "create"
    BY <2>a, IdleType, IdleGot, Zenon DEF Request
  <2> HIDE DEF p
  <2>3. Knows(p) /\ Begin(r, p)
    BY <2>1, <2>2 DEF Knows, UserPCs, p
  <2>4. QED
    BY <2>2, <2>3, BeginStep DEF Flows
<1>2. CASE Login(r)
  <2>1. PICK e \in Emails, pw \in Passwords :
          Begin(r, [Idle EXCEPT !.op = "Login", !.pc = "lookup",
                                !.email = e, !.pw = pw])
    BY <1>2, Zenon DEF Login
  <2>a. "Login" \in Flows /\ "lookup" \in PCs
    BY DEF Flows, PCs
  <2> DEFINE p == [Idle EXCEPT !.op = "Login", !.pc = "lookup",
                               !.email = e, !.pw = pw]
  <2>2. p \in Request /\ p.got = FALSE /\ p.op = "Login" /\ p.pc = "lookup"
    BY <2>a, IdleType, IdleGot, Zenon DEF Request
  <2> HIDE DEF p
  <2>3. Knows(p) /\ Begin(r, p)
    BY <2>1, <2>2 DEF Knows, UserPCs, p
  <2>4. QED
    BY <2>2, <2>3, BeginStep DEF Flows
<1>3. CASE ChangePassword(r)
  <2>1. PICK u \in DOMAIN users, pw \in Passwords, new \in Passwords :
          Begin(r, [Idle EXCEPT !.op = "ChangePassword", !.pc = "load",
                                !.uid = u, !.pw = pw, !.new = new])
    BY <1>3, Zenon DEF ChangePassword
  <2>a. "ChangePassword" \in Flows /\ "load" \in PCs
    BY DEF Flows, PCs
  <2> DEFINE p == [Idle EXCEPT !.op = "ChangePassword", !.pc = "load",
                               !.uid = u, !.pw = pw, !.new = new]
  <2>2. u \in Uids
    BY DEF IInv, StoreOK
  <2>3. /\ p \in Request /\ p.got = FALSE /\ p.op = "ChangePassword"
        /\ p.pc = "load" /\ p.uid = u
    BY <2>a, <2>2, IdleType, IdleGot, Zenon DEF Request
  <2> HIDE DEF p
  <2>4. Knows(p) /\ Begin(r, p)
    BY <2>1, <2>3 DEF Knows, p
  <2>5. QED
    BY <2>3, <2>4, BeginStep DEF Flows
<1>4. CASE SetInitialPassword(r)
  <2>1. PICK u \in DOMAIN users, new \in Passwords :
          Begin(r, [Idle EXCEPT !.op = "SetInitialPassword", !.pc = "read",
                                !.uid = u, !.new = new])
    BY <1>4, Zenon DEF SetInitialPassword
  <2>a. "SetInitialPassword" \in Flows /\ "read" \in PCs
    BY DEF Flows, PCs
  <2> DEFINE p == [Idle EXCEPT !.op = "SetInitialPassword", !.pc = "read",
                               !.uid = u, !.new = new]
  <2>2. u \in Uids
    BY DEF IInv, StoreOK
  <2>3. /\ p \in Request /\ p.got = FALSE /\ p.op = "SetInitialPassword"
        /\ p.pc = "read" /\ p.uid = u
    BY <2>a, <2>2, IdleType, IdleGot, Zenon DEF Request
  <2> HIDE DEF p
  <2>4. Knows(p) /\ Begin(r, p) /\ p.op \in Updates
    BY <2>1, <2>3 DEF Knows, p, Updates, SetsPassword
  <2>5. QED
    BY <2>3, <2>4, BeginStep DEF Flows
<1>5. CASE CreatePasswordResetToken(r) \/ CreateMagicLinkToken(r)
  BY <1>5, ByEmailStep DEF CreatePasswordResetToken, CreateMagicLinkToken, Flows
<1>6. CASE ResetPassword(r) \/ RedeemMagicLink(r) \/ VerifyEmail(r)
           \/ ConfirmEmailChange(r) \/ CompleteTwoFactor(r)
  <2>1. Idle.uid \in Uids /\ Idle.new \in Passwords
    BY IdleType DEF Request
  <2>2. DOMAIN users \subseteq Uids
    BY DEF IInv, StoreOK
  <2>3. QED
    BY <1>6, <2>1, <2>2, RedeemStep
       DEF ResetPassword, RedeemMagicLink, VerifyEmail, ConfirmEmailChange,
           CompleteTwoFactor, Flows
<1>7. CASE ChangeEmail(r)
  <2>1. PICK u \in DOMAIN users, e \in Emails :
          Begin(r, [Idle EXCEPT !.op = "ChangeEmail", !.pc = "lookup",
                                !.uid = u, !.email = e])
    BY <1>7, Zenon DEF ChangeEmail
  <2>a. "ChangeEmail" \in Flows /\ "lookup" \in PCs
    BY DEF Flows, PCs
  <2> DEFINE p == [Idle EXCEPT !.op = "ChangeEmail", !.pc = "lookup",
                               !.uid = u, !.email = e]
  <2>2. u \in Uids
    BY DEF IInv, StoreOK
  <2>3. /\ p \in Request /\ p.got = FALSE /\ p.op = "ChangeEmail"
        /\ p.pc = "lookup" /\ p.uid = u
    BY <2>a, <2>2, IdleType, IdleGot, Zenon DEF Request
  <2> HIDE DEF p
  <2>4. Knows(p) /\ Begin(r, p)
    BY <2>1, <2>3 DEF Knows, p
  <2>5. QED
    BY <2>3, <2>4, BeginStep DEF Flows
<1>8. CASE CreateEmailVerificationToken(r) \/ CreateTwoFactorToken(r)
           \/ IssueSessionUnchecked(r) \/ RevokeAllSessions(r)
           \/ DisableUser(r) \/ EnableUser(r)
  BY <1>8, ByIDStep
     DEF CreateEmailVerificationToken, CreateTwoFactorToken, EnableUser,
         IssueSessionUnchecked, RevokeAllSessions, DisableUser, Flows, Updates
<1>9. CASE RefreshSession(r)
  <2>1. PICK x \in sessions :
          Begin(r, [Idle EXCEPT !.op = "RefreshSession", !.pc = "delete",
                                !.uid = x.uid, !.sess = x.id, !.root = x.root])
    BY <1>9, Zenon DEF RefreshSession
  <2>a. "RefreshSession" \in Flows /\ "delete" \in PCs
    BY DEF Flows, PCs
  <2> DEFINE p == [Idle EXCEPT !.op = "RefreshSession", !.pc = "delete",
                               !.uid = x.uid, !.sess = x.id, !.root = x.root]
  <2>2. /\ x.uid \in Uids /\ x.id \in Nat /\ x.root \in Nat
        /\ x.uid \in DOMAIN users
    BY DEF IInv, StoreOK, Session
  <2>3. /\ p \in Request /\ p.got = FALSE /\ p.op = "RefreshSession"
        /\ p.pc = "delete" /\ p.uid = x.uid
    BY <2>a, <2>2, IdleType, IdleGot, Zenon DEF Request
  <2> HIDE DEF p
  <2>4. Knows(p) /\ Begin(r, p)
    BY <2>1, <2>2, <2>3 DEF Knows, p
  <2>5. QED
    BY <2>3, <2>4, BeginStep DEF Flows
<1>10. CASE RevokeSession(r)
  <2>1. PICK x \in sessions, u \in DOMAIN users :
          Begin(r, [Idle EXCEPT !.op = "RevokeSession", !.pc = "delete",
                                !.uid = u, !.sess = x.id])
    BY <1>10, Zenon DEF RevokeSession
  <2>a. "RevokeSession" \in Flows /\ "delete" \in PCs
    BY DEF Flows, PCs
  <2> DEFINE p == [Idle EXCEPT !.op = "RevokeSession", !.pc = "delete",
                               !.uid = u, !.sess = x.id]
  <2>2. u \in Uids /\ x.id \in Nat
    BY DEF IInv, StoreOK, Session
  <2>3. /\ p \in Request /\ p.got = FALSE /\ p.op = "RevokeSession"
        /\ p.pc = "delete" /\ p.uid = u
    BY <2>a, <2>2, IdleType, IdleGot, Zenon DEF Request
  <2> HIDE DEF p
  <2>4. Knows(p) /\ Begin(r, p)
    BY <2>1, <2>3 DEF Knows, p
  <2>5. QED
    BY <2>3, <2>4, BeginStep DEF Flows
<1>11. QED
  BY <1>1, <1>2, <1>3, <1>4, <1>5, <1>6, <1>7, <1>8, <1>9, <1>10 DEF Call

-----------------------------------------------------------------------------
(* Store calls that read.                                                  *)

(* Loading a row into a request.                                           *)
LEMMA LoadUser ==
  ASSUME NEW q \in Request, NEW u \in Uids, NEW row \in Row
  PROVE  LET p == [q EXCEPT !.uid = u, !.user = row]
         IN  /\ p \in Request /\ p.op = q.op /\ p.tok = q.tok
             /\ p.got = q.got /\ p.uid = u
BY ZenonT(40) DEF Request

(* GetUserByEmail finding an account, for each flow that looks one up.     *)
LEMMA FoundAdvances ==
  ASSUME NEW q \in Request, NEW u \in Uids, u \in DOMAIN users,
         users[u] \in Row
  PROVE  \E o \in Request :
           /\ o.op = q.op /\ o.tok = q.tok /\ o.got = q.got
           /\ Advances(o, Found(q, u))
           /\ \/ o.uid = u
              \/ o.uid = q.uid /\ Found(q, u).pc = "done"
<1> DEFINE o == [q EXCEPT !.uid = u, !.user = users[u]]
<1>1. /\ o \in Request /\ o.op = q.op /\ o.tok = q.tok
      /\ o.got = q.got /\ o.uid = u
  BY LoadUser, Zenon
<1>2. Found(q, u) = CASE q.op = "Login" -> VerifyPassword(o)
                      [] q.op = "RedeemMagicLink" -> stampEmailVerified(o)
                      [] q.op = "ChangeEmail" -> Done(q, "err")
                      [] OTHER -> [o EXCEPT !.pc = "token"]
  BY DEF Found
<1> HIDE DEF o
<1>3. CASE q.op = "Login"
  BY <1>1, <1>2, <1>3, VerifyPasswordAdvances
<1>4. CASE q.op = "RedeemMagicLink"
  BY <1>1, <1>2, <1>4, StampAdvances DEF Stamps
<1>5. CASE q.op = "ChangeEmail"
  <2>1. Advances(q, Done(q, "err")) /\ Done(q, "err").pc = "done"
    BY DoneAdvances DEF Results
  <2>2. QED
    BY <1>2, <1>5, <2>1
<1>6. CASE q.op \notin {"Login", "RedeemMagicLink", "ChangeEmail"}
  <2>1. Found(q, u) = [o EXCEPT !.pc = "token"]
    BY <1>2, <1>6
  <2>2. Advances(o, Found(q, u))
    BY <1>1, <2>1, GoTo, Zenon
  <2>3. QED
    BY <1>1, <2>2
<1>7. QED
  BY <1>3, <1>4, <1>5, <1>6

(* GetUserByEmail finding none.                                            *)
LEMMA NotFoundAdvances ==
  ASSUME NEW q \in Request, Knows(q)
  PROVE  \E o \in Request :
           /\ o.op = q.op /\ o.tok = q.tok /\ o.got = q.got
           /\ Advances(o, NotFound(q)) /\ Knows(NotFound(q))
<1>1. CASE NotFound(q) \in {Done(q, "ok"), Done(q, "err")}
  <2>1. PICK p \in {Done(q, "ok"), Done(q, "err")} : p = NotFound(q)
    BY <1>1
  <2>2. Advances(q, p) /\ p.pc = "done"
    BY <2>1, DoneAdvances DEF Results
  <2>3. Knows(p)
    BY <2>2 DEF Advances, Keeps, Knows, UserPCs
  <2>4. QED
    BY <2>1, <2>2, <2>3
<1>2. CASE q.op = "CreateMagicLinkToken"
  <2> DEFINE p == [q EXCEPT !.pc = "token", !.nil = TRUE]
  <2>1. NotFound(q) = p
    BY <1>2 DEF NotFound
  <2>2. Keeps(q, p) /\ p.pc = "token" /\ p.nil
    BY Zenon DEF Keeps, Request, PCs
  <2> HIDE DEF p
  <2>3. Advances(q, p) /\ Knows(p)
    BY <1>2, <2>2 DEF Advances, PCs, Knows, UserPCs, Keeps
  <2>4. QED
    BY <2>1, <2>3
<1>3. CASE q.op = "ChangeEmail"
  <2> DEFINE p == [q EXCEPT !.pc = "read"]
  <2>1. NotFound(q) = p
    BY <1>3 DEF NotFound
  <2>2. Advances(q, p)
    BY <1>3, GoToRead DEF Updates
  <2> HIDE DEF p
  <2>3. Knows(p)
    BY <1>3, <2>2 DEF Advances, Keeps, Knows
  <2>4. QED
    BY <2>1, <2>2, <2>3
<1>4. CASE q.op = "RedeemMagicLink" /\ q.pc = "lookup"
  <2> DEFINE p == [q EXCEPT !.pc = "create"]
  <2>1. NotFound(q) = p
    BY <1>4 DEF NotFound
  <2>2. Keeps(q, p) /\ p.pc = "create"
    BY SetPC, Zenon DEF PCs
  <2> HIDE DEF p
  <2>3. Advances(q, p) /\ Knows(p)
    BY <1>4, <2>2 DEF Advances, PCs, Knows, UserPCs, Keeps
  <2>4. QED
    BY <2>1, <2>3
<1>5. QED
  BY <1>1, <1>2, <1>3, <1>4 DEF NotFound

(* UserStore.GetUserByEmail keeps the invariant.                           *)
LEMMA GetUserByEmailStep ==
  ASSUME IInv, NEW r \in Requests, GetUserByEmail(r)
  PROVE  IInv'
<1>1. PICK q \in Request : q = req[r] /\ ReqOK(q)
  BY DEF IInv
<1>2. q.pc \in {"lookup", "relookup"} /\ UNCHANGED stores
  BY <1>1 DEF GetUserByEmail
<1>3. StoreOK' /\ StoresGrow /\ users' = users
  BY <1>2, NoStoreChange DEF IInv, stores
<1>4. ASSUME NEW u \in Holders(q.email), Put(r, Found(q, u))
      PROVE  IInv'
  <2>1. u \in DOMAIN users /\ u \in Uids /\ users[u] \in Row
    BY DEF Holders, IInv, StoreOK
  <2>2. PICK o \in Request :
          /\ o.op = q.op /\ o.tok = q.tok /\ o.got = q.got
          /\ Advances(o, Found(q, u))
          /\ \/ o.uid = u
             \/ o.uid = q.uid /\ Found(q, u).pc = "done"
    BY <2>1, FoundAdvances
  <2>3. PICK p \in Request : p = Found(q, u)
    BY <2>2 DEF Advances, Keeps
  <2>4. p.op = q.op /\ p.uid = o.uid
    BY <2>2, <2>3 DEF Advances, Keeps
  <2>5. Knows(p)'
    BY <1>1, <1>3, <2>1, <2>2, <2>3, <2>4 DEF Knows, ReqOK, UserPCs
  <2>6. QED
    BY <1>1, <1>2, <1>3, <1>4, <2>2, <2>3, <2>5, MoveStep
<1>5. CASE Put(r, NotFound(q))
  <2>1. PICK o \in Request :
          /\ o.op = q.op /\ o.tok = q.tok /\ o.got = q.got
          /\ Advances(o, NotFound(q)) /\ Knows(NotFound(q))
    BY <1>1, NotFoundAdvances DEF ReqOK
  <2>2. PICK p \in Request : p = NotFound(q)
    BY <2>1 DEF Advances, Keeps
  <2>3. Knows(p)'
    BY <1>3, <2>1, <2>2 DEF Knows
  <2>4. QED
    BY <1>1, <1>2, <1>3, <1>5, <2>1, <2>2, <2>3, MoveStep
<1>6. QED
  BY <1>1, <1>4, <1>5 DEF GetUserByEmail

(* GetUserByID, for each flow that loads the row it decides on.            *)
LEMMA LoadedAdvances ==
  ASSUME NEW q \in Request
  PROVE  Advances(q, Loaded(q))
<1>1. /\ Advances(q, Done(q, "err"))
      /\ \A pc \in {"token", "session"} : Advances(q, [q EXCEPT !.pc = pc])
  BY DoneAdvances, GoTo, Zenon DEF Results
<1>2. CASE q.op \in Stamps
  <2>1. Advances(q, stampEmailVerified(q))
    BY <1>2, StampAdvances
  <2>2. QED
    BY <1>1, <1>2, <2>1 DEF Loaded, Stamps
<1>3. CASE q.op = "ChangePassword"
  <2>1. Loaded(q) = [q EXCEPT !.pc = "read"]
    BY <1>3 DEF Loaded
  <2>2. QED
    BY <1>3, <2>1, GoToRead DEF Updates, SetsPassword
<1>4. CASE q.op = "CreateEmailVerificationToken"
  <2> DEFINE p == [q EXCEPT !.pc = "token", !.email = q.user.email]
  <2>1. q.user.email \in Emails
    BY DEF Request, Row
  <2>2. Keeps(q, p) /\ p.pc = "token"
    BY <2>1, Zenon DEF Keeps, Request, PCs
  <2>3. Loaded(q) = p
    BY <1>4 DEF Loaded
  <2> HIDE DEF p
  <2>4. QED
    BY <2>2, <2>3 DEF Advances, PCs
<1>5. CASE q.op \notin Stamps \cup {"ChangePassword", "CreateEmailVerificationToken"}
  <2>1. \/ Loaded(q) = Done(q, "err")
        \/ \E pc \in {"token", "session"} : Loaded(q) = [q EXCEPT !.pc = pc]
    BY <1>5 DEF Loaded, Stamps
  <2>2. QED
    BY <1>1, <2>1
<1>6. QED
  BY <1>2, <1>3, <1>4, <1>5

(* UserStore.GetUserByID keeps the invariant.                              *)
LEMMA GetUserByIDStep ==
  ASSUME IInv, NEW r \in Requests, GetUserByID(r)
  PROVE  IInv'
<1>1. PICK q \in Request : q = req[r] /\ ReqOK(q)
  BY DEF IInv
<1>2. q.pc \in {"load", "reload"} /\ UNCHANGED stores
  BY <1>1 DEF GetUserByID
<1>3. StoreOK' /\ StoresGrow /\ users' = users
  BY <1>2, NoStoreChange DEF IInv, stores
<1>4. q.uid \in DOMAIN users /\ users[q.uid] \in Row
  BY <1>1, <1>2 DEF ReqOK, Knows, UserPCs, IInv, StoreOK
<1> DEFINE o == [q EXCEPT !.user = users[q.uid]]
<1>5. /\ o \in Request /\ o.op = q.op /\ o.tok = q.tok /\ o.got = q.got
      /\ o.uid = q.uid
  BY <1>4 DEF Request
<1>6. Put(r, Loaded(o)) \/ Put(r, AfterStamp(o))
  BY <1>1 DEF GetUserByID
<1> HIDE DEF o
<1>7. \A p \in {Loaded(o), AfterStamp(o)} : Advances(o, p)
  BY <1>5, LoadedAdvances, AfterStampAdvances
<1>8. PICK p \in {Loaded(o), AfterStamp(o)} : Put(r, p)
  BY <1>6
<1>9. p \in Request /\ p.uid = q.uid
  BY <1>5, <1>7 DEF Advances, Keeps
<1>10. Knows(p)'
  BY <1>3, <1>4, <1>9 DEF Knows
<1>11. QED
  BY <1>1, <1>2, <1>3, <1>5, <1>7, <1>8, <1>9, <1>10, MoveStep

(* mutate makes a row of a row: the version stays, the password is still   *)
(* one password, and the address is the old one or the one confirmed.      *)
LEMMA OnlySingleton ==
  ASSUME NEW a
  PROVE  Only({a}) = a
BY DEF Only

(* A mutate closure makes a row of a row it accepts, with one password.    *)
LEMMA MutateType ==
  ASSUME NEW q \in Request, NEW row \in Row, AtMostOne(row.hash),
         Accepts(q, row)
  PROVE  /\ Mutate(q, row) \in Row
         /\ AtMostOne(Mutate(q, row).hash)
         /\ Mutate(q, row).version = row.version
<1>1. row.version + 1 \in Nat /\ q.new \in Passwords /\ q.email \in Emails
  BY DEF Row, Request
<1>2. CASE q.op = "Login"
  <2>1. Mutate(q, row) = [row EXCEPT !.hash = Rehashed(row.hash)]
    BY <1>2 DEF Mutate, SetsPassword, Stamps
  <2>2. Rehashed(row.hash) \in SUBSET Hash
    BY ZenonT(30) DEF Row, Hash, Rehashed
  <2>3. AtMostOne(Rehashed(row.hash))
    BY Zenon DEF AtMostOne, Rehashed
  <2>4. QED
    BY <2>1, <2>2, <2>3 DEF Row
<1>3. CASE q.op \in SetsPassword
  <2> DEFINE h == [pw |-> q.new, gen |-> row.version + 1, weak |-> FALSE]
  <2>1. Mutate(q, row) = [row EXCEPT !.hash = {h}]
    BY <1>3 DEF Mutate, NewHash, SetsPassword, Stamps
  <2>2. h \in Hash
    BY <1>1 DEF Hash
  <2> HIDE DEF h
  <2>3. QED
    BY <2>1, <2>2 DEF Row, AtMostOne
<1>4. CASE q.op \in Stamps
  <2>1. Mutate(q, row) = [row EXCEPT !.verified = TRUE]
    BY <1>4 DEF Mutate, Stamped, SetsPassword, Stamps
  <2>2. QED
    BY <2>1, Zenon DEF Row
<1>5. CASE q.op = "ChangeEmail"
  <2>1. Mutate(q, row) = [row EXCEPT !.pending = {q.email}]
    BY <1>5 DEF Mutate, Staged, SetsPassword, Stamps
  <2>2. QED
    BY <1>1, <2>1 DEF Row
<1>6. CASE q.op = "ConfirmEmailChange"
  <2>1. row.pending = {q.email}
    BY <1>6 DEF Accepts, StillStaged
  <2>2. Only(row.pending) = q.email
    BY <2>1, OnlySingleton, Zenon
  <2>3. Mutate(q, row) = [row EXCEPT !.email = Only(row.pending),
                                     !.pending = {}, !.verified = TRUE]
    BY <1>6 DEF Mutate, Swapped, SetsPassword, Stamps
  <2>4. QED
    BY <1>1, <2>2, <2>3, Zenon DEF Row
<1>7. CASE q.op \notin {"Login", "ChangeEmail", "ConfirmEmailChange"}
                        \cup SetsPassword \cup Stamps
  <2>1. \/ Mutate(q, row) = [row EXCEPT !.disabled = TRUE]
        \/ Mutate(q, row) = [row EXCEPT !.disabled = FALSE]
    BY <1>7 DEF Mutate, Disabled, Enabled
  <2>2. QED
    BY <2>1, Zenon DEF Row
<1>8. QED
  BY <1>2, <1>3, <1>4, <1>5, <1>6, <1>7

(* What mutate does depends on what the flow was called with.              *)
LEMMA MutateDepends ==
  ASSUME NEW q \in Request, NEW p \in Request, NEW row,
         p.op = q.op, p.pw = q.pw, p.new = q.new, p.email = q.email,
         p.user = q.user
  PROVE  /\ Mutate(p, row) = Mutate(q, row)
         /\ Accepts(p, row) = Accepts(q, row)
<1>1. NewHash(p, row) = NewHash(q, row)
  BY DEF NewHash
<1>2. Mutate(p, row) = Mutate(q, row)
  BY <1>1 DEF Mutate, Staged
<1>3. Accepts(p, row) = Accepts(q, row)
  BY DEF Accepts, UnchangedHash, verifyOld, StillStaged
<1>4. QED
  BY <1>2, <1>3

(* The read of updateUserWithRetry: what the request is about to write was *)
(* computed from the row the store holds now.                              *)
LEMMA ReadForUpdateStep ==
  ASSUME IInv, NEW r \in Requests, ReadForUpdate(r)
  PROVE  IInv'
<1>1. PICK q \in Request : q = req[r] /\ ReqOK(q)
  BY DEF IInv
<1>2. q.pc = "read" /\ UNCHANGED stores
  BY <1>1 DEF ReadForUpdate
<1>3. StoreOK' /\ StoresGrow
  BY <1>2, NoStoreChange DEF IInv
<1>4. PICK row \in Row : row = users[q.uid]
  BY <1>1, <1>2 DEF ReqOK, Knows, UserPCs, IInv, StoreOK
<1>5. q.uid \in DOMAIN users /\ AtMostOne(row.hash) /\ q.op \in Updates
  BY <1>1, <1>2, <1>4 DEF ReqOK, Knows, Fits, UserPCs, IInv, StoreOK
<1>6. CASE ~Accepts(q, row)
  <2>1. Put(r, Refused(q))
    BY <1>1, <1>4, <1>6 DEF ReadForUpdate
  <2>2. Advances(q, Refused(q))
    BY RefusedAdvances
  <2>3. PICK p \in Request : p = Refused(q)
    BY <2>2 DEF Advances, Keeps
  <2>4. QED
    BY <1>1, <1>2, <1>3, <2>1, <2>2, <2>3, AdvanceStep DEF UserPCs
<1>7. CASE Accepts(q, row)
  <2>1. PICK new \in Row : new = Mutate(q, row)
    BY <1>5, <1>7, MutateType
  <2>2. AtMostOne(new.hash) /\ new.version = row.version
    BY <1>5, <1>7, <2>1, MutateType
  <2>3. PICK b \in BOOLEAN, pc \in {"taken", "write"} :
          /\ b = (row.hash # {})
          /\ pc = IF q.op = "ConfirmEmailChange" THEN "taken" ELSE "write"
    BY Zenon
  <2> DEFINE p == [q EXCEPT !.cur = new, !.hadpw = b, !.pc = pc]
  <2>4. /\ Keeps(q, p) /\ p.cur = new /\ p.pc = pc
        /\ p.pw = q.pw /\ p.new = q.new /\ p.email = q.email
        /\ p.user = q.user
    <3>1. pc \in PCs
      BY DEF PCs
    <3>2. QED
      BY <3>1, Zenon DEF Keeps, Request
  <2>5. Put(r, p)
    BY <1>1, <1>4, <1>7, <2>1, <2>3 DEF ReadForUpdate
  <2> HIDE DEF p
  <2>6. p \in Request /\ p.op = q.op /\ p.uid = q.uid /\ p.tok = q.tok /\ p.got = q.got
    BY <2>4 DEF Keeps
  <2>7. Accepts(p, row) /\ p.cur = Mutate(p, row)
    BY <1>7, <2>1, <2>4, <2>6, MutateDepends
  <2>8. row.version \in Nat
    BY DEF Row
  <2>9. WriteOK(p)
    BY <1>4, <2>2, <2>4, <2>6, <2>7, <2>8 DEF WriteOK
  <2>10. Knows(p) /\ Fits(p) /\ Burned(p)
    BY <1>1, <1>2, <1>5, <2>3, <2>4, <2>6 DEF ReqOK, Knows, Fits, Burned
  <2>11. ReqOK(p)'
    <3>1. ReqOK(p)
      BY <2>9, <2>10 DEF ReqOK
    <3>2. QED
      BY <1>3, <2>6, <3>1, RequestFrame DEF IInv
  <2>12. p.got => \A s \in Requests : s # r /\ req[s].got => req[s].tok # p.tok
    BY <1>1, <2>6, Zenon DEF IInv, TokenHandedOnce
  <2>13. QED
    BY <1>3, <2>5, <2>6, <2>11, <2>12, RequestStep
<1>8. QED
  BY <1>6, <1>7

(* ConfirmEmailChange's early check keeps the invariant.                   *)
LEMMA StillFreeStep ==
  ASSUME IInv, NEW r \in Requests, StillFree(r)
  PROVE  IInv'
<1>1. PICK q \in Request : q = req[r] /\ ReqOK(q)
  BY DEF IInv
<1>2. q.pc = "taken" /\ UNCHANGED stores
  BY <1>1 DEF StillFree
<1>3. StoreOK' /\ StoresGrow
  BY <1>2, NoStoreChange DEF IInv
<1>4. CASE Put(r, Done(q, "err"))
  <2>1. Advances(q, Done(q, "err"))
    BY DoneAdvances DEF Results
  <2>2. PICK p \in Request : p = Done(q, "err")
    BY <2>1 DEF Advances, Keeps
  <2>3. QED
    BY <1>1, <1>2, <1>3, <1>4, <2>1, <2>2, AdvanceStep DEF UserPCs
<1>5. CASE Put(r, [q EXCEPT !.pc = "write"])
  <2> DEFINE p == [q EXCEPT !.pc = "write"]
  <2>1. /\ p \in Request /\ p.op = q.op /\ p.uid = q.uid /\ p.tok = q.tok
        /\ p.got = q.got /\ p.cur = q.cur /\ p.pc = "write" /\ p.pw = q.pw
        /\ p.new = q.new /\ p.email = q.email /\ p.user = q.user
    BY DEF Request, PCs
  <2>2. Put(r, p)
    BY <1>5
  <2> HIDE DEF p
  <2>3. WriteOK(p)
    BY <1>1, <1>2, <2>1, MutateDepends, SMT, SMTT(30) DEF ReqOK, WriteOK
  <2>4. Knows(p) /\ Fits(p) /\ Burned(p)
    BY <1>1, <1>2, <2>1 DEF ReqOK, Knows, Fits, Burned, UserPCs
  <2>5. ReqOK(p)'
    BY <1>3, <2>1, <2>3, <2>4, RequestFrame DEF IInv, ReqOK
  <2>6. p.got => \A s \in Requests : s # r /\ req[s].got => req[s].tok # p.tok
    BY <1>1, <2>1, Zenon DEF IInv, TokenHandedOnce
  <2>7. QED
    BY <1>3, <2>1, <2>2, <2>5, <2>6, RequestStep
<1>6. QED
  BY <1>1, <1>4, <1>5 DEF StillFree

(* The application's second-factor answer keeps the invariant.             *)
LEMMA HasSecondFactorStep ==
  ASSUME IInv, NEW r \in Requests, HasSecondFactor(r)
  PROVE  IInv'
<1>1. PICK q \in Request : q = req[r]
  BY DEF IInv
<1>2. q.pc = "factor" /\ UNCHANGED stores
  BY <1>1 DEF HasSecondFactor
<1>3. PICK next \in {"token", "session"} : Put(r, [q EXCEPT !.pc = next])
  BY <1>1 DEF HasSecondFactor
<1>4. StoreOK' /\ StoresGrow
  BY <1>2, NoStoreChange DEF IInv
<1>5. Advances(q, [q EXCEPT !.pc = next])
  BY GoTo, Zenon
<1>6. PICK p \in Request : p = [q EXCEPT !.pc = next]
  BY <1>5 DEF Advances, Keeps
<1>7. QED
  BY <1>1, <1>2, <1>3, <1>4, <1>5, <1>6, AdvanceStep DEF UserPCs

(* A failing store call keeps the invariant.                               *)
LEMMA StoreErrorStep ==
  ASSUME IInv, NEW r \in Requests, StoreError(r)
  PROVE  IInv'
<1>1. PICK q \in Request : q = req[r] /\ ReqOK(q)
  BY DEF IInv
<1>2. q.pc \notin {"idle", "done"} /\ UNCHANGED stores
  BY <1>1 DEF StoreError
<1>3. StoreOK' /\ StoresGrow
  BY <1>2, NoStoreChange DEF IInv
<1>4. CASE q.pc \in {"read", "taken", "write"}
  <2>1. Put(r, UpdateFailed(q, "err"))
    BY <1>1, <1>4 DEF StoreError
  <2>2. Advances(q, UpdateFailed(q, "err"))
    BY UpdateFailedAdvances DEF Results
  <2>3. PICK p \in Request : p = UpdateFailed(q, "err")
    BY <2>2 DEF Advances, Keeps
  <2>4. QED
    BY <1>1, <1>2, <1>3, <1>4, <2>1, <2>2, <2>3, AdvanceStep DEF UserPCs
<1>5. CASE q.pc \notin {"read", "taken", "write"}
  <2>1. Put(r, Done(q, "err"))
    BY <1>1, <1>5 DEF StoreError
  <2>2. Advances(q, Done(q, "err")) /\ Done(q, "err").pc = "done"
    BY DoneAdvances DEF Results
  <2>3. PICK p \in Request : p = Done(q, "err")
    BY <2>2 DEF Advances, Keeps
  <2>4. /\ p.op = q.op /\ p.uid = q.uid /\ p.tok = q.tok /\ p.got = q.got
        /\ p.pc = "done"
    BY <2>2, <2>3 DEF Advances, Keeps
  <2>5. ReqOK(p)
    BY <1>1, <1>2, <2>4 DEF ReqOK, Knows, Fits, WriteOK, Burned, UserPCs
  <2>6. ReqOK(p)'
    BY <1>3, <2>5, RequestFrame DEF IInv
  <2>7. p.got => \A s \in Requests : s # r /\ req[s].got => req[s].tok # p.tok
    BY <1>1, <2>4, Zenon DEF IInv, TokenHandedOnce
  <2>8. QED
    BY <1>3, <2>1, <2>3, <2>6, <2>7, RequestStep
<1>6. QED
  BY <1>4, <1>5

-----------------------------------------------------------------------------
(* Store calls that write.                                                 *)

(* UserStore.CreateUser: a new id, and an address nobody holds.            *)
LEMMA CreateUserStep ==
  ASSUME IInv, NEW r \in Requests, CreateUser(r)
  PROVE  IInv'
<1>1. PICK q \in Request : q = req[r] /\ ReqOK(q)
  BY DEF IInv
<1>2. /\ q.pc = "create" /\ q.op \in {"Register", "RedeemMagicLink"}
      /\ UNCHANGED <<sessions, tokens, proven, nextId>>
  BY <1>1, Zenon DEF CreateUser, ReqOK, Fits
<1>3. CASE Put(r, Done(q, "err")) /\ UNCHANGED users
  <2>1. StoreOK' /\ StoresGrow
    BY <1>2, <1>3, NoStoreChange DEF IInv, stores
  <2>2. Advances(q, Done(q, "err")) /\ Done(q, "err").pc = "done"
    BY DoneAdvances DEF Results
  <2>3. PICK p \in Request : p = Done(q, "err")
    BY <2>2 DEF Advances, Keeps
  <2>4. QED
    BY <1>1, <1>2, <1>3, <2>1, <2>2, <2>3, AdvanceStep
<1>4. CASE Put(r, [q EXCEPT !.pc = "relookup"]) /\ UNCHANGED users
  <2>1. StoreOK' /\ StoresGrow
    BY <1>2, <1>4, NoStoreChange, ZenonT(40) DEF IInv, stores
  <2>2. Advances(q, [q EXCEPT !.pc = "relookup"])
        /\ [q EXCEPT !.pc = "relookup"].pc = "relookup"
    BY GoTo, SetPC, Zenon DEF PCs
  <2>3. PICK p \in Request : p = [q EXCEPT !.pc = "relookup"]
    BY <2>2 DEF Advances, Keeps
  <2>4. p.pc = "relookup" /\ p.op = q.op
    BY <2>2, <2>3 DEF Advances, Keeps
  <2>5. Knows(p)'
    BY <1>2, <2>4 DEF Knows, UserPCs
  <2>6. QED
    BY <1>1, <1>2, <1>4, <2>1, <2>2, <2>3, <2>5, MoveStep
<1>5. ASSUME NEW u \in Uids \ DOMAIN users, NEW row \in Row,
             Holders(q.email) = {}, row.email = q.email, AtMostOne(row.hash),
             users' = [v \in DOMAIN users \cup {u} |->
                         IF v = u THEN row ELSE users[v]],
             Put(r, [q EXCEPT !.uid = u, !.user = row,
                              !.pc = IF q.op = "Register"
                                       THEN "session" ELSE "read"])
      PROVE  IInv'
  <2>1. /\ DOMAIN users' = DOMAIN users \cup {u} /\ users'[u] = row
        /\ \A v \in DOMAIN users : users'[v] = users[v]
    BY <1>5
  <2>2. UniqueEmails(users')
    BY <1>5, <2>1 DEF IInv, StoreOK, UniqueEmails, Holders
  <2>3. /\ users' \in [DOMAIN users' -> Row] /\ DOMAIN users' \subseteq Uids
        /\ \A v \in DOMAIN users' : AtMostOne(users'[v].hash)
    BY <1>5, <2>1 DEF IInv, StoreOK
  <2>4. StoreOK'
    BY <1>2, <2>1, <2>2, <2>3 DEF IInv, StoreOK, AtMostOne, UniqueEmails
  <2>5. StoresGrow
    BY <1>2, <2>1, SMTT(30) DEF IInv, StoreOK, StoresGrow
  <2> DEFINE o == [q EXCEPT !.uid = u, !.user = row]
             pc == IF q.op = "Register" THEN "session" ELSE "read"
  <2>6. /\ o \in Request /\ o.op = q.op /\ o.tok = q.tok
        /\ o.got = q.got /\ o.uid = u
    BY LoadUser, Zenon
  <2>7. Put(r, [o EXCEPT !.pc = pc])
    BY <1>5
  <2> HIDE DEF o
  <2>8. Advances(o, [o EXCEPT !.pc = pc])
    BY <1>2, <2>6, GoTo, GoToRead, Zenon DEF Updates, Stamps
  <2>9. PICK p \in Request : p = [o EXCEPT !.pc = pc]
    BY <2>8 DEF Advances, Keeps
  <2>10. Knows(p)'
    BY <2>1, <2>6, <2>8, <2>9 DEF Knows, Advances, Keeps
  <2>11. QED
    BY <1>1, <1>2, <2>4, <2>5, <2>6, <2>7, <2>8, <2>9, <2>10, MoveStep
<1>6. QED
  <2> DEFINE hash == IF q.op = "Register"
                       THEN {[pw |-> q.new, gen |-> 0, weak |-> FALSE]} ELSE {}
             row == NewRow(q.email, hash)
  <2>1. hash \in SUBSET Hash /\ AtMostOne(hash)
    <3>1. PICK h : h = [pw |-> q.new, gen |-> 0, weak |-> FALSE]
      BY Zenon
    <3>2. q.new \in Passwords
      BY DEF Request
    <3>3. h \in Hash
      BY <3>1, <3>2 DEF Hash
    <3>4. hash = {} \/ hash = {h}
      BY <3>1
    <3> HIDE DEF hash
    <3>5. QED
      BY <3>3, <3>4 DEF AtMostOne
  <2> HIDE DEF hash
  <2>2. row \in Row /\ row.email = q.email /\ row.hash = hash
    BY <2>1 DEF NewRow, Row, Request
  <2>3. \/ Put(r, Done(q, "err")) /\ UNCHANGED users
        \/ Put(r, [q EXCEPT !.pc = "relookup"]) /\ UNCHANGED users
        \/ /\ Holders(q.email) = {}
           /\ \E u \in Uids \ DOMAIN users :
                /\ users' = [v \in DOMAIN users \cup {u} |->
                               IF v = u THEN row ELSE users[v]]
                /\ Put(r, [q EXCEPT !.uid = u, !.user = row,
                                    !.pc = IF q.op = "Register"
                                             THEN "session" ELSE "read"])
    BY <1>1, ZenonT(40) DEF CreateUser, hash
  <2> HIDE DEF row
  <2>4. QED
    BY <1>3, <1>4, <1>5, <2>1, <2>2, <2>3, Zenon

(* An update of one row that keeps it a row, advances its version and      *)
(* keeps addresses unique.                                                 *)
LEMMA UpdateUserStep ==
  ASSUME IInv, NEW r \in Requests, UpdateUser(r)
  PROVE  IInv'
<1>1. PICK q \in Request : q = req[r] /\ ReqOK(q)
  BY DEF IInv
<1>2. q.pc = "write" /\ UNCHANGED <<sessions, tokens, proven, nextId>>
  BY <1>1 DEF UpdateUser
<1>3. /\ q.uid \in DOMAIN users /\ q.op \in Updates /\ users[q.uid] \in Row
      /\ AtMostOne(q.cur.hash)
  BY <1>1, <1>2 DEF ReqOK, Knows, Fits, WriteOK, UserPCs, IInv, StoreOK
<1>4. ASSUME UNCHANGED users, NEW p, Put(r, p), Advances(q, p)
      PROVE  IInv'
  <2>1. StoreOK' /\ StoresGrow
    BY <1>2, <1>4, NoStoreChange DEF IInv, stores
  <2>2. p \in Request
    BY <1>4 DEF Advances, Keeps
  <2>3. QED
    BY <1>1, <1>2, <1>4, <2>1, <2>2, AdvanceStep DEF UserPCs
<1>5. CASE UNCHANGED users /\ Put(r, UpdateFailed(q, "err"))
  BY <1>4, <1>5, UpdateFailedAdvances DEF Results
<1>6. CASE UNCHANGED users /\ Put(r, Conflict(q))
  BY <1>3, <1>4, <1>6, ConflictAdvances
<1>7. ASSUME NEW version, version = users[q.uid].version + 1,
             ~EmailTaken(q.cur.email, q.uid),
             users' = [users EXCEPT ![q.uid] = [q.cur EXCEPT !.version = version]],
             Put(r, Updated([q EXCEPT !.wver = version]))
      PROVE  IInv'
  <2>1. version \in Nat /\ version > users[q.uid].version
    BY <1>3, <1>7 DEF Row
  <2> DEFINE row == [q.cur EXCEPT !.version = version]
             o == [q EXCEPT !.wver = version]
  <2>2. /\ row \in Row /\ row.version = version /\ row.email = q.cur.email
        /\ row.hash = q.cur.hash
    BY <2>1 DEF Request, Row
  <2>3. /\ o \in Request /\ o.op = q.op /\ o.tok = q.tok
        /\ o.got = q.got /\ o.uid = q.uid
    BY <2>1 DEF Request
  <2>4. users' = [users EXCEPT ![q.uid] = row] /\ Put(r, Updated(o))
    BY <1>7
  <2> HIDE DEF row, o
  <2>5. /\ DOMAIN users' = DOMAIN users /\ users'[q.uid] = row
        /\ \A v \in DOMAIN users : v # q.uid => users'[v] = users[v]
    BY <1>3, <2>4
  <2>6. UniqueEmails(users')
    BY <1>7, <2>2, <2>5 DEF IInv, StoreOK, UniqueEmails, EmailTaken
  <2>7. /\ users' \in [DOMAIN users' -> Row] /\ DOMAIN users' \subseteq Uids
        /\ \A v \in DOMAIN users' : AtMostOne(users'[v].hash)
    BY <1>3, <2>2, <2>4, <2>5 DEF IInv, StoreOK
  <2>8. StoreOK'
    BY <1>2, <2>5, <2>6, <2>7 DEF IInv, StoreOK, AtMostOne, UniqueEmails
  <2>9. StoresGrow
    BY <1>2, <2>1, <2>2, <2>5 DEF IInv, StoreOK, StoresGrow
  <2>10. Advances(o, Updated(o))
    BY <2>3, UpdatedAdvances
  <2>11. PICK p \in Request : p = Updated(o)
    BY <2>10 DEF Advances, Keeps
  <2>12. Knows(p)'
    BY <1>3, <2>3, <2>5, <2>10, <2>11 DEF Knows, Advances, Keeps
  <2>13. QED
    BY <1>1, <1>2, <2>3, <2>4, <2>8, <2>9, <2>10, <2>11, <2>12, MoveStep
<1>8. QED
  BY <1>1, <1>5, <1>6, <1>7 DEF UpdateUser

(* SessionStore.DeleteUserSessions keeps the invariant.                    *)
LEMMA DeleteUserSessionsStep ==
  ASSUME IInv, NEW r \in Requests, DeleteUserSessions(r)
  PROVE  IInv'
<1>1. PICK q \in Request : q = req[r] /\ ReqOK(q)
  BY DEF IInv
<1>2. /\ q.pc = "revoke" /\ sessions' \subseteq sessions
      /\ UNCHANGED <<users, tokens, proven, nextId>>
      /\ Put(r, AfterRevoke(q))
  BY <1>1 DEF DeleteUserSessions
<1>3. StoreOK' /\ StoresGrow
  BY <1>2 DEF IInv, StoreOK, StoresGrow, UniqueEmails, AtMostOne
<1>4. Advances(q, AfterRevoke(q))
  BY AfterRevokeAdvances
<1>5. PICK p \in Request : p = AfterRevoke(q)
  BY <1>4 DEF Advances, Keeps
<1>6. QED
  BY <1>1, <1>2, <1>3, <1>4, <1>5, AdvanceStep DEF UserPCs

(* Removing tokens, and nothing else, keeps the stores well formed.        *)
LEMMA FewerTokens ==
  ASSUME StoreOK, tokens' \subseteq tokens,
         UNCHANGED <<users, sessions, proven, nextId>>
  PROVE  StoreOK' /\ StoresGrow
BY DEF StoreOK, StoresGrow, UniqueEmails, AtMostOne

(* TokenStore.DeleteUserTokens keeps the invariant.                        *)
LEMMA DeleteUserTokensStep ==
  ASSUME IInv, NEW r \in Requests, DeleteUserTokens(r)
  PROVE  IInv'
<1>1. PICK q \in Request : q = req[r] /\ ReqOK(q)
  BY DEF IInv
<1>2. /\ q.pc \in {"purgeReset", "purge2FA", "purgeMagic"}
      /\ tokens' \subseteq tokens
      /\ UNCHANGED <<users, sessions, proven, nextId>>
      /\ Put(r, AfterPurge(q))
  BY <1>1 DEF DeleteUserTokens
<1>3. StoreOK' /\ StoresGrow
  BY <1>2, FewerTokens DEF IInv
<1>4. Advances(q, AfterPurge(q))
  BY AfterPurgeAdvances
<1>5. PICK p \in Request : p = AfterPurge(q)
  BY <1>4 DEF Advances, Keeps
<1>6. QED
  BY <1>1, <1>2, <1>3, <1>4, <1>5, AdvanceStep DEF UserPCs

(* A step that moves no request keeps the invariant if it keeps the stores *)
(* well formed.                                                            *)
LEMMA NoRequestMoves ==
  ASSUME IInv, StoreOK', StoresGrow, UNCHANGED req
  PROVE  IInv'
<1>1. \A r \in Requests : ReqOK(req[r])'
  <2>1. ASSUME NEW r \in Requests
        PROVE  ReqOK(req[r])'
    <3>1. PICK q \in Request : q = req[r] /\ ReqOK(q)
      BY DEF IInv
    <3>2. ReqOK(q)'
      BY <3>1, RequestFrame DEF IInv
    <3>3. req'[r] = q
      BY <3>1
    <3>4. QED
      BY <3>2, <3>3 DEF ReqOK, Knows, Fits, WriteOK, Burned
  <2>2. QED
    BY <2>1
<1>2. TokenHandedOnce'
  BY DEF IInv, TokenHandedOnce
<1>3. QED
  BY <1>1, <1>2 DEF IInv

(* TokenStore.DeleteExpiredTokens keeps the invariant: a token that is     *)
(* gone is not handed out again either.                                    *)
LEMMA DeleteExpiredTokensStep ==
  ASSUME IInv, DeleteExpiredTokens
  PROVE  IInv'
<1>1. tokens' \subseteq tokens /\ UNCHANGED <<users, sessions, proven, nextId, req>>
  BY DEF DeleteExpiredTokens
<1>2. StoreOK' /\ StoresGrow
  BY <1>1, FewerTokens DEF IInv
<1>3. QED
  BY <1>1, <1>2, NoRequestMoves

(* SessionStore.DeleteSession keeps the invariant.                         *)
LEMMA DeleteSessionStep ==
  ASSUME IInv, NEW r \in Requests, DeleteSession(r)
  PROVE  IInv'
<1>1. PICK q \in Request : q = req[r] /\ ReqOK(q)
  BY DEF IInv
<1>2. /\ q.pc = "delete" /\ sessions' \subseteq sessions
      /\ UNCHANGED <<users, tokens, proven, nextId>>
      /\ \E p \in {Gone(q), [q EXCEPT !.pc = "load"], Done(q, "ok")} : Put(r, p)
  BY <1>1 DEF DeleteSession
<1>3. StoreOK' /\ StoresGrow
  BY <1>2 DEF IInv, StoreOK, StoresGrow, UniqueEmails, AtMostOne
<1>4. PICK p \in {Gone(q), [q EXCEPT !.pc = "load"], Done(q, "ok")} : Put(r, p)
  BY <1>2
<1>5. Advances(q, p)
  BY <1>4, GoneAdvances, GoTo, DoneAdvances, Zenon DEF Results
<1>6. p \in Request
  BY <1>5 DEF Advances, Keeps
<1>7. QED
  BY <1>1, <1>2, <1>3, <1>4, <1>5, <1>6, AdvanceStep DEF UserPCs

(* SessionStore.CreateSession keeps the invariant.                         *)
LEMMA CreateSessionStep ==
  ASSUME IInv, NEW r \in Requests, CreateSession(r)
  PROVE  IInv'
<1>1. PICK q \in Request : q = req[r] /\ ReqOK(q)
  BY DEF IInv
<1>2. /\ q.pc = "session" /\ nextId' = nextId + 1 /\ nextId \in Nat
      /\ UNCHANGED <<users, tokens, proven>>
      /\ Put(r, Done(q, "ok"))
  BY <1>1 DEF CreateSession, IInv, StoreOK
<1>3. q.uid \in DOMAIN users /\ q.uid \in Uids /\ q.op \in Flows
      /\ users[q.uid].version \in Nat /\ q.root \in Nat
  BY <1>1, <1>2 DEF ReqOK, Knows, Fits, UserPCs, IInv, StoreOK, Row, Request
<1>4. PICK x : /\ x = [id |-> nextId, uid |-> q.uid, born |-> users[q.uid].version,
                       root |-> IF q.op = "RefreshSession" THEN q.root ELSE nextId,
                       via |-> q.op]
               /\ sessions' = sessions \cup {x}
  BY <1>1, Zenon DEF CreateSession
<1>5. x \in Session /\ x.uid \in DOMAIN users
  BY <1>2, <1>3, <1>4 DEF Session
<1>6. StoreOK' /\ StoresGrow
  BY <1>2, <1>4, <1>5, SMT, SMTT(30) DEF IInv, StoreOK, StoresGrow, UniqueEmails, AtMostOne, Token
<1>7. Advances(q, Done(q, "ok"))
  BY DoneAdvances DEF Results
<1>8. PICK p \in Request : p = Done(q, "ok")
  BY <1>7 DEF Advances, Keeps
<1>9. QED
  BY <1>1, <1>2, <1>6, <1>7, <1>8, AdvanceStep DEF UserPCs

(* Storing a token under an id of its own keeps the stores well formed.    *)
LEMMA StoreToken ==
  ASSUME StoreOK, NEW S \in SUBSET tokens, NEW t \in Token,
         tokens' = S \cup {t}, UNCHANGED <<users, sessions>>,
         nextId' \in Nat, nextId' >= nextId, t.id < nextId',
         proven' \subseteq Emails,
         \A v \in S : v.id # t.id,
         t.uid \subseteq DOMAIN users,
         (t.uid = {} \/ t.purpose \in {"email_verification", "email_change"}) =>
           \E e \in Emails : t.email = {e}
  PROVE  StoreOK'
<1>1. ASSUME NEW v \in tokens'
      PROVE  /\ v \in Token /\ v.id < nextId' /\ v.uid \subseteq DOMAIN users'
             /\ (v.uid = {} \/ v.purpose \in {"email_verification", "email_change"}) =>
                  \E e \in Emails : v.email = {e}
  <2>1. CASE v = t
    BY <2>1
  <2>2. CASE v \in S
    <3>1. v \in Token /\ v.id < nextId /\ nextId \in Nat
      BY <2>2 DEF StoreOK
    <3>2. v.id \in Nat
      BY <3>1 DEF Token
    <3>3. v.id < nextId'
      BY <3>1, <3>2
    <3>4. QED
      BY <2>2, <3>1, <3>3 DEF StoreOK
  <2>3. QED
    BY <2>1, <2>2
<1>2. \A v, w \in tokens' : v.id = w.id => v = w
  <2>1. \A v, w \in S : v.id = w.id => v = w
    BY DEF StoreOK
  <2>2. QED
    BY <2>1
<1>3. tokens' \subseteq Token
  BY <1>1
<1>4. QED
  BY <1>1, <1>2, <1>3 DEF StoreOK, UniqueEmails, AtMostOne

(* TokenStore.CreateToken keeps the invariant: its id is new.              *)
LEMMA CreateTokenStep ==
  ASSUME IInv, NEW r \in Requests, CreateToken(r)
  PROVE  IInv'
<1>1. PICK q \in Request : q = req[r] /\ ReqOK(q)
  BY DEF IInv
<1>2. /\ q.pc = "token" /\ nextId' = nextId + 1 /\ nextId \in Nat
      /\ UNCHANGED <<users, sessions, proven>>
      /\ Put(r, Done(q, "ok"))
  BY <1>1 DEF CreateToken, IInv, StoreOK
<1>3. /\ ~q.nil => /\ q.uid \in DOMAIN users /\ q.uid \in Uids
                   /\ users[q.uid].version \in Nat
      /\ q.nil \in BOOLEAN /\ q.email \in Emails /\ q.user.hash \in SUBSET Hash
  BY <1>1, <1>2 DEF ReqOK, Knows, IInv, StoreOK, Row, Request
<1> DEFINE owner == IF q.nil THEN {} ELSE {q.uid}
           bound == IF q.nil \/ q.op \in BoundToEmail THEN {q.email} ELSE {}
           born == IF q.nil THEN 0 ELSE users[q.uid].version
           box == IF Issues(q.op) = "two_factor" THEN {} ELSE {q.email}
           ag == IF q.op = "Login" THEN q.user.hash ELSE {}
<1>4. /\ owner \in SUBSET Uids /\ owner \subseteq DOMAIN users
      /\ bound \in SUBSET Emails /\ born \in Nat
      /\ box \in SUBSET Emails /\ ag \in SUBSET Hash
  BY <1>3
<1>5. Issues(q.op) \in Purposes
  BY DEF Issues, Purposes
<1>6. owner = {} \/ Issues(q.op) \in {"email_verification", "email_change"} =>
        \E e \in Emails : bound = {e}
  BY <1>3 DEF Issues, BoundToEmail
<1>7. PICK t : /\ t = [id |-> nextId, purpose |-> Issues(q.op), used |-> FALSE,
                       uid |-> owner, email |-> bound, born |-> born,
                       mailbox |-> box, against |-> ag]
               /\ tokens' = tokens \cup {t}
  BY <1>1, Zenon DEF CreateToken
<1> HIDE DEF owner, bound, born, box, ag
<1>8. /\ t \in Token /\ t.id = nextId /\ t.uid \subseteq DOMAIN users
      /\ (t.uid = {} \/ t.purpose \in {"email_verification", "email_change"}) =>
           \E e \in Emails : t.email = {e}
  BY <1>2, <1>4, <1>5, <1>6, <1>7 DEF Token
<1>9. \A v \in tokens : v.id \in Nat /\ v.id < nextId
  BY DEF IInv, StoreOK, Token
<1>10. StoreOK' /\ StoresGrow
  <2>1. nextId' \in Nat /\ nextId' >= nextId /\ t.id < nextId'
    BY <1>2, <1>8
  <2>2. proven' \subseteq Emails /\ \A v \in tokens : v.id # t.id
    BY <1>2, <1>8, <1>9 DEF IInv, StoreOK
  <2>3. StoreOK'
    BY <1>2, <1>7, <1>8, <2>1, <2>2, StoreToken, Zenon DEF IInv
  <2>4. StoresGrow
    BY <1>2, <1>7, <1>8, <1>9 DEF IInv, StoreOK, StoresGrow
  <2>5. QED
    BY <2>3, <2>4
<1>11. Advances(q, Done(q, "ok")) /\ Done(q, "ok").pc = "done"
  BY DoneAdvances DEF Results
<1>12. PICK p \in Request : p = Done(q, "ok")
  BY <1>11 DEF Advances, Keeps
<1>13. QED
  BY <1>1, <1>2, <1>10, <1>11, <1>12, AdvanceStep

(* What a flow does with the token it is handed: it has it, it has not     *)
(* reached a write, and if it goes on it is about the token's owner.       *)
LEMMA ConsumedRequest ==
  ASSUME NEW q \in Request, NEW t \in Token, NEW u \in Uids,
         t.purpose = Redeems(q.op),
         t.purpose \in {"email_verification", "email_change"} =>
           \E e \in Emails : t.email = {e}
  PROVE  LET p == Consumed(q, t, u)
         IN  /\ p \in Request /\ p.got = TRUE /\ p.tok = q.tok /\ p.op = q.op
             /\ p.pc \in {"read", "load"} => p.uid = u
             /\ \/ p.pc \in {"load", "done"}
                \/ p.pc = "read" /\ p.op \in Updates
             /\ p.pc = "done" => p.uid = q.uid
<1>1. "read" \in PCs /\ "load" \in PCs
  BY DEF PCs
<1>2. CASE q.op = "ResetPassword"
  <2>1. Consumed(q, t, u) = [q EXCEPT !.got = TRUE, !.uid = u, !.pc = "read"]
    BY <1>2 DEF Consumed
  <2>2. QED
    BY <1>1, <1>2, <2>1, ZenonT(30) DEF Request, Updates, SetsPassword
<1>3. CASE q.op \in {"VerifyEmail", "ConfirmEmailChange"}
  <2>1. PICK e \in Emails : t.email = {e}
    BY <1>3 DEF Redeems
  <2>2. Only(t.email) = e
    BY <2>1, OnlySingleton, Zenon
  <2>3. PICK pc \in {"read", "load"} :
          /\ Consumed(q, t, u) = [q EXCEPT !.got = TRUE, !.uid = u, !.pc = pc,
                                           !.email = e]
          /\ pc = "read" => q.op = "ConfirmEmailChange"
    BY <1>3, <2>2 DEF Consumed
  <2>4. PICK p : p = [q EXCEPT !.got = TRUE, !.uid = u, !.pc = pc, !.email = e]
    OBVIOUS
  <2>5. /\ p \in Request /\ p.got = TRUE /\ p.tok = q.tok /\ p.op = q.op
        /\ p.uid = u /\ p.pc = pc
    <3>1. pc \in PCs
      BY <1>1
    <3>2. QED
      BY <2>4, <3>1, Zenon DEF Request
  <2>6. pc = "read" => q.op \in Updates
    BY <2>3 DEF Updates, SetsPassword
  <2>7. p = Consumed(q, t, u)
    BY <2>3, <2>4
  <2>8. QED
    BY <2>5, <2>6, <2>7
<1>4. CASE q.op \notin {"ResetPassword", "VerifyEmail", "ConfirmEmailChange"}
  <2>1. \/ Consumed(q, t, u) = [q EXCEPT !.got = TRUE, !.uid = u, !.pc = "load"]
        \/ Consumed(q, t, u) = Done([q EXCEPT !.got = TRUE], "err")
    BY <1>4 DEF Consumed
  <2>2. CASE Consumed(q, t, u) = [q EXCEPT !.got = TRUE, !.uid = u, !.pc = "load"]
    BY <1>1, <2>2, ZenonT(30) DEF Request
  <2>3. CASE Consumed(q, t, u) = Done([q EXCEPT !.got = TRUE], "err")
    <3>1. PICK o : o = [q EXCEPT !.got = TRUE]
      BY Zenon
    <3>2. /\ o \in Request /\ o.got = TRUE /\ o.tok = q.tok /\ o.op = q.op
          /\ o.uid = q.uid
      BY <3>1, ZenonT(40) DEF Request
    <3>3. Advances(o, Done(o, "err")) /\ Done(o, "err").pc = "done"
      BY <3>2, DoneAdvances DEF Results
    <3>4. Consumed(q, t, u) = Done(o, "err")
      BY <2>3, <3>1
    <3>5. QED
      BY <3>2, <3>3, <3>4 DEF Advances, Keeps
  <2>4. QED
    BY <2>1, <2>2, <2>3, Zenon
<1>5. QED
  BY <1>2, <1>3, <1>4, Zenon

(* TokenStore.ConsumeToken hands a token that is not burned, and so one    *)
(* that no request was handed before, and burns it.                        *)
LEMMA ConsumeTokenStep ==
  ASSUME IInv, NEW r \in Requests, ConsumeToken(r)
  PROVE  IInv'
<1>1. PICK q \in Request : q = req[r] /\ ReqOK(q)
  BY DEF IInv
<1>2. q.pc = "consume" /\ UNCHANGED <<users, sessions, nextId>>
  BY <1>1, Zenon DEF ConsumeToken
<1>3. ASSUME NEW p \in Request, Put(r, p), StoreOK', StoresGrow,
             p.op = q.op, p.tok = q.tok,
             p.pc \in UserPCs \/ p.op = "ChangeEmail" => p.uid \in DOMAIN users,
             p.pc \in {"load", "read", "lookup", "done"},
             p.pc = "read" => p.op \in Updates,
             p.pc # "done" => p.got,
             p.got => /\ \A s \in Requests : s # r /\ req[s].got => req[s].tok # p.tok
                      /\ p.tok < nextId
                      /\ \A t \in tokens' : t.id = p.tok => t.used
      PROVE  IInv'
  <2>1. Knows(p)'
    BY <1>2, <1>3 DEF Knows
  <2>2. Fits(p)'
    BY <1>1, <1>2, <1>3 DEF ReqOK, Fits
  <2>3. WriteOK(p)' /\ Burned(p)'
    BY <1>2, <1>3 DEF WriteOK, Burned
  <2>4. QED
    BY <1>3, <2>1, <2>2, <2>3, RequestStep DEF ReqOK
<1>4. CASE Put(r, Done(q, "err")) /\ UNCHANGED <<tokens, proven>>
  <2>1. StoreOK' /\ StoresGrow
    BY <1>2, <1>4, NoStoreChange DEF IInv, stores
  <2>2. Advances(q, Done(q, "err")) /\ Done(q, "err").pc = "done"
    BY DoneAdvances DEF Results
  <2>3. PICK p \in Request : p = Done(q, "err")
    BY <2>2 DEF Advances, Keeps
  <2>4. /\ p.op = q.op /\ p.tok = q.tok /\ p.uid = q.uid /\ p.got = q.got
        /\ p.pc = "done"
    BY <2>2, <2>3 DEF Advances, Keeps
  <2>5. p.op = "ChangeEmail" => p.uid \in DOMAIN users
    BY <1>1, <2>4 DEF ReqOK, Knows
  <2>6. p.got => /\ \A s \in Requests : s # r /\ req[s].got => req[s].tok # p.tok
                 /\ p.tok < nextId
                 /\ \A t \in tokens' : t.id = p.tok => t.used
    BY <1>1, <1>4, <2>4, Zenon DEF IInv, TokenHandedOnce, ReqOK, Burned
  <2>7. QED
    BY <1>3, <1>4, <2>1, <2>3, <2>4, <2>5, <2>6 DEF UserPCs
<1>5. ASSUME NEW t \in Live(q), NEW box,
             box = {} \/ box = t.mailbox,
             tokens' = (tokens \ {t}) \cup {[t EXCEPT !.used = TRUE]},
             proven' = proven \cup box
      PROVE  /\ t \in Token /\ t.id = q.tok /\ t.purpose = Redeems(q.op)
             /\ t.uid \subseteq DOMAIN users
             /\ (t.uid = {} \/ t.purpose \in {"email_verification", "email_change"}) =>
                  \E e \in Emails : t.email = {e}
             /\ StoreOK' /\ StoresGrow
             /\ \A s \in Requests : req[s].got => req[s].tok # q.tok
             /\ q.tok < nextId
             /\ \A v \in tokens' : v.id = q.tok => v.used
  <2>1. /\ t \in tokens /\ t \in Token /\ t.id = q.tok /\ ~t.used
        /\ t.purpose = Redeems(q.op) /\ t.id < nextId
        /\ t.uid \subseteq DOMAIN users
        /\ (t.uid = {} \/ t.purpose \in {"email_verification", "email_change"}) =>
             \E e \in Emails : t.email = {e}
    BY <1>5 DEF Live, IInv, StoreOK
  <2>2. PICK b : /\ b = [t EXCEPT !.used = TRUE] /\ b \in Token /\ b.id = t.id
                 /\ b.used = TRUE /\ b.uid = t.uid /\ b.purpose = t.purpose
                 /\ b.email = t.email
    <3>1. PICK b : b = [t EXCEPT !.used = TRUE]
      BY Zenon
    <3>2. b \in Token
      BY <2>1, <3>1, Zenon DEF Token
    <3>3. /\ b.id = t.id /\ b.used = TRUE /\ b.uid = t.uid
          /\ b.purpose = t.purpose /\ b.email = t.email
      BY <2>1, <3>1 DEF Token
    <3>4. QED
      BY <3>1, <3>2, <3>3, Zenon
  <2>3. tokens' = (tokens \ {t}) \cup {b}
    BY <1>5, <2>2
  <2>4. box \subseteq Emails
    <3>1. t.mailbox \subseteq Emails
      BY <2>1 DEF Token
    <3>2. QED
      BY <1>5, <3>1
  <2>5. proven' \subseteq Emails
    BY <1>5, <2>4 DEF IInv, StoreOK
  <2>6. nextId \in Nat /\ \A v \in tokens \ {t} : v.id # b.id
    BY <2>1, <2>2 DEF IInv, StoreOK
  <2>7. StoreOK'
    <3>1. PICK S \in SUBSET tokens : S = tokens \ {t}
      BY Zenon
    <3>2. nextId' \in Nat /\ nextId' >= nextId /\ b.id < nextId'
      BY <1>2, <2>1, <2>2, <2>6
    <3>3. UNCHANGED <<users, sessions>> /\ tokens' = S \cup {b}
      BY <1>2, <2>3, <3>1
    <3>4. /\ b \in Token /\ b.uid \subseteq DOMAIN users
          /\ \A v \in S : v.id # b.id
          /\ (b.uid = {} \/ b.purpose \in {"email_verification", "email_change"}) =>
               \E e \in Emails : b.email = {e}
      BY <2>1, <2>2, <2>6, <3>1
    <3>5. StoreOK
      BY DEF IInv
    <3>6. QED
      BY <2>5, <3>2, <3>3, <3>4, <3>5, StoreToken, Zenon
  <2>8. StoresGrow
    <3>1. ASSUME NEW v \in tokens'
          PROVE  \E s \in tokens : s.id = v.id /\ (s.used => v.used)
      BY <2>1, <2>2, <2>3, Zenon
    <3>2. UNCHANGED <<users, nextId>> /\ nextId' >= nextId
      BY <1>2, <2>6
    <3>3. QED
      BY <3>1, <3>2 DEF StoresGrow
  <2>9. \A s \in Requests : req[s].got => req[s].tok # q.tok
    BY <2>1 DEF IInv, ReqOK, Burned
  <2>10. \A v \in tokens' : v.id = q.tok => v.used
    BY <2>1, <2>2, <2>3, Zenon DEF IInv, StoreOK
  <2>11. QED
    BY <2>1, <2>7, <2>8, <2>9, <2>10
<1>6. ASSUME NEW t \in Live(q), UNCHANGED proven,
             tokens' = (tokens \ {t}) \cup {[t EXCEPT !.used = TRUE]},
             Put(r, Done([q EXCEPT !.got = TRUE], "err"))
      PROVE  IInv'
  <2>1. PICK o : o = [q EXCEPT !.got = TRUE]
    BY Zenon
  <2>2. /\ o \in Request /\ o.got = TRUE /\ o.tok = q.tok /\ o.op = q.op
        /\ o.uid = q.uid
    BY <2>1, Zenon DEF Request
  <2>3. Advances(o, Done(o, "err")) /\ Done(o, "err").pc = "done"
    BY <2>2, DoneAdvances, SMTT(30) DEF Results
  <2>4. PICK p \in Request : p = Done(o, "err")
    BY <2>3 DEF Advances, Keeps
  <2>5. /\ p.op = q.op /\ p.tok = q.tok /\ p.uid = q.uid /\ p.pc = "done"
    BY <2>2, <2>3, <2>4 DEF Advances, Keeps
  <2>6. p.op = "ChangeEmail" => p.uid \in DOMAIN users
    BY <1>1, <2>5 DEF ReqOK, Knows
  <2>7. Put(r, p) /\ proven' = proven \cup {}
    BY <1>6, <2>1, <2>4
  <2>8. /\ StoreOK' /\ StoresGrow
        /\ \A s \in Requests : req[s].got => req[s].tok # q.tok
        /\ q.tok < nextId
        /\ \A v \in tokens' : v.id = q.tok => v.used
    BY <1>5, <1>6, <2>7, Zenon
  <2>9. QED
    BY <1>3, <2>4, <2>5, <2>6, <2>7, <2>8 DEF UserPCs
<1>7. ASSUME NEW t \in Live(q), proven' = proven \cup t.mailbox,
             tokens' = (tokens \ {t}) \cup {[t EXCEPT !.used = TRUE]},
             NEW u \in t.uid, Put(r, Consumed(q, t, u))
      PROVE  IInv'
  <2>1. /\ t \in Token /\ t.purpose = Redeems(q.op) /\ t.uid \subseteq DOMAIN users
        /\ t.purpose \in {"email_verification", "email_change"} =>
             \E e \in Emails : t.email = {e}
        /\ StoreOK' /\ StoresGrow
        /\ \A s \in Requests : req[s].got => req[s].tok # q.tok
        /\ q.tok < nextId
        /\ \A v \in tokens' : v.id = q.tok => v.used
    BY <1>5, <1>7
  <2>2. u \in DOMAIN users /\ u \in Uids
    BY <1>7, <2>1 DEF IInv, StoreOK
  <2>3. PICK p : p = Consumed(q, t, u)
    OBVIOUS
  <2>4. /\ p \in Request /\ p.got = TRUE /\ p.tok = q.tok /\ p.op = q.op
        /\ p.pc \in {"read", "load"} => p.uid = u
        /\ \/ p.pc \in {"load", "done"}
           \/ p.pc = "read" /\ p.op \in Updates
        /\ p.pc = "done" => p.uid = q.uid
    BY <2>1, <2>2, <2>3, ConsumedRequest, ZenonT(30)
  <2>5. p.op = "ChangeEmail" => q.uid \in DOMAIN users
    BY <1>1, <2>4 DEF ReqOK, Knows
  <2>6. QED
    BY <1>3, <1>7, <2>1, <2>2, <2>3, <2>4, <2>5 DEF UserPCs
<1>8. ASSUME NEW t \in Live(q), proven' = proven \cup t.mailbox,
             tokens' = (tokens \ {t}) \cup {[t EXCEPT !.used = TRUE]},
             t.uid = {},
             Put(r, [q EXCEPT !.got = TRUE, !.pc = "lookup",
                              !.email = Only(t.email)])
      PROVE  IInv'
  <2>1. /\ \E e \in Emails : t.email = {e}
        /\ StoreOK' /\ StoresGrow
        /\ \A s \in Requests : req[s].got => req[s].tok # q.tok
        /\ q.tok < nextId
        /\ \A v \in tokens' : v.id = q.tok => v.used
    BY <1>5, <1>8
  <2>2. Only(t.email) \in Emails
    BY <2>1, OnlySingleton, Zenon
  <2>3. PICK p : p = [q EXCEPT !.got = TRUE, !.pc = "lookup",
                               !.email = Only(t.email)]
    OBVIOUS
  <2>4. /\ p \in Request /\ p.got = TRUE /\ p.tok = q.tok /\ p.op = q.op
        /\ p.pc = "lookup" /\ p.uid = q.uid
    BY <2>2, <2>3, Zenon DEF Request, PCs
  <2>5. p.op = "ChangeEmail" => q.uid \in DOMAIN users
    BY <1>1, <2>4 DEF ReqOK, Knows
  <2>6. QED
    BY <1>3, <1>8, <2>1, <2>3, <2>4, <2>5, Zenon DEF UserPCs
<1>9. QED
  BY <1>1, <1>4, <1>6, <1>7, <1>8, Zenon DEF ConsumeToken

-----------------------------------------------------------------------------
(* The invariant holds initially and is kept by every step.                *)

(* What earlier requests left satisfies the invariant.                     *)
LEMMA InitIInv == Init => IInv
<1> SUFFICES ASSUME Init PROVE IInv
  OBVIOUS
<1>1. PICK s \in Seeds : /\ users = s.users /\ sessions = s.sessions
                         /\ tokens = s.tokens /\ proven = s.proven
                         /\ nextId = s.nextId
  BY DEF Init
<1>2. SeedOK(s)
  BY SeedsAssumption
<1>3. \A t \in tokens :
        /\ t.id < nextId /\ t.uid \subseteq DOMAIN users
        /\ (t.uid = {} \/ t.purpose \in {"email_verification", "email_change"}) =>
             \E e \in Emails : t.email = {e}
        /\ \A v \in tokens : t.id = v.id => t = v
  BY <1>1, <1>2, SMT, SMTT(30) DEF SeedOK, TokenShape
<1>4. StoreOK
  BY <1>1, <1>2, <1>3 DEF SeedOK, StoreOK
<1>5. Idle \in Request /\ Idle.pc = "idle" /\ Idle.op = "none" /\ Idle.got = FALSE
  BY IdleType, IdleGot DEF Idle
<1>6. req \in [Requests -> Request] /\ \A r \in Requests : req[r] = Idle
  BY <1>5 DEF Init
<1>7. ReqOK(Idle)
  BY <1>5 DEF ReqOK, Knows, Fits, WriteOK, Burned, UserPCs
<1>8. TokenHandedOnce
  BY <1>5, <1>6 DEF TokenHandedOnce
<1>9. \A r \in Requests : ReqOK(req[r])
  BY <1>6, <1>7
<1>10. QED
  BY <1>4, <1>6, <1>8, <1>9 DEF IInv

(* Every step keeps the invariant.                                         *)
LEMMA NextIInv == IInv /\ [Next]_vars => IInv'
<1> SUFFICES ASSUME IInv, [Next]_vars PROVE IInv'
  OBVIOUS
<1>1. CASE UNCHANGED vars
  <2>1. UNCHANGED stores /\ UNCHANGED req
    BY <1>1 DEF vars, stores
  <2>2. QED
    BY <2>1, NoStoreChange, NoRequestMoves DEF IInv
<1>2. CASE DeleteExpiredTokens
  BY <1>2, DeleteExpiredTokensStep
<1>3. ASSUME NEW r \in Requests, Call(r) \/ StoreCall(r) \/ StoreError(r)
      PROVE  IInv'
  BY <1>3, CallStep, StoreErrorStep, GetUserByEmailStep, CreateUserStep,
     GetUserByIDStep, ReadForUpdateStep, StillFreeStep, UpdateUserStep,
     ConsumeTokenStep, CreateTokenStep, DeleteUserTokensStep,
     CreateSessionStep, DeleteSessionStep, DeleteUserSessionsStep,
     HasSecondFactorStep DEF StoreCall
<1>4. QED
  BY <1>1, <1>2, <1>3 DEF Next

(* The invariant holds in every reachable state.                           *)
LEMMA AlwaysIInv == Spec => []IInv
BY InitIInv, NextIInv, PTL DEF Spec

-----------------------------------------------------------------------------
(* The theorems.                                                           *)

(* Every row, session, token and request is well formed in every reachable *)
(* state, for any users, addresses, requests and seed: no flow stores a    *)
(* row that is not one, or goes on with an account that does not exist.    *)
THEOREM TypeCorrect == Spec => []TypeOK
<1>1. IInv => TypeOK
  BY DEF IInv, StoreOK, TypeOK
<1>2. QED
  BY <1>1, AlwaysIInv, PTL

(* No two accounts ever hold one address (the storage-layer uniqueness of  *)
(* UserStore.CreateUser and UpdateUser).                                   *)
THEOREM EmailsStayUnique == Spec => []EmailUnique
<1>1. IInv => EmailUnique
  BY DEF IInv, StoreOK, EmailUnique
<1>2. QED
  BY <1>1, AlwaysIInv, PTL

(* A token is handed to one of the requests that present it, however many  *)
(* there are and however they interleave (TokenStore.ConsumeToken under    *)
(* consumeToken).                                                          *)
THEOREM TokensHandedOnce == Spec => []TokenHandedOnce
<1>1. IInv => TokenHandedOnce
  BY DEF IInv
<1>2. QED
  BY <1>1, AlwaysIInv, PTL

(* The only step that changes a row already stored is a write whose        *)
(* compare-and-swap succeeded, and what it stores was computed from the    *)
(* very row it replaces.                                                   *)
Wrote(q, old, new) ==
  /\ q \in Request /\ old \in Row /\ q.op \in Updates
  /\ q.op = "ResetPassword" => q.got
  /\ Accepts(q, old)
  /\ Mutate(q, old) \in Row
  /\ new = [Mutate(q, old) EXCEPT !.version = old.version + 1]

(* A row that changes was written by UpdateUser, and only the writer       *)
(* moved.                                                                  *)
LEMMA RowsChangeByWrite ==
  ASSUME IInv, Next, NEW u \in DOMAIN users, users'[u] # users[u]
  PROVE  \E r \in Requests : /\ Wrote(req[r], users[u], users'[u])
                              /\ \A s \in Requests : s # r => req'[s] = req[s]
<1>1. ~DeleteExpiredTokens
  BY DEF DeleteExpiredTokens
<1>2. PICK r \in Requests : Call(r) \/ StoreCall(r) \/ StoreError(r)
  BY <1>1 DEF Next
<1>3. ~Call(r)
  BY Zenon DEF Call, Register, Login, ChangePassword, SetInitialPassword,
         CreatePasswordResetToken, ResetPassword, CreateMagicLinkToken,
         RedeemMagicLink, CreateEmailVerificationToken, VerifyEmail,
         ChangeEmail, ConfirmEmailChange, CreateTwoFactorToken,
         CompleteTwoFactor, IssueSessionUnchecked, RefreshSession,
         RevokeSession, RevokeAllSessions, DisableUser, EnableUser,
         RequestByEmail, RequestByID, Redeem, Begin, stores
<1>4. ~StoreError(r)
  BY DEF StoreError, stores
<1>5. StoreCall(r)
  BY <1>2, <1>3, <1>4, ZenonT(40)
<1>6. ~CreateUser(r)
  BY ZenonT(40) DEF CreateUser
<1>7. UpdateUser(r)
  BY <1>5, <1>6, Zenon
     DEF StoreCall, GetUserByEmail, GetUserByID, ReadForUpdate, StillFree,
         ConsumeToken, CreateToken, DeleteUserTokens, CreateSession,
         DeleteSession, DeleteUserSessions, HasSecondFactor, stores
<1>8. PICK q \in Request : q = req[r] /\ ReqOK(q)
  BY DEF IInv
<1>9. /\ q.pc = "write" /\ VersionMatches(q)
      /\ users' = [users EXCEPT ![q.uid] =
                     [q.cur EXCEPT !.version = users[q.uid].version + 1]]
      /\ \E p : Put(r, p)
  BY <1>7, <1>8 DEF UpdateUser
<1>10. u = q.uid /\ users[u] \in Row /\ AtMostOne(users[u].hash)
  BY <1>9 DEF IInv, StoreOK
<1>11. /\ q.op \in Updates /\ (q.op = "ResetPassword" => q.got)
       /\ Accepts(q, users[u]) /\ q.cur = Mutate(q, users[u])
  BY <1>8, <1>9, <1>10 DEF ReqOK, Fits, WriteOK, VersionMatches
<1>12. Mutate(q, users[u]) \in Row
  BY <1>10, <1>11, MutateType
<1>13. users'[u] = [Mutate(q, users[u]) EXCEPT !.version = users[u].version + 1]
  BY <1>9, <1>10, <1>11
<1>14. \A s \in Requests : s # r => req'[s] = req[s]
  BY <1>9 DEF Put, IInv
<1>15. QED
  BY <1>8, <1>10, <1>11, <1>12, <1>13, <1>14, Zenon DEF Wrote

(* Whatever a write leaves alone, it leaves as it was in the row it        *)
(* replaces.                                                               *)
LEMMA WroteHash ==
  ASSUME NEW q, NEW old, NEW new, Wrote(q, old, new), new.hash # old.hash
  PROVE  MayReplaceHash(q, old.hash, new.hash)
<1>1. new.hash = Mutate(q, old).hash
  BY DEF Wrote, Row
<1>2. CASE q.op = "Login"
  <2>1. Mutate(q, old) = [old EXCEPT !.hash = Rehashed(old.hash)]
    BY <1>2 DEF Mutate, SetsPassword, Stamps
  <2>2. Mutate(q, old).hash = Rehashed(old.hash)
    BY <2>1 DEF Wrote, Row
  <2>3. QED
    BY <1>1, <1>2, <2>2 DEF MayReplaceHash
<1>3. CASE q.op \in SetsPassword
  BY <1>3 DEF Wrote, Accepts, verifyOld, Passwordless, SetsPassword, MayReplaceHash
<1>4. CASE q.op \notin SetsPassword \cup {"Login"}
  <2>1. Mutate(q, old).hash = old.hash
    BY <1>4 DEF Mutate, Stamped, Staged, Swapped,
     Disabled, Enabled, Stamps, Wrote, Row
  <2>2. QED
    BY <1>1, <2>1
<1>5. QED
  BY <1>2, <1>3, <1>4

(* Likewise the disabled mark, the verification and the address.           *)
LEMMA WroteRest ==
  ASSUME NEW q, NEW old, NEW new, Wrote(q, old, new)
  PROVE  /\ new.disabled # old.disabled => q.op \in {"DisableUser", "EnableUser"}
         /\ old.verified => new.verified
         /\ new.email # old.email => old.pending = {new.email}
<1>1. /\ new.disabled = Mutate(q, old).disabled
      /\ new.verified = Mutate(q, old).verified
      /\ new.email = Mutate(q, old).email
  BY DEF Wrote, Row
<1>2. CASE q.op = "Login"
  BY <1>1, <1>2 DEF Mutate, SetsPassword, Stamps, Wrote, Row
<1>3. CASE q.op \in SetsPassword
  BY <1>1, <1>3 DEF Mutate, SetsPassword, Stamps, Wrote, Row
<1>4. CASE q.op \in Stamps
  BY <1>1, <1>4 DEF Mutate, Stamped, SetsPassword, Stamps, Wrote, Row
<1>5. CASE q.op = "ChangeEmail"
  BY <1>1, <1>5 DEF Mutate, Staged, SetsPassword, Stamps, Wrote, Row
<1>6. CASE q.op = "ConfirmEmailChange"
  <2>1. old.pending = {q.email}
    BY <1>6 DEF Wrote, Accepts, StillStaged
  <2>2. Only(old.pending) = q.email
    BY <2>1, OnlySingleton
  <2>3. Mutate(q, old) = [old EXCEPT !.email = q.email, !.pending = {}, !.verified = TRUE]
    BY <1>6, <2>2 DEF Mutate, Swapped, SetsPassword, Stamps
  <2>4. QED
    BY <1>1, <2>1, <2>3 DEF Wrote, Row
<1>7. CASE q.op \in {"DisableUser", "EnableUser"}
  BY <1>1, <1>7, Zenon DEF Mutate, Disabled, Enabled, SetsPassword, Stamps, Wrote, Row
<1>8. QED
  BY <1>2, <1>3, <1>4, <1>5, <1>6, <1>7 DEF Wrote, Updates, SetsPassword, Stamps

(* A stored password is replaced only by a request whose check was made    *)
(* against that very password, or that spent a reset token: the guards of  *)
(* ChangePassword, SetInitialPassword and rehashPassword are re-run inside *)
(* updateUserWithRetry, on the row the write replaces.                     *)
THEOREM PasswordsReplacedOnProof == Spec => PasswordReplacedOnProof
<1>1. ASSUME IInv, Next, NEW u \in DOMAIN users, users'[u].hash # users[u].hash,
             NEW r \in Requests, req'[r] # req[r]
      PROVE  MayReplaceHash(req[r], users[u].hash, users'[u].hash)
  BY <1>1, RowsChangeByWrite, WroteHash
<1>2. IInv /\ [Next]_vars =>
        [\A u \in DOMAIN users : users'[u].hash # users[u].hash =>
           \A r \in Requests : req'[r] # req[r] =>
             MayReplaceHash(req[r], users[u].hash, users'[u].hash)]_users
  BY <1>1 DEF vars
<1>3. QED
  BY <1>2, AlwaysIInv, PTL DEF Spec, PasswordReplacedOnProof

(* No flow that rewrites the whole row takes back what another wrote: the  *)
(* disabled mark, a verification, or a staged address that superseded the  *)
(* one it confirms.                                                        *)
THEOREM UpdatesNeverLost == Spec => NoLostUpdate
<1>1. ASSUME IInv, Next, NEW u \in DOMAIN users
      PROVE  /\ users'[u].disabled # users[u].disabled =>
                  \A r \in Requests : req'[r] # req[r] =>
                    req[r].op \in {"DisableUser", "EnableUser"}
             /\ users[u].verified => users'[u].verified
             /\ users'[u].email # users[u].email =>
                  users[u].pending = {users'[u].email}
  <2>1. CASE users'[u] = users[u]
    BY <2>1
  <2>2. CASE users'[u] # users[u]
    BY <1>1, <2>2, RowsChangeByWrite, WroteRest, SMT, SMTT(30)
  <2>3. QED
    BY <2>1, <2>2
<1>2. IInv /\ [Next]_vars =>
        [\A u \in DOMAIN users :
           /\ users'[u].disabled # users[u].disabled =>
                \A r \in Requests : req'[r] # req[r] =>
                  req[r].op \in {"DisableUser", "EnableUser"}
           /\ users[u].verified => users'[u].verified
           /\ users'[u].email # users[u].email =>
                users[u].pending = {users'[u].email}]_users
  BY <1>1 DEF vars
<1>3. QED
  BY <1>2, AlwaysIInv, PTL DEF Spec, NoLostUpdate

-----------------------------------------------------------------------------
(* The invariant KInv: who beat a request that is retrying.                *)

(* Before its first attempt to write.                                      *)
Early == {"idle", "lookup", "relookup", "create", "consume", "load", "delete"}

Attempt == {"read", "taken", "write"}

(* Request a has written account u, by version v.                          *)
Won(a, u, v) == req[a].uid = u /\ req[a].wver > 0 /\ req[a].wver <= v

(* At least n requests have, each at a version of its own.                 *)
BeatenBy(n, u, v) ==
  /\ n < 3
  /\ n >= 1 => \E a \in Requests : Won(a, u, v)
  /\ n >= 2 => \E a, b \in Requests :
                 Won(a, u, v) /\ Won(b, u, v) /\ req[a].wver < req[b].wver

BeatenThrice(u) ==
  \E a, b, c \in Requests :
    /\ req[a].uid = u /\ req[b].uid = u /\ req[c].uid = u
    /\ 0 < req[a].wver /\ req[a].wver < req[b].wver /\ req[b].wver < req[c].wver

(* The version its next attempt starts from.                               *)
Start(q) == IF q.pc = "read" THEN users[q.uid].version ELSE q.cur.version

Beaten(q) ==
  /\ q.pc # "done" => q.res = "none"
  /\ q.pc \in Early => q.tries = 0
  /\ q.pc \in Early \cup Attempt => q.wver = 0
  /\ q.pc \in Attempt => BeatenBy(q.tries, q.uid, Start(q))
  /\ q.pc \in {"taken", "write"} /\ q.cur.version # users[q.uid].version =>
       \E a \in Requests : req[a].uid = q.uid /\ req[a].wver = users[q.uid].version
  /\ q.res = "conflict" => BeatenThrice(q.uid)

KInv == \A r \in Requests : Beaten(req[r])

-----------------------------------------------------------------------------
(* The tails of the flows, once more: a step other than an attempt counts  *)
(* no attempt, gives up on none, and starts one only early in a flow.      *)

Passes(q, p) ==
  /\ p.tries = q.tries /\ p.wver = q.wver
  /\ p.res # "conflict" /\ (p.pc # "done" => p.res = "none")
  /\ p.pc \notin {"taken", "write"}
  /\ p.pc \in Early \cup {"read"} => q.pc \in Early
  /\ q.wver > 0 => p.uid = q.uid

(* Going on to another store call.                                         *)
LEMMA GoPasses ==
  ASSUME NEW q \in Request, q.res = "none", NEW pc \in PCs \ {"taken", "write"},
         pc \in Early \cup {"read"} => q.pc \in Early
  PROVE  Passes(q, [q EXCEPT !.pc = pc])
BY DEF Passes, Request

(* Returning.                                                              *)
LEMMA DonePasses ==
  ASSUME NEW q \in Request, NEW res \in {"ok", "err"}
  PROVE  Passes(q, Done(q, res))
BY DEF Passes, Done, Request, Early

(* completeFirstFactor.                                                    *)
LEMMA FirstFactorPasses ==
  ASSUME NEW q \in Request, q.res = "none"
  PROVE  Passes(q, completeFirstFactor(q))
BY GoPasses, DonePasses DEF completeFirstFactor, PCs, Early

(* VerifyPassword, on the row just looked up.                              *)
LEMMA VerifyPasswordPasses ==
  ASSUME NEW q \in Request, q.res = "none", q.pc \in Early
  PROVE  Passes(q, VerifyPassword(q))
BY GoPasses, DonePasses, FirstFactorPasses DEF VerifyPassword, PCs

(* What follows stampEmailVerified.                                        *)
LEMMA AfterStampPasses ==
  ASSUME NEW q \in Request, q.res = "none"
  PROVE  Passes(q, AfterStamp(q))
BY DonePasses, FirstFactorPasses DEF AfterStamp

(* stampEmailVerified, on the row just loaded.                             *)
LEMMA StampPasses ==
  ASSUME NEW q \in Request, q.res = "none", q.pc \in Early
  PROVE  Passes(q, stampEmailVerified(q))
BY GoPasses, AfterStampPasses DEF stampEmailVerified, PCs

(* updateUserWithRetry returning an error of the store.                    *)
LEMMA UpdateFailedPasses ==
  ASSUME NEW q \in Request, q.res = "none"
  PROVE  Passes(q, UpdateFailed(q, "err"))
BY DonePasses, FirstFactorPasses DEF UpdateFailed

(* A mutate closure refusing the row.                                      *)
LEMMA RefusedPasses ==
  ASSUME NEW q \in Request, q.res = "none"
  PROVE  Passes(q, Refused(q))
BY GoPasses, UpdateFailedPasses DEF Refused, PCs, Early

(* What follows a revocation of sessions.                                  *)
LEMMA AfterRevokePasses ==
  ASSUME NEW q \in Request, q.res = "none"
  PROVE  Passes(q, AfterRevoke(q))
BY GoPasses, DonePasses, AfterStampPasses
   DEF AfterRevoke, PCs, Early, SetsPassword, Stamps

(* What follows a purge of tokens.                                         *)
LEMMA AfterPurgePasses ==
  ASSUME NEW q \in Request, q.res = "none"
  PROVE  Passes(q, AfterPurge(q))
BY GoPasses, DonePasses DEF AfterPurge, PCs, Early

(* GetUserByEmail finding nobody.                                          *)
LEMMA NotFoundPasses ==
  ASSUME NEW q \in Request, q.res = "none", q.pc \in Early
  PROVE  Passes(q, NotFound(q))
<1>1. CASE q.op = "CreateMagicLinkToken"
  <2>1. NotFound(q) = [q EXCEPT !.pc = "token", !.nil = TRUE]
    BY <1>1 DEF NotFound
  <2>2. Passes(q, [q EXCEPT !.pc = "token", !.nil = TRUE])
    BY DEF Passes, Request, Early
  <2>3. QED
    BY <2>1, <2>2
<1>2. CASE q.op # "CreateMagicLinkToken"
  BY <1>2, GoPasses, DonePasses DEF NotFound, PCs
<1>3. QED
  BY <1>1, <1>2

-----------------------------------------------------------------------------
(* What any step does to what the invariant speaks of.                     *)

(* Who wrote stays, and a version moves only with a request that wrote it. *)
Recorded ==
  /\ \A s \in Requests :
       req[s].wver > 0 => req'[s].uid = req[s].uid /\ req'[s].wver = req[s].wver
  /\ \A u \in DOMAIN users :
       /\ u \in DOMAIN users' /\ users'[u].version >= users[u].version
       /\ users'[u].version # users[u].version =>
            \E a \in Requests : req'[a].uid = u /\ req'[a].wver = users'[u].version

(* Having been beaten is for good.                                         *)
LEMMA BeatenByFrame ==
  ASSUME IInv, Recorded, NEW n \in Nat, NEW u, NEW v \in Nat, NEW w \in Nat,
         v <= w, BeatenBy(n, u, v)
  PROVE  BeatenBy(n, u, w)'
<1>1. \A a \in Requests : Won(a, u, v) => Won(a, u, w)' /\ req'[a].wver = req[a].wver
  <2>1. \A a \in Requests : req[a].wver \in Nat
    BY DEF IInv, Request
  <2>2. QED
    BY <2>1 DEF Recorded, Won
<1>2. QED
  BY <1>1 DEF BeatenBy

(* A request that does not move keeps its part.                            *)
LEMMA BeatenFrame ==
  ASSUME IInv, IInv', Recorded, NEW q \in Request, ReqOK(q), Beaten(q)
  PROVE  Beaten(q)'
<1>1. /\ q.tries \in Nat /\ q.cur.version \in Nat
      /\ \A a \in Requests : req[a].wver \in Nat
      /\ \A u \in DOMAIN users : users[u].version \in Nat /\ users'[u].version \in Nat
  <2>1. \A u \in DOMAIN users : users[u] \in Row /\ users'[u] \in Row
    BY DEF IInv, StoreOK, Recorded
  <2>2. q.cur \in Row /\ q.tries \in Nat /\ \A a \in Requests : req[a] \in Request
    BY DEF IInv, Request
  <2>3. QED
    BY <2>1, <2>2 DEF Row, Request
<1>2. q.pc \in Attempt => q.uid \in DOMAIN users
  BY DEF ReqOK, Knows, UserPCs, Attempt
<1>3. q.pc \in Attempt => BeatenBy(q.tries, q.uid, Start(q))'
  <2> SUFFICES ASSUME q.pc \in Attempt PROVE BeatenBy(q.tries, q.uid, Start(q))'
    OBVIOUS
  <2>1. /\ Start(q) \in Nat /\ Start(q)' \in Nat /\ Start(q) <= Start(q)'
    BY <1>1, <1>2, SMT, SMTT(30) DEF Start, Recorded
  <2>2. PICK v \in Nat, w \in Nat : v = Start(q) /\ w = Start(q)'
    BY <2>1
  <2>3. BeatenBy(q.tries, q.uid, w)'
    BY <1>1, <2>1, <2>2, BeatenByFrame DEF Beaten
  <2>4. QED
    BY <2>2, <2>3 DEF BeatenBy, Won
<1>4. ASSUME q.pc \in {"taken", "write"}, q.cur.version # users'[q.uid].version
      PROVE  \E a \in Requests : req'[a].uid = q.uid /\ req'[a].wver = users'[q.uid].version
  <2>1. q.cur.version <= users[q.uid].version /\ q.uid \in DOMAIN users
    BY <1>2, <1>4 DEF ReqOK, WriteOK, Attempt
  <2>2. CASE users'[q.uid].version # users[q.uid].version
    BY <2>1, <2>2 DEF Recorded
  <2>3. CASE users'[q.uid].version = users[q.uid].version
    <3>1. PICK a \in Requests : req[a].uid = q.uid /\ req[a].wver = users[q.uid].version
      BY <1>4, <2>3 DEF Beaten
    <3>2. req[a].wver > 0
      BY <1>1, <1>4, <2>1, <2>3, <3>1, SMT, SMTT(30)
    <3>3. QED
      BY <2>3, <3>1, <3>2 DEF Recorded
  <2>4. QED
    BY <2>2, <2>3
<1>5. BeatenThrice(q.uid) => BeatenThrice(q.uid)'
  <2>1. ASSUME NEW a \in Requests, NEW b \in Requests, NEW c \in Requests,
               req[a].uid = q.uid, req[b].uid = q.uid, req[c].uid = q.uid,
               0 < req[a].wver, req[a].wver < req[b].wver, req[b].wver < req[c].wver
        PROVE  BeatenThrice(q.uid)'
    <3>1. req[b].wver > 0 /\ req[c].wver > 0
      BY <1>1, <2>1, SMT, SMTT(30)
    <3>2. \A s \in {a, b, c} : req'[s].uid = req[s].uid /\ req'[s].wver = req[s].wver
      BY <2>1, <3>1 DEF Recorded
    <3>3. QED
      BY <2>1, <3>2 DEF BeatenThrice
  <2>2. QED
    BY <2>1 DEF BeatenThrice
<1>6. QED
  BY <1>3, <1>4, <1>5 DEF Beaten

(* So a step is a matter of the request that moves.                        *)
LEMMA KStep ==
  ASSUME IInv, IInv', KInv, Recorded, NEW r \in Requests, NEW p, Put(r, p), Beaten(p)'
  PROVE  KInv'
<1>1. req'[r] = p /\ \A s \in Requests : s # r => req'[s] = req[s]
  BY DEF IInv, Put
<1>2. ASSUME NEW s \in Requests
      PROVE  Beaten(req[s])'
  <2>1. CASE s = r
    <3>1. PICK q : q = req'[s]
      OBVIOUS
    <3>2. Beaten(q)'
      BY <1>1, <2>1, <3>1
    <3>3. QED
      BY <3>1, <3>2
  <2>2. CASE s # r
    <3>1. PICK q \in Request : q = req[s] /\ ReqOK(q) /\ Beaten(q)
      BY DEF IInv, KInv
    <3>2. Beaten(q)' /\ q = req'[s]
      BY <1>1, <2>2, <3>1, BeatenFrame
    <3>3. QED
      BY <3>2
  <2>3. QED
    BY <2>1, <2>2
<1>3. QED
  BY <1>2 DEF KInv

(* No row's version moves.                                                 *)
SameVersions ==
  \A u \in DOMAIN users : u \in DOMAIN users' /\ users'[u].version = users[u].version

(* A step that is no attempt.                                              *)
LEMMA PassStep ==
  ASSUME IInv, IInv', KInv, NEW r \in Requests, NEW p, Put(r, p), SameVersions,
         Passes(req[r], p)
  PROVE  KInv'
<1>1. PICK q \in Request : q = req[r] /\ Beaten(q)
  BY DEF IInv, KInv
<1>2. p \in Request /\ req'[r] = p /\ \A s \in Requests : s # r => req'[s] = req[s]
  BY DEF IInv, Put
<1>3. Recorded
  <2>1. \A u \in DOMAIN users : users[u].version \in Nat
    BY DEF IInv, StoreOK, Row
  <2>2. QED
    BY <1>1, <1>2, <2>1, SMT, SMTT(30) DEF SameVersions, Recorded, Passes
<1>4. Passes(q, p)
  BY <1>1
<1>5. p.pc \in Early \cup Attempt => q.tries = 0 /\ q.wver = 0
  BY <1>1, <1>4 DEF Passes, Beaten, Attempt
<1>6. p.pc \in Attempt => BeatenBy(p.tries, p.uid, Start(p))'
  BY <1>4, <1>5, SMT, SMTT(30) DEF Passes, BeatenBy
<1>7. Beaten(p)'
  BY <1>4, <1>5, <1>6 DEF Passes, Beaten
<1>8. QED
  BY <1>3, <1>7, KStep

-----------------------------------------------------------------------------
(* How the flows begin: with nothing attempted.                            *)

Fresh(p) ==
  /\ p.tries = 0 /\ p.wver = 0 /\ p.res = "none"
  /\ p.pc \in Early \cup {"read", "revoke"}

(* What a flow begins with.                                                *)
LEMMA IdleFields ==
  /\ Idle.user.verified = FALSE /\ Idle.wver = 0 /\ Idle.nil = FALSE
  /\ Idle.tries = 0 /\ Idle.res = "none" /\ Idle.pc = "idle" /\ Idle.op = "none"
BY DEF Idle, NewRow

(* Flows that begin by looking up an address.                              *)
LEMMA ByEmailFresh ==
  ASSUME NEW r, NEW op, RequestByEmail(r, op)
  PROVE  \E p : Begin(r, p) /\ Fresh(p)
<1>1. PICK e \in Emails :
        Begin(r, [Idle EXCEPT !.op = op, !.pc = "lookup", !.email = e])
  BY Zenon DEF RequestByEmail
<1> DEFINE p == [Idle EXCEPT !.op = op, !.pc = "lookup", !.email = e]
<1>2. p.tries = Idle.tries /\ p.wver = Idle.wver /\ p.res = Idle.res /\ p.pc = "lookup"
  BY IdleType DEF Request
<1>3. Begin(r, p)
  BY <1>1
<1> HIDE DEF p
<1>4. Fresh(p)
  BY <1>2, IdleFields DEF Fresh, Early
<1>5. QED
  BY <1>3, <1>4

(* Flows that begin by redeeming a token.                                  *)
LEMMA RedeemFresh ==
  ASSUME NEW r, NEW op, NEW u, NEW new, Redeem(r, op, u, new)
  PROVE  \E p : Begin(r, p) /\ Fresh(p)
<1>1. PICK t \in tokens :
        Begin(r, [Idle EXCEPT !.op = op, !.pc = "consume", !.tok = t.id,
                              !.uid = u, !.new = new])
  BY Zenon DEF Redeem
<1> DEFINE p == [Idle EXCEPT !.op = op, !.pc = "consume", !.tok = t.id,
                              !.uid = u, !.new = new]
<1>2. p.tries = Idle.tries /\ p.wver = Idle.wver /\ p.res = Idle.res /\ p.pc = "consume"
  BY IdleType DEF Request
<1>3. Begin(r, p)
  BY <1>1
<1> HIDE DEF p
<1>4. Fresh(p)
  BY <1>2, IdleFields DEF Fresh, Early
<1>5. QED
  BY <1>3, <1>4

(* Flows that begin from a user id.                                        *)
LEMMA ByIDFresh ==
  ASSUME NEW r, NEW op, NEW pc \in {"load", "revoke", "read"}, RequestByID(r, op, pc)
  PROVE  \E p : Begin(r, p) /\ Fresh(p)
<1>1. PICK u \in DOMAIN users :
        Begin(r, [Idle EXCEPT !.op = op, !.pc = pc, !.uid = u])
  BY Zenon DEF RequestByID
<1> DEFINE p == [Idle EXCEPT !.op = op, !.pc = pc, !.uid = u]
<1>2. p.tries = Idle.tries /\ p.wver = Idle.wver /\ p.res = Idle.res /\ p.pc = pc
  BY IdleType DEF Request
<1>3. Begin(r, p)
  BY <1>1
<1> HIDE DEF p
<1>4. Fresh(p)
  BY <1>2, IdleFields DEF Fresh, Early
<1>5. QED
  BY <1>3, <1>4

(* All flows.                                                              *)
LEMMA CallFresh ==
  ASSUME NEW r, Call(r)
  PROVE  \E p : Begin(r, p) /\ Fresh(p)
<1>1. CASE Register(r)
  <2>1. PICK e \in Emails, new \in Passwords :
          Begin(r, [Idle EXCEPT !.op = "Register", !.pc = "create",
                                !.email = e, !.new = new])
    BY <1>1, Zenon DEF Register
  <2> DEFINE p == [Idle EXCEPT !.op = "Register", !.pc = "create",
                               !.email = e, !.new = new]
  <2>2. p.tries = Idle.tries /\ p.wver = Idle.wver /\ p.res = Idle.res /\ p.pc = "create"
    BY IdleType DEF Request
  <2>3. Begin(r, p)
    BY <2>1
  <2> HIDE DEF p
  <2>4. Fresh(p)
    BY <2>2, IdleFields DEF Fresh, Early
  <2>5. QED
    BY <2>3, <2>4
<1>2. CASE Login(r)
  <2>1. PICK e \in Emails, pw \in Passwords :
          Begin(r, [Idle EXCEPT !.op = "Login", !.pc = "lookup",
                                !.email = e, !.pw = pw])
    BY <1>2, Zenon DEF Login
  <2> DEFINE p == [Idle EXCEPT !.op = "Login", !.pc = "lookup", !.email = e, !.pw = pw]
  <2>2. p.tries = Idle.tries /\ p.wver = Idle.wver /\ p.res = Idle.res /\ p.pc = "lookup"
    BY IdleType DEF Request
  <2>3. Begin(r, p)
    BY <2>1
  <2> HIDE DEF p
  <2>4. Fresh(p)
    BY <2>2, IdleFields DEF Fresh, Early
  <2>5. QED
    BY <2>3, <2>4
<1>3. CASE ChangePassword(r)
  <2>1. PICK u \in DOMAIN users, pw \in Passwords, new \in Passwords :
          Begin(r, [Idle EXCEPT !.op = "ChangePassword", !.pc = "load",
                                !.uid = u, !.pw = pw, !.new = new])
    BY <1>3, Zenon DEF ChangePassword
  <2> DEFINE p == [Idle EXCEPT !.op = "ChangePassword", !.pc = "load",
                               !.uid = u, !.pw = pw, !.new = new]
  <2>2. p.tries = Idle.tries /\ p.wver = Idle.wver /\ p.res = Idle.res /\ p.pc = "load"
    BY IdleType DEF Request
  <2>3. Begin(r, p)
    BY <2>1
  <2> HIDE DEF p
  <2>4. Fresh(p)
    BY <2>2, IdleFields DEF Fresh, Early
  <2>5. QED
    BY <2>3, <2>4
<1>4. CASE SetInitialPassword(r)
  <2>1. PICK u \in DOMAIN users, new \in Passwords :
          Begin(r, [Idle EXCEPT !.op = "SetInitialPassword", !.pc = "read",
                                !.uid = u, !.new = new])
    BY <1>4, Zenon DEF SetInitialPassword
  <2> DEFINE p == [Idle EXCEPT !.op = "SetInitialPassword", !.pc = "read",
                               !.uid = u, !.new = new]
  <2>2. p.tries = Idle.tries /\ p.wver = Idle.wver /\ p.res = Idle.res /\ p.pc = "read"
    BY IdleType DEF Request
  <2>3. Begin(r, p)
    BY <2>1
  <2> HIDE DEF p
  <2>4. Fresh(p)
    BY <2>2, IdleFields DEF Fresh, Early
  <2>5. QED
    BY <2>3, <2>4
<1>5. CASE ChangeEmail(r)
  <2>1. PICK u \in DOMAIN users, e \in Emails :
          Begin(r, [Idle EXCEPT !.op = "ChangeEmail", !.pc = "lookup",
                                !.uid = u, !.email = e])
    BY <1>5, Zenon DEF ChangeEmail
  <2> DEFINE p == [Idle EXCEPT !.op = "ChangeEmail", !.pc = "lookup",
                               !.uid = u, !.email = e]
  <2>2. p.tries = Idle.tries /\ p.wver = Idle.wver /\ p.res = Idle.res /\ p.pc = "lookup"
    BY IdleType DEF Request
  <2>3. Begin(r, p)
    BY <2>1
  <2> HIDE DEF p
  <2>4. Fresh(p)
    BY <2>2, IdleFields DEF Fresh, Early
  <2>5. QED
    BY <2>3, <2>4
<1>6. CASE RevokeSession(r)
  <2>1. PICK x \in sessions, u \in DOMAIN users :
          Begin(r, [Idle EXCEPT !.op = "RevokeSession", !.pc = "delete",
                                !.uid = u, !.sess = x.id])
    BY <1>6, Zenon DEF RevokeSession
  <2> DEFINE p == [Idle EXCEPT !.op = "RevokeSession", !.pc = "delete",
                               !.uid = u, !.sess = x.id]
  <2>2. p.tries = Idle.tries /\ p.wver = Idle.wver /\ p.res = Idle.res /\ p.pc = "delete"
    BY IdleType DEF Request
  <2>3. Begin(r, p)
    BY <2>1
  <2> HIDE DEF p
  <2>4. Fresh(p)
    BY <2>2, IdleFields DEF Fresh, Early
  <2>5. QED
    BY <2>3, <2>4
<1>7. CASE RefreshSession(r)
  <2>1. PICK x \in sessions :
          Begin(r, [Idle EXCEPT !.op = "RefreshSession", !.pc = "delete",
                                !.uid = x.uid, !.sess = x.id, !.root = x.root])
    BY <1>7, Zenon DEF RefreshSession
  <2> DEFINE p == [Idle EXCEPT !.op = "RefreshSession", !.pc = "delete",
                               !.uid = x.uid, !.sess = x.id, !.root = x.root]
  <2>2. p.tries = Idle.tries /\ p.wver = Idle.wver /\ p.res = Idle.res /\ p.pc = "delete"
    BY IdleType DEF Request
  <2>3. Begin(r, p)
    BY <2>1
  <2> HIDE DEF p
  <2>4. Fresh(p)
    BY <2>2, IdleFields DEF Fresh, Early
  <2>5. QED
    BY <2>3, <2>4
<1>8. CASE CreatePasswordResetToken(r) \/ CreateMagicLinkToken(r)
  BY <1>8, ByEmailFresh, Zenon DEF CreatePasswordResetToken, CreateMagicLinkToken
<1>9. CASE ResetPassword(r) \/ RedeemMagicLink(r) \/ VerifyEmail(r)
           \/ ConfirmEmailChange(r) \/ CompleteTwoFactor(r)
  BY <1>9, RedeemFresh, Zenon DEF ResetPassword, RedeemMagicLink, VerifyEmail,
                           ConfirmEmailChange, CompleteTwoFactor
<1>10. CASE CreateEmailVerificationToken(r) \/ CreateTwoFactorToken(r)
            \/ IssueSessionUnchecked(r) \/ RevokeAllSessions(r)
            \/ DisableUser(r) \/ EnableUser(r)
  BY <1>10, ByIDFresh, Zenon DEF CreateEmailVerificationToken, CreateTwoFactorToken, EnableUser,
                          IssueSessionUnchecked, RevokeAllSessions, DisableUser
<1>11. QED
  BY <1>1, <1>2, <1>3, <1>4, <1>5, <1>6, <1>7, <1>8, <1>9, <1>10 DEF Call

(* Beginning a flow.                                                       *)
LEMMA CallK ==
  ASSUME IInv, IInv', KInv, NEW r \in Requests, Call(r)
  PROVE  KInv'
<1>1. PICK p : Begin(r, p) /\ Fresh(p)
  BY CallFresh, Zenon
<1>2. req[r].pc = "idle" /\ Put(r, p) /\ SameVersions
  BY <1>1 DEF Begin, stores, SameVersions
<1>3. Passes(req[r], p)
  <2>1. "idle" \in Early
    BY DEF Early
  <2>2. req[r].tries = 0 /\ req[r].wver = 0
    BY <1>2, <2>1, Zenon DEF KInv, Beaten
  <2>3. p.pc \notin {"taken", "write"}
    BY <1>1 DEF Fresh, Early
  <2>4. QED
    BY <1>1, <1>2, <2>1, <2>2, <2>3 DEF Fresh, Passes
<1>4. QED
  BY <1>2, <1>3, PassStep

-----------------------------------------------------------------------------
(* The store calls.                                                        *)

(* What was looked up or loaded is no attempt.                             *)
LEMMA PassesFrom ==
  ASSUME NEW q, NEW o, NEW p, Passes(o, p), o.tries = q.tries, o.wver = q.wver,
         o.pc = q.pc, q.wver > 0 => o.uid = q.uid
  PROVE  Passes(q, p)
BY DEF Passes

(* UserStore.GetUserByEmail.                                               *)
LEMMA GetUserByEmailK ==
  ASSUME IInv, IInv', KInv, NEW r \in Requests, GetUserByEmail(r)
  PROVE  KInv'
<1>1. PICK q \in Request : q = req[r] /\ Beaten(q)
  BY DEF IInv, KInv
<1>2. q.pc \in {"lookup", "relookup"} /\ SameVersions
  BY <1>1 DEF GetUserByEmail, stores, SameVersions
<1>3. q.res = "none" /\ q.wver = 0 /\ q.pc \in Early
  BY <1>1, <1>2 DEF Beaten, Early
<1>4. ASSUME NEW u \in Holders(q.email)
      PROVE  Passes(q, Found(q, u))
  <2>1. PICK o \in Request : o = [q EXCEPT !.uid = u, !.user = users[u]]
    <3>1. u \in Uids /\ users[u] \in Row
      BY DEF Holders, IInv, StoreOK
    <3>2. QED
      BY <3>1, Zenon DEF Request
  <2>2. o.tries = q.tries /\ o.wver = q.wver /\ o.pc = q.pc /\ o.res = q.res
    BY <2>1 DEF Request
  <2>3. Passes(o, VerifyPassword(o)) /\ Passes(o, stampEmailVerified(o))
    BY <1>3, <2>2, VerifyPasswordPasses, StampPasses
  <2>4. Passes(o, [o EXCEPT !.pc = "token"]) /\ Passes(q, Done(q, "err"))
    BY <1>3, <2>2, GoPasses, DonePasses DEF PCs, Early
  <2>5. \/ Found(q, u) = Done(q, "err")
        \/ Found(q, u) \in {VerifyPassword(o), stampEmailVerified(o), [o EXCEPT !.pc = "token"]}
    BY <2>1 DEF Found
  <2>6. QED
    BY <1>3, <2>2, <2>3, <2>4, <2>5, PassesFrom
<1>5. Passes(q, NotFound(q))
  BY <1>3, NotFoundPasses
<1>6. QED
  BY <1>1, <1>2, <1>4, <1>5, PassStep DEF GetUserByEmail

(* UserStore.CreateUser: a new row is nobody's to have written.            *)
LEMMA CreateUserK ==
  ASSUME IInv, IInv', KInv, NEW r \in Requests, CreateUser(r)
  PROVE  KInv'
<1>1. PICK q \in Request : q = req[r] /\ Beaten(q)
  BY DEF IInv, KInv
<1>2. q.pc = "create"
  BY <1>1, Zenon DEF CreateUser
<1>3. q.res = "none" /\ q.wver = 0 /\ q.pc \in Early
  BY <1>1, <1>2 DEF Beaten, Early
<1>4. CASE UNCHANGED users
  <2>1. \/ Put(r, Done(q, "err")) \/ Put(r, [q EXCEPT !.pc = "relookup"])
    <3>1. Holders(q.email) # {} \/ \E u \in Uids \ DOMAIN users : u \in DOMAIN users'
      BY <1>1, Zenon DEF CreateUser
    <3>2. Holders(q.email) # {}
      BY <1>4, <3>1
    <3>3. QED
      BY <1>1, <3>2, Zenon DEF CreateUser
  <2>2. Passes(q, Done(q, "err")) /\ Passes(q, [q EXCEPT !.pc = "relookup"])
    BY <1>3, GoPasses, DonePasses DEF PCs, Early
  <2>3. QED
    BY <1>1, <1>4, <2>1, <2>2, PassStep DEF SameVersions
<1>5. ASSUME NEW u \in Uids \ DOMAIN users, NEW row,
             users' = [v \in DOMAIN users \cup {u} |-> IF v = u THEN row ELSE users[v]],
             NEW pc \in {"session", "read"},
             Put(r, [q EXCEPT !.uid = u, !.user = row, !.pc = pc])
      PROVE  KInv'
  <2>1. SameVersions
    BY <1>5 DEF SameVersions
  <2>2. Passes(q, [q EXCEPT !.uid = u, !.user = row, !.pc = pc])
    BY <1>3, <1>5 DEF Passes, Request, Early
  <2>3. QED
    BY <1>1, <1>5, <2>1, <2>2, PassStep
<1>6. QED
  BY <1>1, <1>4, <1>5, ZenonT(30) DEF CreateUser

(* UserStore.GetUserByID.                                                  *)
LEMMA GetUserByIDK ==
  ASSUME IInv, IInv', KInv, NEW r \in Requests, GetUserByID(r)
  PROVE  KInv'
<1>1. PICK q \in Request : q = req[r] /\ Beaten(q) /\ ReqOK(q)
  BY DEF IInv, KInv
<1>2. q.pc \in {"load", "reload"} /\ SameVersions
  BY <1>1 DEF GetUserByID, stores, SameVersions
<1>3. q.res = "none" /\ (q.pc = "load" => q.pc \in Early)
  BY <1>1, <1>2 DEF Beaten, Early
<1>4. PICK o \in Request : o = [q EXCEPT !.user = users[q.uid]]
  <2>1. users[q.uid] \in Row
    BY <1>1, <1>2 DEF ReqOK, Knows, UserPCs, IInv, StoreOK
  <2>2. QED
    BY <2>1, Zenon DEF Request
<1>5. o.tries = q.tries /\ o.wver = q.wver /\ o.pc = q.pc /\ o.res = q.res /\ o.uid = q.uid
  BY <1>4 DEF Request
<1>6. Passes(o, AfterStamp(o))
  BY <1>3, <1>5, AfterStampPasses
<1>7. ASSUME q.pc = "load"
      PROVE  Passes(o, Loaded(o))
  <2>1. Passes(o, stampEmailVerified(o)) /\ Passes(o, Done(o, "err"))
    BY <1>3, <1>5, <1>7, StampPasses, DonePasses
  <2>2. \A pc \in {"read", "token", "session"} : Passes(o, [o EXCEPT !.pc = pc])
    BY <1>3, <1>5, <1>7, GoPasses DEF PCs, Early
  <2>3. Passes(o, [o EXCEPT !.pc = "token", !.email = o.user.email])
    BY <1>3, <1>5, <1>7 DEF Passes, Request, Early
  <2>4. QED
    BY <2>1, <2>2, <2>3 DEF Loaded
<1>8. Put(r, IF q.pc = "load" THEN Loaded(o) ELSE AfterStamp(o))
  BY <1>1, <1>4 DEF GetUserByID
<1>9. QED
  BY <1>1, <1>2, <1>5, <1>6, <1>7, <1>8, PassesFrom, PassStep

(* TokenStore.ConsumeToken: a token says whose account a flow is about.    *)
LEMMA ConsumeTokenK ==
  ASSUME IInv, IInv', KInv, NEW r \in Requests, ConsumeToken(r)
  PROVE  KInv'
<1>1. PICK q \in Request : q = req[r] /\ Beaten(q)
  BY DEF IInv, KInv
<1>2. q.pc = "consume" /\ SameVersions
  BY <1>1, Zenon DEF ConsumeToken, SameVersions
<1>3. q.res = "none" /\ q.wver = 0 /\ q.pc \in Early
  BY <1>1, <1>2 DEF Beaten, Early
<1>4. PICK g \in Request : g = [q EXCEPT !.got = TRUE]
  BY Zenon DEF Request
<1>5. g.tries = q.tries /\ g.wver = q.wver /\ g.pc = q.pc /\ g.res = q.res
  BY <1>4 DEF Request
<1>6. Passes(q, Done(q, "err")) /\ Passes(q, Done(g, "err"))
  BY <1>3, <1>5, DonePasses, PassesFrom
<1>7. ASSUME NEW u, NEW t
      PROVE  Passes(q, Consumed(q, t, u))
  <2> DEFINE o == [q EXCEPT !.got = TRUE, !.uid = u]
  <2>1. \A pc \in {"read", "load"} : Passes(q, [o EXCEPT !.pc = pc])
    BY <1>3 DEF Passes, Request, Early
  <2>2. \A pc \in {"read", "load"} : Passes(q, [o EXCEPT !.pc = pc, !.email = Only(t.email)])
    BY <1>3 DEF Passes, Request, Early
  <2>3. \/ \E pc \in {"read", "load"} :
             \/ Consumed(q, t, u) = [o EXCEPT !.pc = pc]
             \/ Consumed(q, t, u) = [o EXCEPT !.pc = pc, !.email = Only(t.email)]
        \/ Consumed(q, t, u) = Done(g, "err")
    BY <1>4 DEF Consumed
  <2> HIDE DEF o
  <2>4. QED
    BY <1>6, <2>1, <2>2, <2>3
<1>8. ASSUME NEW e
      PROVE  Passes(q, [q EXCEPT !.got = TRUE, !.pc = "lookup", !.email = e])
  BY <1>3 DEF Passes, Request, Early
<1>9. \/ Put(r, Done(q, "err")) \/ Put(r, Done(g, "err"))
      \/ \E t, u : Put(r, Consumed(q, t, u))
      \/ \E e : Put(r, [q EXCEPT !.got = TRUE, !.pc = "lookup", !.email = e])
  BY <1>1, <1>4, Zenon DEF ConsumeToken
<1>10. QED
  BY <1>1, <1>2, <1>6, <1>7, <1>8, <1>9, PassStep, Zenon

(* The steps after the write, and the ones that mint.                      *)
LEMMA LaterK ==
  ASSUME IInv, IInv', KInv, NEW r \in Requests,
         \/ DeleteUserSessions(r) \/ DeleteUserTokens(r) \/ CreateToken(r)
         \/ CreateSession(r) \/ DeleteSession(r) \/ HasSecondFactor(r) \/ StoreError(r)
  PROVE  KInv'
<1>1. PICK q \in Request : q = req[r] /\ Beaten(q)
  BY DEF IInv, KInv
<1>2. q.pc # "done" /\ SameVersions
  BY <1>1 DEF DeleteUserSessions, DeleteUserTokens, CreateToken, CreateSession, DeleteSession,
              HasSecondFactor, StoreError, SameVersions, stores
<1>3. q.res = "none"
  BY <1>1, <1>2 DEF Beaten
<1>4. /\ Passes(q, AfterRevoke(q)) /\ Passes(q, AfterPurge(q)) /\ Passes(q, Done(q, "ok"))
      /\ Passes(q, Done(q, "err")) /\ Passes(q, UpdateFailed(q, "err")) /\ Passes(q, Gone(q))
  BY <1>3, AfterRevokePasses, AfterPurgePasses, DonePasses, UpdateFailedPasses DEF Gone
<1>5. \A pc \in {"token", "session"} : Passes(q, [q EXCEPT !.pc = pc])
  BY <1>3, GoPasses DEF PCs, Early
<1>6. ASSUME DeleteSession(r)
      PROVE  Passes(q, [q EXCEPT !.pc = "load"])
  <2>1. q.pc \in Early
    BY <1>1, <1>6 DEF DeleteSession, Early
  <2>2. QED
    BY <1>3, <2>1, GoPasses DEF PCs
<1>7. \E p : Put(r, p) /\ Passes(q, p)
  <2>1. CASE DeleteUserSessions(r)
    BY <1>1, <1>4, <2>1, Zenon DEF DeleteUserSessions
  <2>2. CASE DeleteUserTokens(r)
    BY <1>1, <1>4, <2>2, Zenon DEF DeleteUserTokens
  <2>3. CASE CreateToken(r)
    BY <1>1, <1>4, <2>3, Zenon DEF CreateToken
  <2>4. CASE CreateSession(r)
    BY <1>1, <1>4, <2>4, Zenon DEF CreateSession
  <2>5. CASE DeleteSession(r)
    <3>1. \/ Put(r, Gone(q)) \/ Put(r, [q EXCEPT !.pc = "load"]) \/ Put(r, Done(q, "ok"))
      BY <1>1, <2>5 DEF DeleteSession
    <3>2. QED
      BY <1>4, <1>6, <2>5, <3>1, Zenon
  <2>6. CASE HasSecondFactor(r)
    BY <1>1, <1>5, <2>6, Zenon DEF HasSecondFactor
  <2>7. CASE StoreError(r)
    <3>1. Put(r, UpdateFailed(q, "err")) \/ Put(r, Done(q, "err"))
      BY <1>1, <2>7 DEF StoreError
    <3>2. QED
      BY <1>4, <3>1, Zenon
  <2>8. QED
    BY <2>1, <2>2, <2>3, <2>4, <2>5, <2>6, <2>7
<1>8. QED
  BY <1>1, <1>2, <1>7, PassStep

(* The read of an attempt: whoever beat it has written by the version that *)
(* is read now.                                                            *)
LEMMA ReadForUpdateK ==
  ASSUME IInv, IInv', KInv, NEW r \in Requests, ReadForUpdate(r)
  PROVE  KInv'
<1>1. PICK q \in Request : q = req[r] /\ Beaten(q) /\ ReqOK(q)
  BY DEF IInv, KInv
<1>2. q.pc = "read" /\ SameVersions /\ users' = users
  BY <1>1 DEF ReadForUpdate, stores, SameVersions
<1>3. q.res = "none" /\ q.wver = 0 /\ q.tries \in Nat
  BY <1>1, <1>2 DEF Beaten, Attempt, Request
<1>4. PICK row \in Row : row = users[q.uid] /\ AtMostOne(row.hash)
  BY <1>1, <1>2 DEF ReqOK, Knows, UserPCs, IInv, StoreOK
<1>5. CASE Put(r, Refused(q))
  BY <1>1, <1>2, <1>3, <1>5, RefusedPasses, PassStep
<1>6. ASSUME Accepts(q, row), NEW pc \in {"taken", "write"}, NEW had,
             Put(r, [q EXCEPT !.cur = Mutate(q, row), !.hadpw = had, !.pc = pc])
      PROVE  KInv'
  <2>1. PICK p : p = [q EXCEPT !.cur = Mutate(q, row), !.hadpw = had, !.pc = pc]
    OBVIOUS
  <2>2. /\ p.cur = Mutate(q, row) /\ p.pc = pc /\ p.tries = q.tries /\ p.wver = q.wver
        /\ p.res = q.res /\ p.uid = q.uid
    BY <2>1 DEF Request
  <2>3. p.cur.version = users[q.uid].version
    BY <1>4, <1>6, <2>2, MutateType
  <2>4. Put(r, p) /\ Recorded
    <3>1. Put(r, p)
      BY <1>6, <2>1
    <3>2. \A s \in Requests : req'[s].wver = req[s].wver /\ req'[s].uid = req[s].uid
      BY <1>1, <2>2, <3>1 DEF IInv, Put
    <3>3. \A u \in DOMAIN users : users[u].version \in Nat
      BY DEF IInv, StoreOK, Row
    <3>4. QED
      BY <1>2, <3>1, <3>2, <3>3 DEF Recorded
  <2>5. BeatenBy(q.tries, q.uid, row.version)'
    <3>1. BeatenBy(q.tries, q.uid, row.version) /\ row.version \in Nat
      BY <1>1, <1>2, <1>4 DEF Beaten, Attempt, Start, Row
    <3>2. QED
      BY <1>3, <2>4, <3>1, BeatenByFrame
  <2>6. BeatenBy(p.tries, p.uid, Start(p))'
    BY <1>4, <2>2, <2>3, <2>5 DEF Start
  <2>7. Beaten(p)'
    BY <1>2, <1>3, <2>2, <2>3, <2>6 DEF Beaten, Attempt, Early
  <2>8. QED
    BY <2>4, <2>7, KStep
<1>7. QED
  BY <1>1, <1>4, <1>5, <1>6, Zenon DEF ReadForUpdate

(* ConfirmEmailChange's check between the read and the write.              *)
LEMMA StillFreeK ==
  ASSUME IInv, IInv', KInv, NEW r \in Requests, StillFree(r)
  PROVE  KInv'
<1>1. PICK q \in Request : q = req[r] /\ Beaten(q)
  BY DEF IInv, KInv
<1>2. q.pc = "taken" /\ SameVersions /\ users' = users
  BY <1>1 DEF StillFree, stores, SameVersions
<1>3. CASE Put(r, Done(q, "err"))
  BY <1>1, <1>2, <1>3, DonePasses, PassStep
<1>4. CASE Put(r, [q EXCEPT !.pc = "write"])
  <2>1. PICK p : p = [q EXCEPT !.pc = "write"]
    BY Zenon
  <2>2. /\ p.cur = q.cur /\ p.pc = "write" /\ p.tries = q.tries /\ p.wver = q.wver
        /\ p.res = q.res /\ p.uid = q.uid
    BY <2>1 DEF Request
  <2>3. Put(r, p)
    BY <1>4, <2>1
  <2>4. \A s \in Requests : req'[s].wver = req[s].wver /\ req'[s].uid = req[s].uid
    BY <1>1, <2>2, <2>3 DEF IInv, Put
  <2>5. Recorded
    <3>1. \A u \in DOMAIN users : users[u].version \in Nat
      BY DEF IInv, StoreOK, Row
    <3>2. QED
      BY <1>2, <2>4, <3>1 DEF Recorded
  <2>6. BeatenBy(q.tries, q.uid, q.cur.version)'
    <3>1. BeatenBy(q.tries, q.uid, q.cur.version)
      BY <1>1, <1>2 DEF Beaten, Attempt, Start
    <3>2. q.tries \in Nat /\ q.cur.version \in Nat
      BY DEF Request, Row
    <3>3. QED
      BY <2>5, <3>1, <3>2, BeatenByFrame
  <2>7. Beaten(p)'
    <3>1. BeatenBy(p.tries, p.uid, Start(p))'
      BY <2>2, <2>6 DEF Start
    <3>2. q.res = "none" /\ q.wver = 0
      BY <1>1, <1>2 DEF Beaten, Attempt
    <3>3. p.cur.version # users'[p.uid].version =>
            \E a \in Requests : req'[a].uid = p.uid /\ req'[a].wver = users'[p.uid].version
      BY <1>1, <1>2, <2>2, <2>4 DEF Beaten
    <3>4. QED
      BY <2>2, <3>1, <3>2, <3>3 DEF Beaten, Attempt, Early
  <2>8. QED
    BY <2>3, <2>5, <2>7, KStep
<1>5. QED
  BY <1>1, <1>3, <1>4 DEF StillFree

(* What follows a write that succeeded.                                    *)
LEMMA UpdatedPasses ==
  ASSUME NEW q \in Request, q.res = "none"
  PROVE  Passes(q, Updated(q))
<1>1. PICK o \in Request : o = [q EXCEPT !.user = q.cur]
  BY Zenon DEF Request
<1>2. o.tries = q.tries /\ o.wver = q.wver /\ o.pc = q.pc /\ o.res = q.res /\ o.uid = q.uid
  BY <1>1 DEF Request
<1>3. Passes(q, AfterStamp(o)) /\ Passes(q, [o EXCEPT !.pc = "revoke"])
  BY <1>2, AfterStampPasses, GoPasses, PassesFrom DEF PCs, Early
<1>4. Passes(q, completeFirstFactor(q)) /\ Passes(q, Done(q, "ok"))
  BY FirstFactorPasses, DonePasses
<1>5. \A pc \in {"revoke", "purgeReset", "token"} : Passes(q, [q EXCEPT !.pc = pc])
  BY GoPasses DEF PCs, Early
<1>6. \/ Updated(q) \in {AfterStamp(o), [o EXCEPT !.pc = "revoke"], completeFirstFactor(q),
                         Done(q, "ok")}
      \/ \E pc \in {"revoke", "purgeReset", "token"} : Updated(q) = [q EXCEPT !.pc = pc]
  BY <1>1 DEF Updated
<1>7. QED
  BY <1>3, <1>4, <1>5, <1>6

(* The compare-and-swap, when it succeeds: the version that others will    *)
(* miss is this request's.                                                 *)
LEMMA WriteK ==
  ASSUME IInv, IInv', KInv, NEW r \in Requests, NEW q \in Request, q = req[r], Beaten(q),
         q.pc = "write", q.uid \in DOMAIN users, NEW version \in Nat,
         version = users[q.uid].version + 1,
         users' = [users EXCEPT ![q.uid] = [q.cur EXCEPT !.version = version]],
         Put(r, Updated([q EXCEPT !.wver = version]))
  PROVE  KInv'
<1>1. PICK o \in Request : o = [q EXCEPT !.wver = version]
  BY DEF Request
<1>2. o.tries = q.tries /\ o.wver = version /\ o.pc = q.pc /\ o.res = "none" /\ o.uid = q.uid
  BY <1>1 DEF Request, Beaten
<1>3. PICK p : p = Updated(o)
  OBVIOUS
<1>4. Passes(o, p) /\ Put(r, p)
  BY <1>1, <1>2, <1>3, UpdatedPasses, Zenon
<1>5. /\ \A u \in DOMAIN users : users[u].version \in Nat
      /\ q.wver = 0 /\ version > 0
  <2>1. \A u \in DOMAIN users : users[u].version \in Nat
    BY DEF IInv, StoreOK, Row
  <2>2. QED
    BY <2>1 DEF Beaten, Attempt
<1>6. /\ req'[r] = p /\ p.wver = version /\ p.uid = q.uid
      /\ \A s \in Requests : s # r => req'[s] = req[s]
  BY <1>2, <1>4, <1>5 DEF IInv, Put, Passes
<1>7. /\ DOMAIN users' = DOMAIN users /\ users'[q.uid].version = version
      /\ \A u \in DOMAIN users : u # q.uid => users'[u] = users[u]
  BY DEF Request, Row
<1>8. Recorded
  BY <1>5, <1>6, <1>7 DEF Recorded
<1>9. Beaten(p)'
  BY <1>2, <1>4 DEF Passes, Beaten, Early, Attempt
<1>10. QED
  BY <1>4, <1>8, <1>9, KStep

(* When it fails: whoever wrote the version that is stored now has beaten  *)
(* this request once more.                                                 *)
LEMMA ConflictK ==
  ASSUME IInv, IInv', KInv, NEW r \in Requests, NEW q \in Request, q = req[r], Beaten(q),
         ReqOK(q), q.pc = "write", ~VersionMatches(q), users' = users, Put(r, Conflict(q))
  PROVE  KInv'
<1>1. /\ q.res = "none" /\ q.wver = 0 /\ q.tries \in Nat /\ q.cur.version \in Nat
      /\ \A a \in Requests : req[a].wver \in Nat
  <2>1. q.cur \in Row /\ q.tries \in Nat /\ \A a \in Requests : req[a] \in Request
    BY DEF IInv, Request
  <2>2. QED
    BY <2>1 DEF Beaten, Attempt, Row, Request
<1>2. /\ q.uid \in DOMAIN users /\ users[q.uid].version \in Nat
      /\ q.cur.version < users[q.uid].version
  <2>1. q.uid \in DOMAIN users /\ users[q.uid] \in Row
    BY DEF ReqOK, Knows, UserPCs, IInv, StoreOK
  <2>2. q.cur.version <= users[q.uid].version
    BY Zenon DEF ReqOK, WriteOK
  <2>3. users[q.uid].version # q.cur.version
    BY DEF VersionMatches
  <2>4. users[q.uid].version \in Nat
    BY <2>1, Zenon DEF Row
  <2>5. QED
    BY ONLY <1>1, <2>1, <2>2, <2>3, <2>4
<1>3. PICK v \in Nat, w \in Nat : v = q.cur.version /\ w = users[q.uid].version /\ v < w
  BY <1>1, <1>2
<1>4. PICK c \in Requests : req[c].uid = q.uid /\ req[c].wver = w
  <2>1. q.cur.version # users[q.uid].version
    BY <1>3
  <2>2. QED
    BY <1>3, <2>1, Zenon DEF Beaten
<1>5. BeatenBy(q.tries, q.uid, v)
  BY <1>3 DEF Beaten, Attempt, Start
<1>6. \A a \in Requests : Won(a, q.uid, v) => Won(a, q.uid, w) /\ req[a].wver < w
  <2>1. ASSUME NEW a \in Requests, Won(a, q.uid, v)
        PROVE  Won(a, q.uid, w) /\ req[a].wver < w
    <3>1. req[a].uid = q.uid /\ req[a].wver > 0 /\ req[a].wver <= v
      BY <2>1, Zenon DEF Won
    <3>2. req[a].wver \in Nat /\ v \in Nat /\ w \in Nat /\ v < w
      BY <1>1, <1>3, Zenon
    <3>3. req[a].wver < w /\ req[a].wver <= w
      BY ONLY <3>1, <3>2
    <3>4. QED
      BY <3>1, <3>3, Zenon DEF Won
  <2>2. QED
    BY <2>1, Zenon
<1>7. Won(c, q.uid, w)
  BY <1>3, <1>4, SMT, SMTT(30) DEF Won
<1>8. ASSUME q.tries + 1 < 3
      PROVE  KInv'
  <2>1. PICK p : p = [q EXCEPT !.pc = "read", !.tries = q.tries + 1]
    OBVIOUS
  <2>2. /\ p.pc = "read" /\ p.tries = q.tries + 1 /\ p.wver = q.wver
        /\ p.res = q.res /\ p.uid = q.uid
    BY <2>1 DEF Request
  <2>3. Put(r, p)
    BY <1>8, <2>1 DEF Conflict, MaxUserUpdateAttempts
  <2>4. BeatenBy(q.tries + 1, q.uid, w)
    <3>1. CASE q.tries = 0
      BY <1>7, <3>1, SMT, SMTT(30) DEF BeatenBy
    <3>2. CASE q.tries = 1
      <4>1. PICK a \in Requests : Won(a, q.uid, v)
        <5>1. q.tries >= 1
          BY <3>2
        <5>2. QED
          BY <1>5, <5>1, Zenon DEF BeatenBy
      <4>2. Won(a, q.uid, w) /\ req[a].wver < req[c].wver
        BY <1>4, <1>6, <4>1
      <4>3. q.tries + 1 = 2
        BY <3>2
      <4>4. BeatenBy(2, q.uid, w)
        <5>1. 2 < 3
          OBVIOUS
        <5>2. \E b \in Requests : Won(b, q.uid, w)
          BY <1>7, Zenon
        <5>3. \E d, b \in Requests :
                Won(d, q.uid, w) /\ Won(b, q.uid, w) /\ req[d].wver < req[b].wver
          BY <1>7, <4>2, Zenon
        <5>4. QED
          BY <5>1, <5>2, <5>3, Zenon DEF BeatenBy
      <4>5. QED
        BY <4>3, <4>4, Zenon
    <3>3. QED
      BY <1>1, <1>8, <3>1, <3>2, SMT, SMTT(30)
  <2>5. \A s \in Requests : req'[s].wver = req[s].wver /\ req'[s].uid = req[s].uid
    BY <2>2, <2>3 DEF IInv, Put
  <2>6. Recorded
    <3>1. \A u \in DOMAIN users : users[u].version \in Nat
      BY DEF IInv, StoreOK, Row
    <3>2. QED
      BY <2>5, <3>1, SMT, SMTT(30) DEF Recorded
  <2>7. BeatenBy(q.tries + 1, q.uid, w)'
    <3>1. PICK n \in Nat : n = q.tries + 1
      BY <1>1, SMT, SMTT(30)
    <3>2. BeatenBy(n, q.uid, w)'
      BY <2>4, <2>6, <3>1, BeatenByFrame, SMT, SMTT(30)
    <3>3. QED
      BY <3>1, <3>2
  <2>8. BeatenBy(p.tries, p.uid, Start(p))'
    BY <1>3, <2>2, <2>7 DEF Start
  <2>9. Beaten(p)'
    BY <1>1, <2>2, <2>8 DEF Beaten, Early, Attempt
  <2>10. QED
    BY <2>3, <2>6, <2>9, KStep
<1>9. ASSUME ~(q.tries + 1 < 3)
      PROVE  KInv'
  <2>1. Put(r, UpdateFailed(q, "conflict")) /\ SameVersions
    BY <1>9 DEF Conflict, MaxUserUpdateAttempts, SameVersions
  <2>2. CASE q.op = "Login"
    BY <1>1, <2>1, <2>2, FirstFactorPasses, PassStep DEF UpdateFailed
  <2>3. CASE q.op # "Login"
    <3>1. PICK p : p = Done(q, "conflict")
      OBVIOUS
    <3>2. p.pc = "done" /\ p.wver = q.wver /\ p.uid = q.uid
      BY <3>1 DEF Done, Request
    <3>3. Put(r, p)
      BY <2>1, <2>3, <3>1 DEF UpdateFailed
    <3>4. \A s \in Requests : req'[s].wver = req[s].wver /\ req'[s].uid = req[s].uid
      BY <3>2, <3>3 DEF IInv, Put
    <3>5. Recorded
      <4>1. \A u \in DOMAIN users : users[u].version \in Nat
        BY DEF IInv, StoreOK, Row
      <4>2. QED
        BY <3>4, <4>1, SMT, SMTT(30) DEF Recorded
    <3>6. PICK a \in Requests, b \in Requests :
            Won(a, q.uid, v) /\ Won(b, q.uid, v) /\ req[a].wver < req[b].wver
      <4>1. q.tries >= 2
        BY ONLY <1>1, <1>9
      <4>2. QED
        BY <1>5, <4>1, Zenon DEF BeatenBy
    <3>7. /\ req[a].uid = q.uid /\ req[b].uid = q.uid /\ req[c].uid = q.uid
          /\ 0 < req[a].wver /\ req[a].wver < req[b].wver /\ req[b].wver < req[c].wver
      BY <1>1, <1>4, <1>6, <3>6 DEF Won
    <3>8. BeatenThrice(q.uid)'
      BY <3>4, <3>7, SMT, SMTT(30) DEF BeatenThrice
    <3>9. Beaten(p)'
      BY <3>2, <3>8, Zenon DEF Beaten, Early, Attempt
    <3>10. QED
      BY <3>3, <3>5, <3>9, KStep
  <2>4. QED
    BY <2>2, <2>3
<1>10. QED
  BY <1>8, <1>9

(* UserStore.UpdateUser.                                                   *)
LEMMA UpdateUserK ==
  ASSUME IInv, IInv', KInv, NEW r \in Requests, UpdateUser(r)
  PROVE  KInv'
<1>1. PICK q \in Request : q = req[r] /\ Beaten(q) /\ ReqOK(q)
  BY DEF IInv, KInv
<1>2. q.pc = "write" /\ q.res = "none"
  BY <1>1 DEF UpdateUser, Beaten
<1>3. q.uid \in DOMAIN users /\ users[q.uid].version + 1 \in Nat
  <2>1. q.uid \in DOMAIN users /\ users[q.uid] \in Row
    BY <1>1, <1>2 DEF ReqOK, Knows, UserPCs, IInv, StoreOK
  <2>2. QED
    BY <2>1 DEF Row
<1>4. PICK version \in Nat : version = users[q.uid].version + 1
  BY <1>3
<1>5. CASE /\ users' = [users EXCEPT ![q.uid] = [q.cur EXCEPT !.version = version]]
           /\ Put(r, Updated([q EXCEPT !.wver = version]))
  BY <1>1, <1>2, <1>3, <1>4, <1>5, WriteK, Zenon
<1>6. CASE users' = users /\ Put(r, UpdateFailed(q, "err"))
  BY <1>1, <1>2, <1>6, UpdateFailedPasses, PassStep, Zenon DEF SameVersions
<1>7. CASE ~VersionMatches(q) /\ users' = users /\ Put(r, Conflict(q))
  BY <1>1, <1>2, <1>7, ConflictK
<1>8. QED
  BY <1>1, <1>4, <1>5, <1>6, <1>7, Zenon DEF UpdateUser

-----------------------------------------------------------------------------
(* The invariant KInv holds initially and is kept by every step.           *)

(* Nobody has begun.                                                       *)
LEMMA InitKInv == Init => KInv
<1> SUFFICES ASSUME Init, NEW r \in Requests PROVE Beaten(req[r])
  BY DEF KInv
<1>1. req[r] = Idle
  BY DEF Init
<1>2. Beaten(Idle)
  BY IdleFields DEF Beaten, Early, Attempt
<1>3. QED
  BY <1>1, <1>2

(* Every step keeps it.                                                    *)
LEMMA NextKInv == IInv /\ IInv' /\ KInv /\ [Next]_vars => KInv'
<1> SUFFICES ASSUME IInv, IInv', KInv, [Next]_vars PROVE KInv'
  BY SMTT(30)
<1>1. CASE UNCHANGED vars \/ DeleteExpiredTokens
  <2>1. users' = users /\ req' = req
    BY <1>1 DEF vars, stores, DeleteExpiredTokens
  <2>2. QED
    BY <2>1, ZenonT(30) DEF KInv, Beaten, BeatenBy, BeatenThrice, Won, Start
<1>2. ASSUME NEW r \in Requests, Call(r) \/ StoreCall(r) \/ StoreError(r)
      PROVE  KInv'
  BY <1>2, CallK, GetUserByEmailK, CreateUserK, GetUserByIDK, ReadForUpdateK, StillFreeK,
     UpdateUserK, ConsumeTokenK, LaterK DEF StoreCall
<1>3. QED
  BY <1>1, <1>2 DEF Next

(* updateUserWithRetry gives up with ErrConcurrentUpdate only when it was  *)
(* beaten maxUserUpdateAttempts times, each time by a different request's  *)
(* write, however many requests contend for the row.                       *)
THEOREM LosersWereBeaten == Spec => []GivesUpOnlyIfBeaten
<1>1. IInv /\ KInv => GivesUpOnlyIfBeaten
  <2> SUFFICES ASSUME IInv, KInv, NEW r \in Requests, req[r].res = "conflict"
               PROVE  \E by \in [1 .. 3 -> Requests] :
                        /\ \A n \in DOMAIN by : req[by[n]].uid = req[r].uid /\ req[by[n]].wver > 0
                        /\ \A n, m \in DOMAIN by : n < m => req[by[n]].wver < req[by[m]].wver
    BY DEF GivesUpOnlyIfBeaten, MaxUserUpdateAttempts
  <2>1. BeatenThrice(req[r].uid)
    BY DEF KInv, Beaten
  <2>2. \A a \in Requests : req[a].wver \in Nat
    BY DEF IInv, Request
  <2>3. PICK a \in Requests, b \in Requests, c \in Requests :
          /\ req[a].uid = req[r].uid /\ req[b].uid = req[r].uid /\ req[c].uid = req[r].uid
          /\ 0 < req[a].wver /\ req[a].wver < req[b].wver /\ req[b].wver < req[c].wver
    BY <2>1 DEF BeatenThrice
  <2>4. PICK by : by = [n \in 1 .. 3 |-> IF n = 1 THEN a ELSE IF n = 2 THEN b ELSE c]
    BY Zenon
  <2>5. by \in [1 .. 3 -> Requests] /\ by[1] = a /\ by[2] = b /\ by[3] = c
    BY <2>4, SMT, SMTT(30)
  <2>6. \A n \in 1 .. 3 : req[by[n]].uid = req[r].uid /\ req[by[n]].wver > 0
    BY <2>2, <2>3, <2>5
  <2>7. \A n, m \in 1 .. 3 : n < m => req[by[n]].wver < req[by[m]].wver
    BY <2>2, <2>3, <2>5, SMT, SMTT(30)
  <2>8. QED
    BY <2>5, <2>6, <2>7
<1>2. Init => IInv /\ KInv
  BY InitIInv, InitKInv
<1>3. IInv /\ KInv /\ [Next]_vars => (IInv /\ KInv)'
  BY NextIInv, NextKInv
<1>4. QED
  BY <1>1, <1>2, <1>3, PTL DEF Spec

=============================================================================
