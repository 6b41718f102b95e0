---------------------------- MODULE AccountProofs ----------------------------
(***************************************************************************)
(* More proofs about Sulis: verified addresses, the gate on unverified     *)
(* accounts, what a flow cuts off, and one session a sign-in.  They rest   *)
(* on the invariant IInv of SulisProofs and a further one.                 *)
(***************************************************************************)
EXTENDS SulisProofs

-----------------------------------------------------------------------------
(* The invariant JInv: the stores.                                         *)

Proved(u) == users[u].verified \/ users[u].email \in proven

MailOK(t) ==
  /\ t.uid = {} => t.purpose = "magic_link"
  /\ (t.uid = {} \/ t.purpose \in {"email_verification", "email_change"}) =>
       \E e \in Emails : t.email = {e} /\ t.mailbox = {e}
  /\ t.purpose = "magic_link" =>
       \A u \in t.uid : users[u].verified \/ t.mailbox = {users[u].email}

SessionOK(x) ==
  /\ x.id < nextId /\ x.root < nextId
  /\ RequireVerifiedEmail => users[x.uid].verified \/ x.via = "Register"

StoresOK ==
  /\ \A u \in DOMAIN users : users[u].verified => users[u].email \in proven
  /\ \A t \in tokens : MailOK(t)
  /\ \A x \in sessions : SessionOK(x)
  /\ \A x, y \in sessions : x.id = y.id \/ x.root = y.root => x = y

-----------------------------------------------------------------------------
(* The invariant JInv: the requests.                                       *)

(* Whatever place it is at, a request's copy of a verified row is of its   *)
(* account, and so is the write it made.                                   *)
Base(q) ==
  /\ q.user.verified => q.uid \in DOMAIN users /\ users[q.uid].verified
  /\ q.wver > 0 => q.uid \in DOMAIN users /\ q.wver <= users[q.uid].version
  /\ q.nil => q.op = "CreateMagicLinkToken"

Purges == {"purgeReset", "purge2FA", "purgeMagic"}

Purging == SetsPassword \cup {"ConfirmEmailChange"}

(* Which flows make which store call (the ones that update a row or create *)
(* one are in Fits).                                                       *)
Way(q) ==
  /\ q.pc = "consume" => q.op \in {"ResetPassword", "VerifyEmail", "ConfirmEmailChange",
                                   "RedeemMagicLink", "CompleteTwoFactor"}
  /\ q.pc \in {"lookup", "relookup"} =>
       q.op \in {"Login", "RedeemMagicLink", "ChangeEmail", "CreatePasswordResetToken",
                 "CreateMagicLinkToken"}
  /\ q.pc = "load" =>
       q.op \in {"VerifyEmail", "RedeemMagicLink", "ChangePassword", "CompleteTwoFactor",
                 "CreateEmailVerificationToken", "CreateTwoFactorToken",
                 "IssueSessionUnchecked", "RefreshSession"}
  /\ q.pc = "reload" => q.op \in Stamps
  /\ q.pc = "factor" => q.op \in {"Login", "RedeemMagicLink"}
  /\ q.pc = "token" =>
       q.op \in {"Login", "RedeemMagicLink", "ChangeEmail", "CreatePasswordResetToken",
                 "CreateMagicLinkToken", "CreateEmailVerificationToken",
                 "CreateTwoFactorToken"}
  /\ q.pc = "session" =>
       q.op \in {"Register", "Login", "RedeemMagicLink", "CompleteTwoFactor",
                 "IssueSessionUnchecked", "RefreshSession"}
  /\ q.pc = "delete" => q.op \in {"RefreshSession", "RevokeSession"}
  /\ q.pc \in Purges => q.op \in Purging

(* Before its write, and before its token tells it whose it is.            *)
Before(q) ==
  /\ q.pc \in {"idle", "lookup", "relookup", "create", "consume", "load", "read", "taken",
               "write", "reload", "delete"} => q.wver = 0
  /\ q.pc \in {"idle", "consume"} => ~q.user.verified

(* Past the gate of requireVerifiedEmail.                                  *)
Gated(q) ==
  q.pc \in {"factor", "session"} /\ q.op # "Register" =>
    (RequireVerifiedEmail => q.user.verified)

(* What a mailbox has proved to it.                                        *)
Shown(q) ==
  /\ q.op = "VerifyEmail" /\ q.pc = "load" => q.email \in proven
  /\ q.op = "RedeemMagicLink" /\ q.pc \in {"lookup", "relookup", "create"} => q.email \in proven
  /\ q.op = "RedeemMagicLink" /\ q.pc = "load" => Proved(q.uid)
  /\ q.op \in Stamps /\ q.pc \in {"read", "taken", "write"} => Proved(q.uid)
  /\ q.op = "ConfirmEmailChange" /\ q.pc \in {"read", "taken", "write"} => q.email \in proven
  /\ q.op = "CreateMagicLinkToken" /\ q.pc = "token" /\ ~q.nil =>
       users[q.uid].verified \/ users[q.uid].email = q.email

Returned(q) == q.pc = "done" /\ q.res = "ok"

(* It has revoked the sessions that were there when it wrote.              *)
HasRevoked(q) ==
  \/ q.op \in SetsPassword /\ RevokeSessionsOnPasswordChange /\ (q.pc \in Purges \/ Returned(q))
  \/ q.op = "ConfirmEmailChange" /\ (q.pc \in Purges \/ Returned(q))
  \/ q.op = "DisableUser" /\ Returned(q)
  \/ q.op = "VerifyEmail" /\ q.wver > 0 /\ q.hadpw /\ Returned(q)

(* The purposes whose tokens it has purged.                                *)
HasPurged(q) ==
  IF q.op \notin Purging THEN {}
  ELSE CASE q.pc = "purge2FA" -> {"password_reset"}
         [] q.pc = "purgeMagic" -> {"password_reset", "two_factor"}
         [] Returned(q) -> {"password_reset", "two_factor", "magic_link"}
         [] OTHER -> {}

Cut(q) ==
  /\ HasRevoked(q) => \A x \in sessions : x.uid = q.uid => x.born >= q.wver
  /\ \A t \in tokens : t.uid = {q.uid} /\ t.purpose \in HasPurged(q) => t.born >= q.wver

(* It holds the root of the session it rotates, which is gone.             *)
Holding(q) == q.op = "RefreshSession" /\ q.pc \in {"load", "session"}

Rooted(q) ==
  /\ q.op = "RefreshSession" /\ q.pc = "delete" =>
       /\ q.sess < nextId
       /\ \A x \in sessions : x.id = q.sess => x.root = q.root
  /\ Holding(q) => q.root < nextId /\ \A x \in sessions : x.root # q.root

Place(q) == Way(q) /\ Before(q) /\ Gated(q) /\ Shown(q) /\ Cut(q) /\ Rooted(q)

RootsApart ==
  \A r, s \in Requests :
    r # s /\ Holding(req[r]) /\ Holding(req[s]) => req[r].root # req[s].root

JInv ==
  /\ StoresOK /\ RootsApart
  /\ \A r \in Requests : Base(req[r]) /\ Place(req[r])

-----------------------------------------------------------------------------
(* The tails of the flows, again: what they keep of a request besides who  *)
(* it is, and where they take it.                                          *)

Same(q, p) ==
  /\ p.op = q.op /\ p.uid = q.uid /\ p.email = q.email /\ p.nil = q.nil
  /\ p.sess = q.sess /\ p.root = q.root /\ p.user = q.user
  /\ p.hadpw = q.hadpw /\ p.tries = q.tries /\ p.wver = q.wver
  /\ p.pc = "done" \/ p.res = q.res

(* A request that has returned an error, or passed the gate on its way to  *)
(* its second factor, has its part of the invariant.                       *)
Quiet(p) ==
  \/ p.pc = "done" /\ p.res \in {"err", "conflict"}
  \/ /\ p.pc = "factor" /\ p.op \in {"Login", "RedeemMagicLink"}
     /\ requireVerifiedEmail(p.user)

(* Moving a request to another store call keeps the rest.                  *)
LEMMA SameSetPC ==
  ASSUME NEW q \in Request, NEW pc \in PCs
  PROVE  Same(q, [q EXCEPT !.pc = pc]) /\ [q EXCEPT !.pc = pc].pc = pc
BY DEF Same, Request

(* Returning keeps the rest.                                               *)
LEMMA SameDone ==
  ASSUME NEW q \in Request, NEW res \in Results
  PROVE  /\ Same(q, Done(q, res)) /\ Done(q, res).pc = "done"
         /\ Done(q, res).res = res
BY DEF Same, Done, Request

(* The part of a quiet request, before and after a step.                   *)
LEMMA QuietPlace ==
  ASSUME NEW p, Quiet(p)
  PROVE  Place(p) /\ Place(p)'
<1>1. CASE p.pc = "done" /\ p.res \in {"err", "conflict"}
  <2>1. HasRevoked(p) = FALSE /\ HasPurged(p) = {} /\ Holding(p) = FALSE
    BY <1>1 DEF HasRevoked, HasPurged, Returned, Purges, Holding
  <2>2. Way(p) /\ Before(p) /\ Gated(p)
    BY <1>1 DEF Way, Before, Gated, Purges
  <2>3. Shown(p) /\ Shown(p)'
    BY <1>1 DEF Shown
  <2>4. Cut(p) /\ Cut(p)'
    BY <2>1 DEF Cut
  <2>5. Rooted(p) /\ Rooted(p)'
    BY <1>1, <2>1 DEF Rooted
  <2>6. QED
    BY <2>2, <2>3, <2>4, <2>5 DEF Place
<1>2. CASE /\ p.pc = "factor" /\ p.op \in {"Login", "RedeemMagicLink"}
           /\ requireVerifiedEmail(p.user)
  <2>1. HasRevoked(p) = FALSE /\ HasPurged(p) = {} /\ Holding(p) = FALSE
    BY <1>2 DEF HasRevoked, HasPurged, Returned, Purges, Holding, SetsPassword, Purging
  <2>2. Way(p) /\ Before(p) /\ Gated(p)
    BY <1>2 DEF Way, Before, Gated, Purges, requireVerifiedEmail
  <2>3. Shown(p) /\ Shown(p)'
    BY <1>2 DEF Shown
  <2>4. Cut(p) /\ Cut(p)'
    BY <2>1 DEF Cut
  <2>5. Rooted(p) /\ Rooted(p)'
    BY <1>2, <2>1 DEF Rooted
  <2>6. QED
    BY <2>2, <2>3, <2>4, <2>5 DEF Place
<1>3. QED
  BY <1>1, <1>2 DEF Quiet

(* completeFirstFactor: refused, or past the gate.                         *)
LEMMA FirstFactorQuiet ==
  ASSUME NEW q \in Request, q.op \in {"Login", "RedeemMagicLink"}
  PROVE  Same(q, completeFirstFactor(q)) /\ Quiet(completeFirstFactor(q))
<1>1. CASE MayHaveSession(q.user)
  <2> DEFINE p == [q EXCEPT !.pc = "factor"]
  <2>1. Same(q, p) /\ p.pc = "factor"
    BY SameSetPC, Zenon DEF PCs
  <2>2. completeFirstFactor(q) = p
    BY <1>1 DEF completeFirstFactor
  <2> HIDE DEF p
  <2>3. Quiet(p)
    BY <1>1, <2>1 DEF Quiet, Same, MayHaveSession
  <2>4. QED
    BY <2>1, <2>2, <2>3
<1>2. CASE ~MayHaveSession(q.user)
  <2>1. completeFirstFactor(q) = Done(q, "err")
    BY <1>2 DEF completeFirstFactor
  <2>2. QED
    BY <2>1, SameDone DEF Quiet, Results
<1>3. QED
  BY <1>1, <1>2

(* updateUserWithRetry returning an error.                                 *)
LEMMA UpdateFailedQuiet ==
  ASSUME NEW q \in Request, NEW res \in {"err", "conflict"}
  PROVE  /\ Same(q, UpdateFailed(q, res)) /\ Quiet(UpdateFailed(q, res))
         /\ UpdateFailed(q, res).pc = "done" => UpdateFailed(q, res).res \in {"err", res}
<1>1. CASE q.op = "Login"
  <2>1. UpdateFailed(q, res) = completeFirstFactor(q)
    BY <1>1 DEF UpdateFailed
  <2>2. completeFirstFactor(q).pc = "done" => completeFirstFactor(q).res = "err"
    <3>1. [q EXCEPT !.pc = "factor"].pc = "factor"
      BY DEF Request
    <3>2. Done(q, "err").res = "err"
      BY SameDone DEF Results
    <3>3. QED
      BY <3>1, <3>2 DEF completeFirstFactor
  <2>3. QED
    BY <1>1, <2>1, <2>2, FirstFactorQuiet
<1>2. CASE q.op # "Login"
  <2>1. UpdateFailed(q, res) = Done(q, res)
    BY <1>2 DEF UpdateFailed
  <2>2. QED
    BY <2>1, SameDone DEF Quiet, Results
<1>3. QED
  BY <1>1, <1>2

(* A request whose part of the invariant needs what is in Base keeps it    *)
(* when only its place changes.                                            *)
LEMMA SameBase ==
  ASSUME NEW q, NEW p, Same(q, p)
  PROVE  (Base(q) => Base(p)) /\ (Base(q)' => Base(p)')
BY DEF Same, Base

-----------------------------------------------------------------------------
(* What others may do to the stores.                                       *)

RowMoves(old, new) ==
  /\ new.version >= old.version
  /\ old.verified => new.verified
  /\ new.verified \/ new.email = old.email

(* A session or token is one that was there, or is stored now, with the    *)
(* version its owner has.                                                  *)
SessionMoves(x) ==
  \/ x \in sessions
  \/ x.id = nextId /\ x.uid \in DOMAIN users /\ x.born = users[x.uid].version

TokenMoves(t) ==
  \/ \E s \in tokens : s.uid = t.uid /\ s.purpose = t.purpose /\ s.born = t.born
  \/ \A u \in t.uid : u \in DOMAIN users /\ t.born = users[u].version

Moves ==
  /\ DOMAIN users \subseteq DOMAIN users'
  /\ \A u \in DOMAIN users : RowMoves(users[u], users'[u])
  /\ proven \subseteq proven'
  /\ nextId' >= nextId
  /\ \A x \in sessions' : SessionMoves(x)
  /\ \A t \in tokens' : TokenMoves(t)

(* No session stored now takes the root a request holds.                   *)
RootFree(q) == Holding(q) => \A x \in sessions' : x \in sessions \/ x.root # q.root

(* What a request knows of its account stays true.                         *)
LEMMA BaseFrame ==
  ASSUME NEW q \in Request, StoreOK, StoreOK', Moves, Base(q)
  PROVE  Base(q)'
<1>1. q.user.verified => q.uid \in DOMAIN users' /\ users'[q.uid].verified
  BY DEF Base, Moves, RowMoves
<1>2. ASSUME q.wver > 0
      PROVE  q.uid \in DOMAIN users' /\ q.wver <= users'[q.uid].version
  <2>1. q.uid \in DOMAIN users /\ q.wver <= users[q.uid].version
    BY <1>2 DEF Base
  <2>2. q.uid \in DOMAIN users' /\ users'[q.uid].version >= users[q.uid].version
    BY <2>1 DEF Moves, RowMoves
  <2>3. users'[q.uid].version \in Nat /\ users[q.uid].version \in Nat /\ q.wver \in Nat
    BY <2>1, <2>2 DEF StoreOK, Row, Request
  <2>4. QED
    BY <2>1, <2>2, <2>3
<1>3. QED
  BY <1>1, <1>2 DEF Base

(* What a mailbox has proved to it stays proved: an address changes only   *)
(* together with its verification.                                         *)
LEMMA ShownFrame ==
  ASSUME NEW q \in Request, Moves, Knows(q), Shown(q)
  PROVE  Shown(q)'
<1>1. proven \subseteq proven'
  BY DEF Moves
<1>2. ASSUME q.uid \in DOMAIN users, Proved(q.uid)
      PROVE  Proved(q.uid)'
  BY <1>1, <1>2 DEF Moves, RowMoves, Proved
<1>3. ASSUME q.pc \in {"load", "read", "taken", "write"} \/ (q.pc = "token" /\ ~q.nil)
      PROVE  q.uid \in DOMAIN users
  BY <1>3 DEF Knows, UserPCs
<1>4. ASSUME q.uid \in DOMAIN users, users[q.uid].verified \/ users[q.uid].email = q.email
      PROVE  users'[q.uid].verified \/ users'[q.uid].email = q.email
  BY <1>4 DEF Moves, RowMoves
<1>5. QED
  BY <1>1, <1>2, <1>3, <1>4 DEF Shown

(* What it has cut off stays cut off: what is stored now carries the       *)
(* version its owner has now, which is that of its write or later.         *)
LEMMA CutFrame ==
  ASSUME NEW q \in Request, StoreOK, StoreOK', Moves, Base(q), Cut(q)
  PROVE  Cut(q)'
<1>1. q.wver \in Nat
  BY DEF Request
<1>2. ASSUME q.uid \in DOMAIN users
      PROVE  users[q.uid].version >= q.wver
  <2>1. users[q.uid].version \in Nat
    BY <1>2 DEF StoreOK, Row
  <2>2. QED
    BY <1>1, <2>1 DEF Base
<1>3. ASSUME HasRevoked(q), NEW x \in sessions', x.uid = q.uid
      PROVE  x.born >= q.wver
  BY <1>2, <1>3 DEF Moves, SessionMoves, Cut
<1>4. ASSUME NEW t \in tokens', t.uid = {q.uid}, t.purpose \in HasPurged(q)
      PROVE  t.born >= q.wver
  <2>1. CASE \E s \in tokens : s.uid = t.uid /\ s.purpose = t.purpose /\ s.born = t.born
    BY <1>4, <2>1 DEF Cut
  <2>2. CASE \A u \in t.uid : u \in DOMAIN users /\ t.born = users[u].version
    BY <1>2, <1>4, <2>2
  <2>3. QED
    BY <2>1, <2>2 DEF Moves, TokenMoves
<1>5. QED
  BY <1>3, <1>4 DEF Cut

(* The root it holds stays its own, and a session id is not given twice.   *)
LEMMA RootedFrame ==
  ASSUME NEW q \in Request, StoreOK, StoreOK', Moves, RootFree(q), Rooted(q)
  PROVE  Rooted(q)'
<1>1. /\ q.sess \in Nat /\ q.root \in Nat /\ nextId \in Nat /\ nextId' \in Nat
      /\ nextId' >= nextId
  BY DEF Request, StoreOK, Moves
<1>2. ASSUME q.op = "RefreshSession", q.pc = "delete"
      PROVE  q.sess < nextId' /\ \A x \in sessions' : x.id = q.sess => x.root = q.root
  <2>1. q.sess < nextId /\ \A x \in sessions : x.id = q.sess => x.root = q.root
    BY <1>2 DEF Rooted
  <2>2. q.sess < nextId'
    BY <1>1, <2>1
  <2>3. ASSUME NEW x \in sessions', x.id = q.sess
        PROVE  x \in sessions
    BY <1>1, <2>1, <2>3 DEF Moves, SessionMoves
  <2>4. QED
    BY <2>1, <2>2, <2>3
<1>3. ASSUME Holding(q)
      PROVE  q.root < nextId' /\ \A x \in sessions' : x.root # q.root
  <2>1. q.root < nextId /\ \A x \in sessions : x.root # q.root
    BY <1>3 DEF Rooted
  <2>2. QED
    BY <1>1, <1>3, <2>1 DEF RootFree
<1>4. QED
  BY <1>2, <1>3 DEF Rooted

(* So a request that does not move keeps its part of the invariant.        *)
LEMMA PlaceFrame ==
  ASSUME NEW q \in Request, StoreOK, StoreOK', Moves, Knows(q), Base(q), Place(q), RootFree(q)
  PROVE  Base(q)' /\ Place(q)'
<1>1. Base(q)' /\ Shown(q)' /\ Cut(q)' /\ Rooted(q)'
  BY BaseFrame, ShownFrame, CutFrame, RootedFrame DEF Place
<1>2. Way(q)' /\ Before(q)' /\ Gated(q)'
  BY DEF Place, Way, Before, Gated
<1>3. QED
  BY <1>1, <1>2 DEF Place

(* One request moves to p while the stores change as above.                *)
LEMMA JStep ==
  ASSUME IInv, IInv', JInv, NEW r \in Requests, NEW p, Put(r, p), Moves, StoresOK',
         Base(p)', Place(p)',
         \A s \in Requests : s # r => RootFree(req[s]),
         Holding(p) => \A s \in Requests :
                         s # r /\ Holding(req[s]) => req[s].root # p.root
  PROVE  JInv'
<1>1. req'[r] = p /\ \A s \in Requests : s # r => req'[s] = req[s]
  BY DEF IInv, Put
<1>2. ASSUME NEW s \in Requests
      PROVE  Base(req[s])' /\ Place(req[s])'
  <2>1. PICK q : q = req'[s]
    OBVIOUS
  <2>2. Base(q)' /\ Place(q)'
    <3>1. CASE s = r
      BY <1>1, <2>1, <3>1
    <3>2. CASE s # r
      <4>1. q \in Request /\ q = req[s] /\ Knows(q) /\ Base(q) /\ Place(q) /\ RootFree(q)
        BY <1>1, <2>1, <3>2 DEF IInv, JInv, ReqOK
      <4>2. QED
        BY <4>1, PlaceFrame DEF IInv
    <3>3. QED
      BY <3>1, <3>2
  <2>3. QED
    BY <2>1, <2>2
<1>3. RootsApart'
  <2>1. ASSUME NEW s \in Requests, NEW t \in Requests, s # t,
               Holding(req'[s]), Holding(req'[t])
        PROVE  req'[s].root # req'[t].root
    BY <1>1, <2>1 DEF JInv, RootsApart
  <2>2. \A q : Holding(q)' <=> Holding(q)
    BY DEF Holding
  <2>3. QED
    BY <2>1, <2>2 DEF RootsApart, Holding
<1>4. QED
  BY <1>2, <1>3 DEF JInv

-----------------------------------------------------------------------------
(* Steps that leave the stores alone.                                      *)

(* Nothing stored changes, and what was said of it stays true.             *)
LEMMA StoresStill ==
  ASSUME IInv, JInv, UNCHANGED stores
  PROVE  Moves /\ StoresOK' /\ \A q : RootFree(q)
<1>1. /\ users' = users /\ sessions' = sessions /\ tokens' = tokens
      /\ proven' = proven /\ nextId' = nextId
  BY DEF stores
<1>2. nextId \in Nat /\ \A u \in DOMAIN users : users[u].version \in Nat
  BY DEF IInv, StoreOK, Row
<1>3. \A u \in DOMAIN users : RowMoves(users[u], users[u])
  <2>1. \A u \in DOMAIN users : users[u].version >= users[u].version
    BY <1>2
  <2>2. QED
    BY <2>1 DEF RowMoves
<1>4. Moves
  BY <1>1, <1>2, <1>3 DEF Moves, SessionMoves, TokenMoves
<1>5. StoresOK'
  BY <1>1 DEF JInv, StoresOK, MailOK, SessionOK
<1>6. QED
  BY <1>1, <1>4, <1>5 DEF RootFree

(* A request that reads, decides or returns.                               *)
LEMMA ReadStep ==
  ASSUME IInv, IInv', JInv, NEW r \in Requests, NEW p, Put(r, p), UNCHANGED stores,
         Base(p), Place(p),
         Holding(p) => Holding(req[r]) /\ p.root = req[r].root
  PROVE  JInv'
<1>1. Moves /\ StoresOK' /\ \A q : RootFree(q)
  BY StoresStill
<1>2. p \in Request /\ Knows(p)'
  BY DEF IInv, Put, ReqOK
<1>3. Knows(p)
  BY <1>2 DEF Knows, stores
<1>4. Base(p)' /\ Place(p)'
  BY <1>1, <1>2, <1>3, PlaceFrame DEF IInv
<1>5. Holding(p) => \A s \in Requests :
                      s # r /\ Holding(req[s]) => req[s].root # p.root
  BY DEF JInv, RootsApart
<1>6. QED
  BY <1>1, <1>4, <1>5, JStep

(* The same, when it ends in an error or goes on to its second factor.     *)
LEMMA QuietStep ==
  ASSUME IInv, IInv', JInv, NEW r \in Requests, NEW p, Put(r, p), UNCHANGED stores,
         Same(req[r], p), Quiet(p)
  PROVE  JInv'
<1>1. Base(p) /\ Place(p)
  BY SameBase, QuietPlace DEF JInv
<1>2. ~Holding(p)
  BY DEF Quiet, Holding
<1>3. QED
  BY <1>1, <1>2, ReadStep

(* A flow begins: it has seen nothing and written nothing.                 *)
LEMMA BeginJ ==
  ASSUME IInv, IInv', JInv, NEW r \in Requests, NEW p, Begin(r, p),
         p.user = Idle.user, p.wver = Idle.wver, p.nil = Idle.nil,
         p.pc \in {"create", "lookup", "load", "read", "consume", "revoke", "delete"},
         Way(p),
         p.op \in Stamps \cup {"ConfirmEmailChange"} => p.pc = "consume",
         p.op = "RefreshSession" =>
           p.pc = "delete" /\ \E x \in sessions : x.id = p.sess /\ x.root = p.root
  PROVE  JInv'
<1>1. Put(r, p) /\ UNCHANGED stores
  BY DEF Begin
<1>2. ~p.user.verified /\ p.wver = 0 /\ ~p.nil
  BY IdleFields
<1>3. Base(p) /\ Before(p) /\ Gated(p) /\ Cut(p) /\ ~Holding(p)
  <2>1. ~HasRevoked(p) /\ HasPurged(p) = {} /\ ~Holding(p)
    BY DEF HasRevoked, HasPurged, Returned, Purges, Holding
  <2>2. QED
    BY <1>2, <2>1 DEF Base, Before, Gated, Cut
<1>4. Shown(p)
  BY DEF Shown, Stamps
<1>5. Rooted(p)
  <2>1. ASSUME p.op = "RefreshSession"
        PROVE  p.sess < nextId /\ \A x \in sessions : x.id = p.sess => x.root = p.root
    <3>1. PICK x \in sessions : x.id = p.sess /\ x.root = p.root
      BY <2>1
    <3>2. x.id < nextId /\ \A y \in sessions : y.id = x.id => y = x
      BY DEF JInv, StoresOK, SessionOK
    <3>3. QED
      BY <3>1, <3>2
  <2>2. QED
    BY <1>3, <2>1 DEF Rooted
<1>6. QED
  BY <1>1, <1>3, <1>4, <1>5, ReadStep DEF Place

(* Flows that begin by looking up an address.                              *)
LEMMA ByEmailJ ==
  ASSUME IInv, IInv', JInv, NEW r \in Requests,
         NEW op \in {"CreatePasswordResetToken", "CreateMagicLinkToken"},
         RequestByEmail(r, op)
  PROVE  JInv'
<1>1. PICK e \in Emails :
        Begin(r, [Idle EXCEPT !.op = op, !.pc = "lookup", !.email = e])
  BY Zenon DEF RequestByEmail
<1> DEFINE p == [Idle EXCEPT !.op = op, !.pc = "lookup", !.email = e]
<1>2. /\ p.user = Idle.user /\ p.wver = Idle.wver /\ p.nil = Idle.nil
      /\ p.op = op /\ p.pc = "lookup"
  BY IdleType DEF Request
<1>3. Begin(r, p)
  BY <1>1
<1> HIDE DEF p
<1>4. Way(p)
  BY <1>2 DEF Way, Purges
<1>5. QED
  BY <1>2, <1>3, <1>4, BeginJ DEF Stamps

(* Flows that begin by redeeming a token.                                  *)
LEMMA RedeemJ ==
  ASSUME IInv, IInv', JInv, NEW r \in Requests,
         NEW op \in {"ResetPassword", "VerifyEmail", "ConfirmEmailChange",
                     "RedeemMagicLink", "CompleteTwoFactor"},
         NEW u, NEW new, Redeem(r, op, u, new)
  PROVE  JInv'
<1>1. PICK t \in tokens :
        Begin(r, [Idle EXCEPT !.op = op, !.pc = "consume", !.tok = t.id,
                              !.uid = u, !.new = new])
  BY Zenon DEF Redeem
<1> DEFINE p == [Idle EXCEPT !.op = op, !.pc = "consume", !.tok = t.id,
                             !.uid = u, !.new = new]
<1>2. /\ p.user = Idle.user /\ p.wver = Idle.wver /\ p.nil = Idle.nil
      /\ p.op = op /\ p.pc = "consume"
  BY IdleType DEF Request
<1>3. Begin(r, p)
  BY <1>1
<1> HIDE DEF p
<1>4. Way(p)
  BY <1>2 DEF Way, Purges
<1>5. QED
  BY <1>2, <1>3, <1>4, BeginJ

(* Flows that begin from a user id.                                        *)
LEMMA ByIDJ ==
  ASSUME IInv, IInv', JInv, NEW r \in Requests, NEW op, NEW pc,
         \/ pc = "load" /\ op \in {"CreateEmailVerificationToken",
                                  "CreateTwoFactorToken", "IssueSessionUnchecked"}
         \/ pc = "revoke" /\ op = "RevokeAllSessions"
         \/ pc = "read" /\ op \in {"DisableUser", "EnableUser"},
         RequestByID(r, op, pc)
  PROVE  JInv'
<1>1. PICK u \in DOMAIN users :
        Begin(r, [Idle EXCEPT !.op = op, !.pc = pc, !.uid = u])
  BY Zenon DEF RequestByID
<1> DEFINE p == [Idle EXCEPT !.op = op, !.pc = pc, !.uid = u]
<1>2. /\ p.user = Idle.user /\ p.wver = Idle.wver /\ p.nil = Idle.nil
      /\ p.op = op /\ p.pc = pc
  BY IdleType DEF Request
<1>3. Begin(r, p)
  BY <1>1
<1> HIDE DEF p
<1>4. Way(p)
  BY <1>2 DEF Way, Purges
<1>5. QED
  BY <1>2, <1>3, <1>4, BeginJ DEF Stamps

(* Every flow begins with its part of the second invariant.                *)
LEMMA CallJ ==
  ASSUME IInv, IInv', JInv, NEW r \in Requests, Call(r)
  PROVE  JInv'
<1>1. CASE Register(r)
  <2>1. PICK e \in Emails, new \in Passwords :
          Begin(r, [Idle EXCEPT !.op = "Register", !.pc = "create",
                                !.email = e, !.new = new])
    BY <1>1, Zenon DEF Register
  <2> DEFINE p == [Idle EXCEPT !.op = "Register", !.pc = "create",
                               !.email = e, !.new = new]
  <2>2. /\ p.user = Idle.user /\ p.wver = Idle.wver /\ p.nil = Idle.nil
        /\ p.op = "Register" /\ p.pc = "create"
    BY IdleType DEF Request
  <2>3. Begin(r, p)
    BY <2>1
  <2> HIDE DEF p
  <2>4. Way(p)
    BY <2>2 DEF Way, Purges
  <2>5. QED
    BY <2>2, <2>3, <2>4, BeginJ DEF Stamps
<1>2. CASE Login(r)
  <2>1. PICK e \in Emails, pw \in Passwords :
          Begin(r, [Idle EXCEPT !.op = "Login", !.pc = "lookup",
                                !.email = e, !.pw = pw])
    BY <1>2, Zenon DEF Login
  <2> DEFINE p == [Idle EXCEPT !.op = "Login", !.pc = "lookup",
                               !.email = e, !.pw = pw]
  <2>2. /\ p.user = Idle.user /\ p.wver = Idle.wver /\ p.nil = Idle.nil
        /\ p.op = "Login" /\ p.pc = "lookup"
    BY IdleType DEF Request
  <2>3. Begin(r, p)
    BY <2>1
  <2> HIDE DEF p
  <2>4. Way(p)
    BY <2>2 DEF Way, Purges
  <2>5. QED
    BY <2>2, <2>3, <2>4, BeginJ DEF Stamps
<1>3. CASE ChangePassword(r)
  <2>1. PICK u \in DOMAIN users, pw \in Passwords, new \in Passwords :
          Begin(r, [Idle EXCEPT !.op = "ChangePassword", !.pc = "load",
                                !.uid = u, !.pw = pw, !.new = new])
    BY <1>3, Zenon DEF ChangePassword
  <2> DEFINE p == [Idle EXCEPT !.op = "ChangePassword", !.pc = "load",
                               !.uid = u, !.pw = pw, !.new = new]
  <2>2. /\ p.user = Idle.user /\ p.wver = Idle.wver /\ p.nil = Idle.nil
        /\ p.op = "ChangePassword" /\ p.pc = "load"
    BY IdleType DEF Request
  <2>3. Begin(r, p)
    BY <2>1
  <2> HIDE DEF p
  <2>4. Way(p)
    BY <2>2 DEF Way, Purges
  <2>5. QED
    BY <2>2, <2>3, <2>4, BeginJ DEF Stamps
<1>4. CASE SetInitialPassword(r)
  <2>1. PICK u \in DOMAIN users, new \in Passwords :
          Begin(r, [Idle EXCEPT !.op = "SetInitialPassword", !.pc = "read",
                                !.uid = u, !.new = new])
    BY <1>4, Zenon DEF SetInitialPassword
  <2> DEFINE p == [Idle EXCEPT !.op = "SetInitialPassword", !.pc = "read",
                               !.uid = u, !.new = new]
  <2>2. /\ p.user = Idle.user /\ p.wver = Idle.wver /\ p.nil = Idle.nil
        /\ p.op = "SetInitialPassword" /\ p.pc = "read"
    BY IdleType DEF Request
  <2>3. Begin(r, p)
    BY <2>1
  <2> HIDE DEF p
  <2>4. Way(p)
    BY <2>2 DEF Way, Purges
  <2>5. QED
    BY <2>2, <2>3, <2>4, BeginJ DEF Stamps
<1>5. CASE ChangeEmail(r)
  <2>1. PICK u \in DOMAIN users, e \in Emails :
          Begin(r, [Idle EXCEPT !.op = "ChangeEmail", !.pc = "lookup",
                                !.uid = u, !.email = e])
    BY <1>5, Zenon DEF ChangeEmail
  <2> DEFINE p == [Idle EXCEPT !.op = "ChangeEmail", !.pc = "lookup",
                               !.uid = u, !.email = e]
  <2>2. /\ p.user = Idle.user /\ p.wver = Idle.wver /\ p.nil = Idle.nil
        /\ p.op = "ChangeEmail" /\ p.pc = "lookup"
    BY IdleType DEF Request
  <2>3. Begin(r, p)
    BY <2>1
  <2> HIDE DEF p
  <2>4. Way(p)
    BY <2>2 DEF Way, Purges
  <2>5. QED
    BY <2>2, <2>3, <2>4, BeginJ DEF Stamps
<1>6. CASE RevokeSession(r)
  <2>1. PICK x \in sessions, u \in DOMAIN users :
          Begin(r, [Idle EXCEPT !.op = "RevokeSession", !.pc = "delete",
                                !.uid = u, !.sess = x.id])
    BY <1>6, Zenon DEF RevokeSession
  <2> DEFINE p == [Idle EXCEPT !.op = "RevokeSession", !.pc = "delete",
                               !.uid = u, !.sess = x.id]
  <2>2. /\ p.user = Idle.user /\ p.wver = Idle.wver /\ p.nil = Idle.nil
        /\ p.op = "RevokeSession" /\ p.pc = "delete"
    BY IdleType DEF Request
  <2>3. Begin(r, p)
    BY <2>1
  <2> HIDE DEF p
  <2>4. Way(p)
    BY <2>2 DEF Way, Purges
  <2>5. QED
    BY <2>2, <2>3, <2>4, BeginJ DEF Stamps
<1>7. CASE RefreshSession(r)
  <2>1. PICK x \in sessions :
          Begin(r, [Idle EXCEPT !.op = "RefreshSession", !.pc = "delete",
                                !.uid = x.uid, !.sess = x.id, !.root = x.root])
    BY <1>7, Zenon DEF RefreshSession
  <2> DEFINE p == [Idle EXCEPT !.op = "RefreshSession", !.pc = "delete",
                               !.uid = x.uid, !.sess = x.id, !.root = x.root]
  <2>2. /\ p.user = Idle.user /\ p.wver = Idle.wver /\ p.nil = Idle.nil
        /\ p.op = "RefreshSession" /\ p.pc = "delete" /\ p.sess = x.id /\ p.root = x.root
    BY IdleType DEF Request
  <2>3. Begin(r, p)
    BY <2>1
  <2> HIDE DEF p
  <2>4. Way(p)
    BY <2>2 DEF Way, Purges
  <2>5. QED
    BY <2>2, <2>3, <2>4, BeginJ DEF Stamps
<1>8. CASE CreatePasswordResetToken(r) \/ CreateMagicLinkToken(r)
  BY <1>8, ByEmailJ DEF CreatePasswordResetToken, CreateMagicLinkToken
<1>9. CASE ResetPassword(r) \/ RedeemMagicLink(r) \/ VerifyEmail(r)
           \/ ConfirmEmailChange(r) \/ CompleteTwoFactor(r)
  BY <1>9, RedeemJ DEF ResetPassword, RedeemMagicLink, VerifyEmail, ConfirmEmailChange,
                       CompleteTwoFactor
<1>10. CASE CreateEmailVerificationToken(r) \/ CreateTwoFactorToken(r)
            \/ IssueSessionUnchecked(r) \/ RevokeAllSessions(r)
            \/ DisableUser(r) \/ EnableUser(r)
  BY <1>10, ByIDJ DEF CreateEmailVerificationToken, CreateTwoFactorToken, EnableUser,
                      IssueSessionUnchecked, RevokeAllSessions, DisableUser
<1>11. QED
  BY <1>1, <1>2, <1>3, <1>4, <1>5, <1>6, <1>7, <1>8, <1>9, <1>10 DEF Call

-----------------------------------------------------------------------------
(* Where a flow may go next.                                               *)

(* Returning success needs what the flow promises to have cut off.         *)
LEMMA OkPlace ==
  ASSUME NEW p, p.pc = "done"
  PROVE  (Cut(p) => Place(p)) /\ (Cut(p)' => Place(p)')
<1>1. Way(p) /\ Before(p) /\ Gated(p)
  BY DEF Way, Before, Gated, Purges
<1>2. Shown(p) /\ Shown(p)' /\ Rooted(p) /\ Rooted(p)'
  BY DEF Shown, Rooted, Holding
<1>3. QED
  BY <1>1, <1>2 DEF Place

(* Most flows promise nothing.                                             *)
LEMMA NothingCut ==
  ASSUME NEW p, p.op \notin Purging \cup {"DisableUser"}, p.pc \notin Purges,
         p.op = "VerifyEmail" => p.wver = 0 \/ ~p.hadpw
  PROVE  Cut(p) /\ Cut(p)'
<1>1. ~HasRevoked(p) /\ HasPurged(p) = {}
  BY DEF HasRevoked, HasPurged, Purging
<1>2. QED
  BY <1>1 DEF Cut

(* VerifyEmail returning, or RedeemMagicLink going on to its session.      *)
LEMMA AfterStampPlace ==
  ASSUME NEW q \in Request, q.op \in Stamps,
         q.op = "VerifyEmail" => q.wver = 0 \/ ~q.hadpw
  PROVE  \E p : /\ p = AfterStamp(q) /\ Same(q, p) /\ p.pc \in {"done", "factor"}
                /\ Place(p) /\ Place(p)'
<1>1. CASE q.op = "VerifyEmail"
  <2>1. PICK p : p = Done(q, "ok")
    OBVIOUS
  <2>2. Same(q, p) /\ p.pc = "done"
    BY <2>1, SameDone DEF Results
  <2>3. Cut(p) /\ Cut(p)'
    BY <1>1, <2>2, NothingCut DEF Same, Purging, SetsPassword, Purges
  <2>4. Place(p) /\ Place(p)'
    BY <2>2, <2>3, OkPlace
  <2>5. p = AfterStamp(q)
    BY <1>1, <2>1 DEF AfterStamp
  <2>6. QED
    BY <2>2, <2>4, <2>5
<1>2. CASE q.op = "RedeemMagicLink"
  <2>1. PICK p : p = completeFirstFactor(q)
    OBVIOUS
  <2>2. Same(q, p) /\ Quiet(p)
    BY <1>2, <2>1, FirstFactorQuiet
  <2>3. Place(p) /\ Place(p)' /\ p.pc \in {"done", "factor"}
    BY <2>2, QuietPlace DEF Quiet
  <2>4. p = AfterStamp(q)
    BY <1>2, <2>1 DEF AfterStamp
  <2>5. QED
    BY <2>2, <2>3, <2>4
<1>3. QED
  BY <1>1, <1>2 DEF Stamps

(* In the middle of an update.                                             *)
LEMMA ReadPlace ==
  ASSUME NEW p, p.pc \in {"read", "taken", "write"}, p.wver = 0,
         p.op \in Stamps => Proved(p.uid),
         p.op = "ConfirmEmailChange" => p.email \in proven
  PROVE  Place(p)
<1>1. Way(p) /\ Before(p) /\ Gated(p)
  BY DEF Way, Before, Gated, Purges
<1>2. Shown(p)
  BY DEF Shown
<1>3. ~HasRevoked(p) /\ HasPurged(p) = {} /\ ~Holding(p)
  BY DEF HasRevoked, HasPurged, Returned, Purges, Holding
<1>4. Cut(p) /\ Rooted(p)
  BY <1>3 DEF Cut, Rooted
<1>5. QED
  BY <1>1, <1>2, <1>4 DEF Place

(* Going to store a token or a session.                                    *)
LEMMA TokenPlace ==
  ASSUME NEW p, p.pc = "token", Way(p),
         p.op = "CreateMagicLinkToken" /\ ~p.nil =>
           users[p.uid].verified \/ users[p.uid].email = p.email
  PROVE  Place(p)
<1>1. Before(p) /\ Gated(p)
  BY DEF Before, Gated
<1>2. Shown(p)
  BY DEF Shown
<1>3. ~HasRevoked(p) /\ HasPurged(p) = {} /\ ~Holding(p)
  BY DEF HasRevoked, HasPurged, Returned, Purges, Holding
<1>4. Cut(p) /\ Rooted(p)
  BY <1>3 DEF Cut, Rooted
<1>5. QED
  BY <1>1, <1>2, <1>4 DEF Place

(* A session is stored for a request past the gate.                        *)
LEMMA SessionPlace ==
  ASSUME NEW p, p.pc = "session", Way(p),
         p.op # "Register" => (RequireVerifiedEmail => p.user.verified),
         Rooted(p)
  PROVE  Place(p)
<1>1. Before(p) /\ Gated(p)
  BY DEF Before, Gated
<1>2. Shown(p)
  BY DEF Shown
<1>3. ~HasRevoked(p) /\ HasPurged(p) = {}
  BY DEF HasRevoked, HasPurged, Returned, Purges
<1>4. Cut(p)
  BY <1>3 DEF Cut
<1>5. QED
  BY <1>1, <1>2, <1>4 DEF Place

(* stampEmailVerified: the row is stamped already, or is read to stamp it. *)
LEMMA StampPlace ==
  ASSUME NEW q \in Request, q.op \in Stamps, q.wver = 0,
         ~q.user.verified => Proved(q.uid)
  PROVE  \E p : p = stampEmailVerified(q) /\ Same(q, p) /\ Place(p) /\ ~Holding(p)
<1>1. CASE q.user.verified
  <2>1. PICK p : /\ p = AfterStamp(q) /\ Same(q, p) /\ p.pc \in {"done", "factor"}
                 /\ Place(p)
    BY AfterStampPlace
  <2>2. QED
    BY <1>1, <2>1 DEF stampEmailVerified, Holding
<1>2. CASE ~q.user.verified
  <2>1. PICK p : p = [q EXCEPT !.pc = "read"]
    BY Zenon
  <2>2. Same(q, p) /\ p.pc = "read"
    BY <2>1, SameSetPC, Zenon DEF PCs
  <2>3. Place(p)
    BY <1>2, <2>2, ReadPlace DEF Same, Stamps
  <2>4. QED
    BY <1>2, <2>1, <2>2, <2>3, Zenon DEF stampEmailVerified, Holding
<1>3. QED
  BY <1>1, <1>2

(* VerifyPassword: wrong password, a re-hash first, or past the gate.      *)
LEMMA VerifyPasswordPlace ==
  ASSUME NEW q \in Request, q.op = "Login", q.wver = 0
  PROVE  \E p : p = VerifyPassword(q) /\ Same(q, p) /\ Place(p) /\ ~Holding(p)
<1>1. CASE VerifyPassword(q) = Done(q, "err")
  <2>1. PICK p : p = Done(q, "err")
    OBVIOUS
  <2>2. Same(q, p) /\ Quiet(p)
    BY <2>1, SameDone DEF Results, Quiet
  <2>3. QED
    BY <1>1, <2>1, <2>2, QuietPlace DEF Quiet, Holding
<1>2. CASE VerifyPassword(q) = [q EXCEPT !.pc = "read"]
  <2>1. PICK p : p = [q EXCEPT !.pc = "read"]
    BY Zenon
  <2>2. Same(q, p) /\ p.pc = "read"
    BY <2>1, SameSetPC, Zenon DEF PCs
  <2>3. Place(p)
    BY <2>2, ReadPlace DEF Same, Stamps
  <2>4. QED
    BY <1>2, <2>1, <2>2, <2>3, Zenon DEF Holding
<1>3. CASE VerifyPassword(q) = completeFirstFactor(q)
  <2>1. PICK p : p = completeFirstFactor(q)
    OBVIOUS
  <2>2. Same(q, p) /\ Quiet(p)
    BY <2>1, FirstFactorQuiet
  <2>3. QED
    BY <1>3, <2>1, <2>2, QuietPlace DEF Quiet, Holding
<1>4. QED
  BY <1>1, <1>2, <1>3 DEF VerifyPassword

-----------------------------------------------------------------------------
(* Store calls that read keep the second invariant.                        *)

(* GetUserByEmail finding an account: the request is now about it, with    *)
(* the row as stored.                                                      *)
LEMMA FoundPlace ==
  ASSUME NEW q \in Request, q.wver = 0, Base(q), Way(q), Shown(q),
         q.pc \in {"lookup", "relookup"},
         NEW u \in Uids, u \in DOMAIN users, users[u] \in Row, users[u].email = q.email
  PROVE  \E p : p = Found(q, u) /\ Base(p) /\ Place(p) /\ ~Holding(p)
<1> DEFINE o == [q EXCEPT !.uid = u, !.user = users[u]]
<1>1. /\ o \in Request /\ o.op = q.op /\ o.uid = u /\ o.user = users[u]
      /\ o.wver = q.wver /\ o.nil = q.nil /\ o.email = q.email /\ o.pc = q.pc
  BY Zenon DEF Request
<1>2. Found(q, u) = CASE q.op = "Login" -> VerifyPassword(o)
                      [] q.op = "RedeemMagicLink" -> stampEmailVerified(o)
                      [] q.op = "ChangeEmail" -> Done(q, "err")
                      [] OTHER -> [o EXCEPT !.pc = "token"]
  BY DEF Found
<1> HIDE DEF o
<1>3. Base(o)
  BY <1>1 DEF Base
<1>4. CASE q.op = "Login"
  <2>1. PICK p : p = VerifyPassword(o) /\ Same(o, p) /\ Place(p) /\ ~Holding(p)
    BY <1>1, <1>4, VerifyPasswordPlace
  <2>2. Base(p)
    BY <1>3, <2>1, SameBase
  <2>3. QED
    BY <1>2, <1>4, <2>1, <2>2
<1>5. CASE q.op = "RedeemMagicLink"
  <2>1. Proved(u)
    BY <1>5 DEF Shown, Proved
  <2>2. PICK p : p = stampEmailVerified(o) /\ Same(o, p) /\ Place(p) /\ ~Holding(p)
    BY <1>1, <1>5, <2>1, StampPlace DEF Stamps
  <2>3. Base(p)
    BY <1>3, <2>2, SameBase
  <2>4. QED
    BY <1>2, <1>5, <2>2, <2>3
<1>6. CASE q.op = "ChangeEmail"
  <2>1. PICK p : p = Done(q, "err")
    OBVIOUS
  <2>2. Same(q, p) /\ Quiet(p)
    BY <2>1, SameDone DEF Results, Quiet
  <2>3. Base(p) /\ Place(p) /\ ~Holding(p)
    BY <2>2, SameBase, QuietPlace DEF Quiet, Holding
  <2>4. QED
    BY <1>2, <1>6, <2>1, <2>3
<1>7. CASE q.op \in {"CreatePasswordResetToken", "CreateMagicLinkToken"}
  <2>1. PICK p : p = [o EXCEPT !.pc = "token"]
    BY Zenon
  <2>2. Same(o, p) /\ p.pc = "token"
    BY <1>1, <2>1, SameSetPC, Zenon DEF PCs
  <2>3. Way(p)
    BY <1>1, <1>7, <2>2 DEF Same, Way, Purges
  <2>4. Place(p)
    BY <1>1, <2>2, <2>3, TokenPlace DEF Same
  <2>5. QED
    BY <1>2, <1>3, <1>7, <2>1, <2>2, <2>4, SameBase, Zenon DEF Holding
<1>8. QED
  BY <1>4, <1>5, <1>6, <1>7 DEF Way

(* GetUserByEmail finding none.                                            *)
LEMMA NotFoundPlace ==
  ASSUME NEW q \in Request, q.wver = 0, Base(q), Shown(q), q.pc \in {"lookup", "relookup"}
  PROVE  \E p : p = NotFound(q) /\ Base(p) /\ Place(p) /\ ~Holding(p)
<1>1. CASE q.op = "CreatePasswordResetToken"
  <2>1. PICK p : p = Done(q, "ok")
    OBVIOUS
  <2>2. Same(q, p) /\ p.pc = "done"
    BY <2>1, SameDone DEF Results
  <2>3. Cut(p)
    BY <1>1, <2>2, NothingCut DEF Same, Purging, SetsPassword, Purges
  <2>4. Place(p) /\ Base(p)
    BY <2>2, <2>3, OkPlace, SameBase
  <2>5. QED
    BY <1>1, <2>1, <2>2, <2>4 DEF NotFound, Holding
<1>2. CASE q.op = "CreateMagicLinkToken"
  <2>1. PICK p : p = [q EXCEPT !.pc = "token", !.nil = TRUE]
    OBVIOUS
  <2>2. /\ p.op = q.op /\ p.pc = "token" /\ p.nil = TRUE /\ p.wver = q.wver
        /\ p.uid = q.uid /\ p.user = q.user
    BY <2>1 DEF Request
  <2>3. Way(p) /\ Base(p)
    BY <1>2, <2>2 DEF Way, Base, Purges
  <2>4. Place(p)
    BY <2>2, <2>3, TokenPlace
  <2>5. QED
    BY <1>2, <2>1, <2>2, <2>3, <2>4, Zenon DEF NotFound, Holding
<1>3. CASE q.op = "ChangeEmail"
  <2>1. PICK p : p = [q EXCEPT !.pc = "read"]
    BY Zenon
  <2>2. Same(q, p) /\ p.pc = "read"
    BY <2>1, SameSetPC, Zenon DEF PCs
  <2>3. Place(p) /\ Base(p)
    BY <1>3, <2>2, ReadPlace, SameBase DEF Same, Stamps
  <2>4. QED
    BY <1>3, <2>1, <2>2, <2>3, Zenon DEF NotFound, Holding
<1>4. CASE q.op = "RedeemMagicLink" /\ q.pc = "lookup"
  <2>1. PICK p : p = [q EXCEPT !.pc = "create"]
    BY Zenon
  <2>2. Same(q, p) /\ p.pc = "create"
    BY <2>1, SameSetPC, Zenon DEF PCs
  <2>3. Way(p) /\ Before(p) /\ Gated(p)
    BY <2>2 DEF Same, Way, Before, Gated, Purges
  <2>4. Shown(p)
    BY <1>4, <2>2 DEF Same, Shown, Stamps
  <2>5. ~Holding(p) /\ ~HasRevoked(p) /\ HasPurged(p) = {}
    BY <2>2 DEF Holding, HasRevoked, HasPurged, Returned, Purges
  <2>6. Place(p) /\ Base(p)
    BY <2>2, <2>3, <2>4, <2>5, SameBase DEF Place, Cut, Rooted
  <2>7. QED
    BY <1>4, <2>1, <2>5, <2>6 DEF NotFound
<1>5. CASE NotFound(q) = Done(q, "err")
  <2>1. PICK p : p = Done(q, "err")
    OBVIOUS
  <2>2. Same(q, p) /\ Quiet(p)
    BY <2>1, SameDone DEF Results, Quiet
  <2>3. QED
    BY <1>5, <2>1, <2>2, SameBase, QuietPlace DEF Quiet, Holding
<1>6. QED
  BY <1>1, <1>2, <1>3, <1>4, <1>5 DEF NotFound

(* UserStore.GetUserByEmail.                                               *)
LEMMA GetUserByEmailJ ==
  ASSUME IInv, IInv', JInv, NEW r \in Requests, GetUserByEmail(r)
  PROVE  JInv'
<1>1. PICK q \in Request : q = req[r] /\ Base(q) /\ Place(q)
  BY DEF IInv, JInv
<1>2. q.pc \in {"lookup", "relookup"} /\ UNCHANGED stores
  BY <1>1 DEF GetUserByEmail
<1>3. q.wver = 0 /\ Way(q) /\ Shown(q)
  BY <1>1, <1>2 DEF Place, Before
<1>4. ASSUME NEW u \in Holders(q.email), Put(r, Found(q, u))
      PROVE  JInv'
  <2>1. u \in DOMAIN users /\ u \in Uids /\ users[u] \in Row /\ users[u].email = q.email
    BY DEF Holders, IInv, StoreOK
  <2>2. PICK p : p = Found(q, u) /\ Base(p) /\ Place(p) /\ ~Holding(p)
    BY <1>1, <1>2, <1>3, <2>1, FoundPlace
  <2>3. QED
    BY <1>2, <1>4, <2>2, ReadStep
<1>5. CASE Put(r, NotFound(q))
  <2>1. PICK p : p = NotFound(q) /\ Base(p) /\ Place(p) /\ ~Holding(p)
    BY <1>1, <1>2, <1>3, NotFoundPlace
  <2>2. QED
    BY <1>2, <1>5, <2>1, ReadStep
<1>6. QED
  BY <1>1, <1>4, <1>5 DEF GetUserByEmail

(* GetUserByID loading the row a flow decides on.                          *)
LEMMA LoadedPlace ==
  ASSUME NEW q \in Request, q.pc = "load", q.wver = 0, Way(q), Rooted(q),
         q.uid \in DOMAIN users, q.user = users[q.uid], Shown(q), Base(q)
  PROVE  \E p : /\ p = Loaded(q) /\ Base(p) /\ Place(p)
                /\ Holding(p) => Holding(q) /\ p.root = q.root
<1>1. ASSUME Loaded(q) = Done(q, "err")
      PROVE  \E p : /\ p = Loaded(q) /\ Base(p) /\ Place(p)
                    /\ Holding(p) => Holding(q) /\ p.root = q.root
  <2>1. PICK p : p = Done(q, "err")
    BY SMTT(30)
  <2>2. Same(q, p) /\ Quiet(p)
    BY <2>1, SameDone DEF Results, Quiet
  <2>3. QED
    BY <1>1, <2>1, <2>2, SameBase, QuietPlace DEF Quiet, Holding
<1>2. ASSUME Loaded(q) = stampEmailVerified(q), q.op \in Stamps, Proved(q.uid)
      PROVE  \E p : /\ p = Loaded(q) /\ Base(p) /\ Place(p)
                    /\ Holding(p) => Holding(q) /\ p.root = q.root
  <2>1. PICK p : p = stampEmailVerified(q) /\ Same(q, p) /\ Place(p) /\ ~Holding(p)
    BY <1>2, StampPlace
  <2>2. QED
    BY <1>2, <2>1, SameBase
<1>3. CASE q.op = "VerifyEmail"
  <2>1. CASE q.user.email # q.email
    BY <1>1, <1>3, <2>1 DEF Loaded
  <2>2. CASE q.user.email = q.email
    <3>1. Proved(q.uid)
      BY <1>3, <2>2 DEF Shown, Proved
    <3>2. Loaded(q) = stampEmailVerified(q)
      BY <1>3, <2>2 DEF Loaded
    <3>3. QED
      BY <1>2, <1>3, <3>1, <3>2 DEF Stamps
  <2>3. QED
    BY <2>1, <2>2
<1>4. CASE q.op = "RedeemMagicLink"
  <2>1. Loaded(q) = stampEmailVerified(q) /\ Proved(q.uid)
    BY <1>4 DEF Loaded, Shown
  <2>2. QED
    BY <1>2, <1>4, <2>1 DEF Stamps
<1>5. CASE q.op = "ChangePassword"
  <2>1. PICK p : p = [q EXCEPT !.pc = "read"]
    BY Zenon
  <2>2. Same(q, p) /\ p.pc = "read"
    BY <2>1, SameSetPC, Zenon DEF PCs
  <2>3. Place(p) /\ Base(p)
    BY <1>5, <2>2, ReadPlace, SameBase DEF Same, Stamps
  <2>4. QED
    BY <1>5, <2>1, <2>2, <2>3, Zenon DEF Loaded, Holding
<1>6. CASE q.op = "CreateEmailVerificationToken"
  <2>1. PICK p : p = [q EXCEPT !.pc = "token", !.email = q.user.email]
    OBVIOUS
  <2>2. /\ p.op = q.op /\ p.pc = "token" /\ p.nil = q.nil /\ p.wver = q.wver
        /\ p.uid = q.uid /\ p.user = q.user
    BY <2>1 DEF Request
  <2>3. Way(p) /\ Base(p)
    BY <1>6, <2>2 DEF Way, Base, Purges
  <2>4. Place(p)
    BY <1>6, <2>2, <2>3, TokenPlace
  <2>5. QED
    BY <1>6, <2>1, <2>2, <2>3, <2>4, Zenon DEF Loaded, Holding
<1>7. CASE q.op = "CreateTwoFactorToken"
  <2>1. CASE Loaded(q) = [q EXCEPT !.pc = "token"]
    <3>1. PICK p : p = [q EXCEPT !.pc = "token"]
      BY Zenon
    <3>2. Same(q, p) /\ p.pc = "token"
      BY <3>1, SameSetPC, Zenon DEF PCs
    <3>3. Way(p)
      BY <1>7, <3>2, SMT, SMTT(30) DEF Way, Same, Purges
    <3>4. Place(p) /\ Base(p)
      BY <1>7, <3>2, <3>3, TokenPlace, SameBase, SMT, SMTT(30) DEF Same
    <3>5. QED
      BY <2>1, <3>1, <3>2, <3>4, Zenon DEF Holding
  <2>2. QED
    BY <1>1, <1>7, <2>1 DEF Loaded
<1>8. CASE q.op \in {"CompleteTwoFactor", "IssueSessionUnchecked", "RefreshSession"}
  <2>1. CASE MayHaveSession(q.user)
    <3>1. PICK p : p = [q EXCEPT !.pc = "session"]
      BY Zenon
    <3>2. Same(q, p) /\ p.pc = "session"
      BY <3>1, SameSetPC, Zenon DEF PCs
    <3>3. Way(p) /\ Rooted(p)
      BY <1>8, <3>2 DEF Way, Same, Purges, Rooted, Holding
    <3>4. RequireVerifiedEmail => p.user.verified
      BY <2>1, <3>2 DEF MayHaveSession, requireVerifiedEmail, Same
    <3>5. Place(p) /\ Base(p)
      BY <3>2, <3>3, <3>4, SessionPlace, SameBase
    <3>6. Loaded(q) = p
      BY <1>8, <2>1, <3>1 DEF Loaded
    <3>7. Holding(p) => Holding(q) /\ p.root = q.root
      BY <3>2 DEF Holding, Same
    <3>8. QED
      BY <3>5, <3>6, <3>7
  <2>2. CASE ~MayHaveSession(q.user)
    <3>1. Loaded(q) = Done(q, "err")
      BY <1>8, <2>2 DEF Loaded
    <3>2. QED
      BY <1>1, <3>1
  <2>3. QED
    BY <2>1, <2>2
<1>9. QED
  BY <1>3, <1>4, <1>5, <1>6, <1>7, <1>8, SMT, SMTT(30) DEF Way

(* UserStore.GetUserByID.                                                  *)
LEMMA GetUserByIDJ ==
  ASSUME IInv, IInv', JInv, NEW r \in Requests, GetUserByID(r)
  PROVE  JInv'
<1>1. PICK q \in Request : q = req[r] /\ ReqOK(q) /\ Base(q) /\ Place(q)
  BY DEF IInv, JInv
<1>2. q.pc \in {"load", "reload"} /\ UNCHANGED stores
  BY <1>1 DEF GetUserByID
<1>3. q.uid \in DOMAIN users /\ users[q.uid] \in Row
  BY <1>1, <1>2 DEF ReqOK, Knows, UserPCs, IInv, StoreOK
<1> DEFINE o == [q EXCEPT !.user = users[q.uid]]
<1>4. /\ o \in Request /\ o.op = q.op /\ o.uid = q.uid /\ o.user = users[q.uid]
      /\ o.wver = q.wver /\ o.nil = q.nil /\ o.email = q.email /\ o.pc = q.pc
      /\ o.root = q.root /\ o.hadpw = q.hadpw
  BY <1>3 DEF Request
<1>5. Put(r, IF q.pc = "load" THEN Loaded(o) ELSE AfterStamp(o))
  BY <1>1, SMTT(30) DEF GetUserByID
<1> HIDE DEF o
<1>6. o.wver = 0 /\ Way(o) /\ Base(o)
  <2>1. o.wver = 0
    BY <1>1, <1>2, <1>4, Zenon DEF Place, Before
  <2>2. Way(o)
    BY <1>1, <1>4, Zenon DEF Place, Way
  <2>3. Base(o)
    <3>1. q.nil => q.op = "CreateMagicLinkToken"
      BY <1>1, Zenon DEF Base
    <3>2. QED
      BY <1>3, <1>4, <2>1, <3>1 DEF Base
  <2>4. QED
    BY <2>1, <2>2, <2>3, Zenon
<1>7. CASE q.pc = "load"
  <2>1. Shown(o) /\ Rooted(o)
    BY <1>1, <1>4, <1>7 DEF Place, Shown, Rooted, Holding
  <2>2. PICK p : /\ p = Loaded(o) /\ Base(p) /\ Place(p)
                 /\ Holding(p) => Holding(o) /\ p.root = o.root
    BY <1>3, <1>4, <1>6, <1>7, <2>1, LoadedPlace
  <2>3. Holding(p) => Holding(q) /\ p.root = q.root
    BY <1>4, <2>2 DEF Holding
  <2>4. Put(r, p)
    BY <1>5, <1>7, <2>2
  <2>5. QED
    BY <1>1, <1>2, <2>2, <2>3, <2>4, ReadStep, Zenon
<1>8. CASE q.pc = "reload"
  <2>1. o.op \in Stamps
    BY <1>4, <1>6, <1>8 DEF Way
  <2>2. PICK p : /\ p = AfterStamp(o) /\ Same(o, p) /\ p.pc \in {"done", "factor"}
                 /\ Place(p)
    BY <1>4, <1>6, <2>1, AfterStampPlace
  <2>3. Base(p) /\ ~Holding(p)
    BY <1>6, <2>2, SameBase DEF Holding
  <2>4. Put(r, p)
    BY <1>5, <1>8, <2>2
  <2>5. QED
    BY <1>2, <2>2, <2>3, <2>4, ReadStep
<1>9. QED
  BY <1>2, <1>7, <1>8

(* The read of updateUserWithRetry.                                        *)
LEMMA ReadForUpdateJ ==
  ASSUME IInv, IInv', JInv, NEW r \in Requests, ReadForUpdate(r)
  PROVE  JInv'
<1>1. PICK q \in Request : q = req[r] /\ ReqOK(q) /\ Base(q) /\ Place(q)
  BY DEF IInv, JInv
<1>2. q.pc = "read" /\ UNCHANGED stores
  BY <1>1 DEF ReadForUpdate
<1>3. PICK row : row = users[q.uid]
  OBVIOUS
<1>4. q.wver = 0 /\ Shown(q)
  BY <1>1, <1>2 DEF Place, Before
<1>5. CASE ~Accepts(q, row) /\ q.op \in Stamps
  <2>1. PICK p : p = [q EXCEPT !.pc = "reload"]
    BY Zenon
  <2>2. Same(q, p) /\ p.pc = "reload"
    BY <2>1, SameSetPC, Zenon DEF PCs
  <2>3. Way(p) /\ Before(p) /\ Gated(p) /\ Shown(p)
    BY <1>4, <1>5, <2>2 DEF Same, Way, Before, Gated, Shown, Purges
  <2>4. ~Holding(p) /\ ~HasRevoked(p) /\ HasPurged(p) = {}
    BY <2>2, SMTT(30) DEF Holding, HasRevoked, HasPurged, Returned, Purges
  <2>5. Place(p) /\ Base(p)
    BY <1>1, <2>2, <2>3, <2>4, SameBase DEF Place, Cut, Rooted
  <2>6. Put(r, p)
    BY <1>1, <1>3, <1>5, <2>1 DEF ReadForUpdate, Refused
  <2>7. QED
    BY <1>2, <2>4, <2>5, <2>6, ReadStep
<1>6. CASE ~Accepts(q, row) /\ q.op \notin Stamps
  <2>1. Put(r, UpdateFailed(q, "err"))
    BY <1>1, <1>3, <1>6 DEF ReadForUpdate, Refused
  <2>2. Same(q, UpdateFailed(q, "err")) /\ Quiet(UpdateFailed(q, "err"))
    BY UpdateFailedQuiet
  <2>3. QED
    BY <1>1, <1>2, <2>1, <2>2, QuietStep
<1>7. CASE Accepts(q, row)
  <2>1. PICK p : p = [q EXCEPT !.cur = Mutate(q, row), !.hadpw = row.hash # {},
                               !.pc = IF q.op = "ConfirmEmailChange"
                                        THEN "taken" ELSE "write"]
    BY Zenon
  <2>2. /\ p.op = q.op /\ p.uid = q.uid /\ p.user = q.user /\ p.wver = q.wver
        /\ p.nil = q.nil /\ p.email = q.email /\ p.pc \in {"taken", "write"}
    BY <2>1 DEF Request
  <2>3. Put(r, p)
    BY <1>1, <1>3, <1>7, <2>1 DEF ReadForUpdate
  <2>4. Base(p)
    BY <1>1, <2>2 DEF Base
  <2>5. Place(p)
    BY <1>2, <1>4, <2>2, ReadPlace DEF Shown
  <2>6. QED
    BY <1>2, <2>2, <2>3, <2>4, <2>5, ReadStep DEF Holding
<1>8. QED
  BY <1>5, <1>6, <1>7

(* ConfirmEmailChange's early check.                                       *)
LEMMA StillFreeJ ==
  ASSUME IInv, IInv', JInv, NEW r \in Requests, StillFree(r)
  PROVE  JInv'
<1>1. PICK q \in Request : q = req[r] /\ ReqOK(q) /\ Base(q) /\ Place(q)
  BY DEF IInv, JInv
<1>2. q.pc = "taken" /\ UNCHANGED stores
  BY <1>1 DEF StillFree
<1>3. CASE Put(r, Done(q, "err"))
  <2>1. Same(q, Done(q, "err")) /\ Quiet(Done(q, "err"))
    BY SameDone DEF Results, Quiet
  <2>2. QED
    BY <1>1, <1>2, <1>3, <2>1, QuietStep
<1>4. CASE Put(r, [q EXCEPT !.pc = "write"])
  <2>1. PICK p : p = [q EXCEPT !.pc = "write"]
    BY Zenon
  <2>2. Same(q, p) /\ p.pc = "write"
    BY <2>1, SameSetPC, Zenon DEF PCs
  <2>3. Place(p)
    <3>1. p.op = q.op /\ p.uid = q.uid /\ p.email = q.email /\ p.wver = q.wver
      BY <2>2, Zenon DEF Same
    <3>2. q.wver = 0
      BY <1>1, <1>2, Zenon DEF Place, Before
    <3>3. /\ q.op \in Stamps => Proved(q.uid)
          /\ q.op = "ConfirmEmailChange" => q.email \in proven
      BY <1>1, <1>2, Zenon DEF Place, Shown
    <3>4. /\ p.pc \in {"read", "taken", "write"} /\ p.wver = 0
          /\ p.op \in Stamps => Proved(p.uid)
          /\ p.op = "ConfirmEmailChange" => p.email \in proven
      BY <2>2, <3>1, <3>2, <3>3
    <3>5. QED
      BY <3>4, ReadPlace
  <2>4. QED
    BY <1>1, <1>2, <1>4, <2>1, <2>2, <2>3, SameBase, ReadStep, Zenon DEF Holding
<1>5. QED
  BY <1>1, <1>3, <1>4 DEF StillFree

(* The application's second-factor checker.                                *)
LEMMA HasSecondFactorJ ==
  ASSUME IInv, IInv', JInv, NEW r \in Requests, HasSecondFactor(r)
  PROVE  JInv'
<1>1. PICK q \in Request : q = req[r] /\ ReqOK(q) /\ Base(q) /\ Place(q)
  BY DEF IInv, JInv
<1>2. q.pc = "factor" /\ UNCHANGED stores
  BY <1>1 DEF HasSecondFactor
<1>3. /\ q.op \in {"Login", "RedeemMagicLink"}
      /\ RequireVerifiedEmail => q.user.verified
  BY <1>1, <1>2 DEF Place, Way, Gated
<1>4. PICK next \in {"token", "session"} : Put(r, [q EXCEPT !.pc = next])
  BY <1>1 DEF HasSecondFactor
<1>5. PICK p : p = [q EXCEPT !.pc = next]
  BY Zenon
<1>6. Same(q, p) /\ p.pc = next
  <2>1. next \in PCs
    BY DEF PCs
  <2>2. QED
    BY <1>5, <2>1, SameSetPC
<1>7. Way(p) /\ ~Holding(p)
  BY <1>3, <1>6 DEF Same, Way, Holding, Purges
<1>8. Place(p)
  <2>1. CASE next = "token"
    BY <1>3, <1>6, <1>7, <2>1, TokenPlace DEF Same
  <2>2. CASE next = "session"
    <3>1. Rooted(p)
      BY <1>3, <1>6, <1>7 DEF Rooted, Same
    <3>2. QED
      BY <1>3, <1>6, <1>7, <2>2, <3>1, SessionPlace DEF Same
  <2>3. QED
    BY <2>1, <2>2
<1>9. QED
  BY <1>1, <1>2, <1>4, <1>5, <1>6, <1>7, <1>8, SameBase, ReadStep

(* A store call that fails.                                                *)
LEMMA StoreErrorJ ==
  ASSUME IInv, IInv', JInv, NEW r \in Requests, StoreError(r)
  PROVE  JInv'
<1>1. PICK q \in Request : q = req[r]
  BY DEF IInv
<1>2. UNCHANGED stores /\ (Put(r, UpdateFailed(q, "err")) \/ Put(r, Done(q, "err")))
  BY <1>1 DEF StoreError
<1>3. Same(q, UpdateFailed(q, "err")) /\ Quiet(UpdateFailed(q, "err"))
  BY UpdateFailedQuiet
<1>4. Same(q, Done(q, "err")) /\ Quiet(Done(q, "err"))
  BY SameDone DEF Results, Quiet
<1>5. QED
  BY <1>1, <1>2, <1>3, <1>4, QuietStep

-----------------------------------------------------------------------------
(* Store calls that write keep the second invariant.                       *)

(* UserStore.CreateUser: the new row is unverified, and new to everyone.   *)
LEMMA CreateUserJ ==
  ASSUME IInv, IInv', JInv, NEW r \in Requests, CreateUser(r)
  PROVE  JInv'
<1>1. PICK q \in Request : q = req[r] /\ ReqOK(q) /\ Base(q) /\ Place(q)
  BY DEF IInv, JInv
<1>2. q.pc = "create" /\ q.wver = 0 /\ q.op \in {"Register", "RedeemMagicLink"}
  BY <1>1, Zenon DEF CreateUser, ReqOK, Fits, Place, Before
<1>3. sessions' = sessions /\ tokens' = tokens /\ proven' = proven /\ nextId' = nextId
  BY Zenon DEF CreateUser
<1>4. CASE Put(r, Done(q, "err")) /\ UNCHANGED users
  <2>1. Same(q, Done(q, "err")) /\ Quiet(Done(q, "err"))
    BY SameDone DEF Results, Quiet
  <2>2. QED
    BY <1>1, <1>3, <1>4, <2>1, QuietStep DEF stores
<1>5. CASE Put(r, [q EXCEPT !.pc = "relookup"]) /\ UNCHANGED users /\ q.op # "Register"
  <2>1. PICK p : p = [q EXCEPT !.pc = "relookup"]
    BY Zenon
  <2>2. Same(q, p) /\ p.pc = "relookup"
    BY <2>1, SameSetPC, Zenon DEF PCs
  <2>3. Way(p) /\ Before(p) /\ Gated(p) /\ Shown(p)
    BY <1>1, <1>2, <1>5, <2>2 DEF Same, Way, Before, Gated, Shown, Place, Purges
  <2>4. ~Holding(p) /\ ~HasRevoked(p) /\ HasPurged(p) = {}
    BY <2>2, SMTT(30) DEF Holding, HasRevoked, HasPurged, Returned, Purges
  <2>5. Place(p) /\ Base(p)
    BY <1>1, <2>2, <2>3, <2>4, SameBase DEF Place, Cut, Rooted
  <2>6. QED
    BY <1>3, <1>5, <2>1, <2>4, <2>5, ReadStep DEF stores
<1>6. ASSUME NEW u \in Uids \ DOMAIN users, NEW hash,
             users' = [v \in DOMAIN users \cup {u} |->
                         IF v = u THEN NewRow(q.email, hash) ELSE users[v]],
             Put(r, [q EXCEPT !.uid = u, !.user = NewRow(q.email, hash),
                              !.pc = IF q.op = "Register" THEN "session" ELSE "read"])
      PROVE  JInv'
  <2>1. PICK row : row = NewRow(q.email, hash)
    OBVIOUS
  <2>2. row.verified = FALSE /\ row.email = q.email
    BY <2>1 DEF NewRow
  <2>3. /\ DOMAIN users' = DOMAIN users \cup {u} /\ users'[u] = row
        /\ \A v \in DOMAIN users : users'[v] = users[v]
    BY <1>6, <2>1
  <2>4. nextId \in Nat /\ \A v \in DOMAIN users : users[v].version \in Nat
    BY DEF IInv, StoreOK, Row
  <2>5. Moves
    <3>1. \A v \in DOMAIN users : users[v].version >= users[v].version
      BY <2>4
    <3>2. \A v \in DOMAIN users : RowMoves(users[v], users'[v])
      BY <2>3, <3>1, SMTT(30) DEF RowMoves
    <3>3. QED
      BY <1>3, <2>3, <2>4, <3>2 DEF Moves, SessionMoves, TokenMoves
  <2>6. StoresOK'
    <3>1. \A v \in DOMAIN users' : users'[v].verified => users'[v].email \in proven
      BY <2>2, <2>3 DEF JInv, StoresOK
    <3>2. ASSUME NEW t \in tokens
          PROVE  MailOK(t)'
      <4>1. MailOK(t) /\ t.uid \subseteq DOMAIN users
        BY DEF JInv, StoresOK, IInv, StoreOK
      <4>2. QED
        BY <2>3, <4>1 DEF MailOK
    <3>3. ASSUME NEW x \in sessions
          PROVE  SessionOK(x)'
      <4>1. SessionOK(x) /\ x.uid \in DOMAIN users
        BY DEF JInv, StoresOK, IInv, StoreOK
      <4>2. QED
        BY <1>3, <2>3, <4>1 DEF SessionOK
    <3>4. QED
      BY <1>3, <3>1, <3>2, <3>3 DEF JInv, StoresOK
  <2>7. PICK p : p = [q EXCEPT !.uid = u, !.user = row,
                               !.pc = IF q.op = "Register" THEN "session" ELSE "read"]
    OBVIOUS
  <2>8. /\ p.op = q.op /\ p.uid = u /\ p.user = row /\ p.wver = 0 /\ p.nil = q.nil
        /\ p.pc = IF q.op = "Register" THEN "session" ELSE "read"
    BY <1>2, <2>7 DEF Request
  <2>9. Put(r, p)
    BY <1>6, <2>1, <2>7
  <2>10. Base(p)'
    BY <1>1, <2>2, <2>8, SMT, SMTT(30) DEF Base
  <2>11. Way(p) /\ Before(p) /\ Gated(p) /\ ~Holding(p)
    BY <1>2, <2>8 DEF Way, Before, Gated, Holding, Purges
  <2>12. Shown(p)'
    <3>1. q.op = "RedeemMagicLink" => q.email \in proven
      BY <1>1, <1>2 DEF Place, Shown
    <3>2. q.op = "RedeemMagicLink" => Proved(u)'
      BY <1>3, <2>2, <2>3, <3>1 DEF Proved
    <3>3. QED
      BY <1>2, <2>8, <3>2 DEF Shown, Stamps
  <2>13. ~HasRevoked(p) /\ HasPurged(p) = {}
    BY <1>2, <2>8 DEF HasRevoked, HasPurged, Returned, Purges
  <2>14. Place(p)'
    <3>1. Cut(p)' /\ Rooted(p)'
      BY <1>2, <2>8, <2>11, <2>13 DEF Cut, Rooted
    <3>2. QED
      BY <2>11, <2>12, <3>1 DEF Place
  <2>15. \A s \in Requests : RootFree(req[s])
    BY <1>3 DEF RootFree
  <2>16. QED
    BY <2>5, <2>6, <2>9, <2>10, <2>11, <2>14, <2>15, JStep
<1>7. PICK hash : hash = IF q.op = "Register"
                           THEN {[pw |-> q.new, gen |-> 0, weak |-> FALSE]} ELSE {}
  BY Zenon
<1>8. \/ /\ Put(r, IF q.op = "Register" THEN Done(q, "err") ELSE [q EXCEPT !.pc = "relookup"])
         /\ UNCHANGED users
      \/ \E u \in Uids \ DOMAIN users :
           /\ users' = [v \in DOMAIN users \cup {u} |->
                          IF v = u THEN NewRow(q.email, hash) ELSE users[v]]
           /\ Put(r, [q EXCEPT !.uid = u, !.user = NewRow(q.email, hash),
                               !.pc = IF q.op = "Register" THEN "session" ELSE "read"])
  BY <1>1, <1>7, Zenon DEF CreateUser
<1>9. QED
  BY <1>4, <1>5, <1>6, <1>8, Zenon

(* What a write does to the verification and the address.                  *)
LEMMA WroteVerified ==
  ASSUME NEW q, NEW old, NEW new, Wrote(q, old, new)
  PROVE  /\ q.op \in Stamps => new.verified /\ new.email = old.email
         /\ q.op = "ConfirmEmailChange" => new.verified /\ new.email = q.email
         /\ q.op \notin Stamps \cup {"ConfirmEmailChange"} =>
              new.verified = old.verified /\ new.email = old.email
         /\ new.version = old.version + 1
<1>1. /\ new.verified = Mutate(q, old).verified
      /\ new.email = Mutate(q, old).email
      /\ new.version = old.version + 1
  BY DEF Wrote, Row
<1>2. CASE q.op = "Login"
  BY <1>1, <1>2 DEF Mutate, SetsPassword, Stamps, Wrote, Row
<1>3. CASE q.op \in SetsPassword
  BY <1>1, <1>3 DEF Mutate, SetsPassword, Stamps, Wrote, Row
<1>4. CASE q.op \in Stamps
  BY <1>1, <1>4, Zenon DEF Mutate, Stamped, SetsPassword, Stamps, Wrote, Row
<1>5. CASE q.op = "ChangeEmail"
  BY <1>1, <1>5 DEF Mutate, Staged, SetsPassword, Stamps, Wrote, Row
<1>6. CASE q.op = "ConfirmEmailChange"
  <2>1. Only(old.pending) = q.email
    BY <1>6, OnlySingleton, Zenon DEF Wrote, Accepts, StillStaged
  <2>2. Mutate(q, old) = [old EXCEPT !.email = q.email, !.pending = {}, !.verified = TRUE]
    BY <1>6, <2>1 DEF Mutate, Swapped, SetsPassword, Stamps
  <2>3. Mutate(q, old).verified = TRUE /\ Mutate(q, old).email = q.email
    BY <2>2 DEF Wrote, Row
  <2>4. QED
    BY <1>1, <1>6, <2>3 DEF Stamps
<1>7. CASE q.op \in {"DisableUser", "EnableUser"}
  BY <1>1, <1>7 DEF Mutate, Disabled, Enabled, SetsPassword, Stamps, Wrote, Row
<1>8. QED
  BY <1>2, <1>3, <1>4, <1>5, <1>6, <1>7 DEF Wrote, Updates, SetsPassword, Stamps

(* Where a flow goes after its write: it has revoked and purged nothing    *)
(* yet, and does not return if it has promised to.                         *)
LEMMA UpdatedPlace ==
  ASSUME NEW q \in Request, q.op \in Updates, q.wver > 0
  PROVE  \E p : /\ p = Updated(q) /\ Place(p)' /\ ~Holding(p)
                /\ p.op = q.op /\ p.uid = q.uid /\ p.wver = q.wver /\ p.nil = q.nil
                /\ p.user = IF q.op \in Stamps THEN q.cur ELSE q.user
<1>1. CASE q.op = "Login"
  <2>1. PICK p : p = completeFirstFactor(q)
    OBVIOUS
  <2>2. Same(q, p) /\ Quiet(p)
    BY <1>1, <2>1, FirstFactorQuiet
  <2>3. Place(p)' /\ ~Holding(p)
    BY <2>2, QuietPlace DEF Quiet, Holding
  <2>4. p = Updated(q)
    BY <1>1, <2>1 DEF Updated, SetsPassword, Stamps
  <2>5. QED
    BY <1>1, <2>2, <2>3, <2>4 DEF Same, Stamps
<1>2. ASSUME NEW o \in Request, NEW p, NEW pc \in {"revoke", "purgeReset", "token"},
             p = [o EXCEPT !.pc = pc],
             pc = "purgeReset" => o.op \in SetsPassword /\ ~RevokeSessionsOnPasswordChange,
             pc = "token" => o.op = "ChangeEmail"
      PROVE  Same(o, p) /\ Place(p)' /\ ~Holding(p)
  <2>1. Same(o, p) /\ p.pc = pc
    <3>1. pc \in PCs
      BY DEF PCs
    <3>2. QED
      BY <1>2, <3>1, SameSetPC
  <2>2. Way(p) /\ Before(p) /\ Gated(p)
    BY <1>2, <2>1 DEF Same, Way, Before, Gated, Purges, Purging
  <2>3. ~Holding(p) /\ ~HasRevoked(p) /\ HasPurged(p) = {}
    BY <1>2, <2>1 DEF Same, Holding, HasRevoked, HasPurged, Returned, Purges, SetsPassword
  <2>4. Shown(p)' /\ Cut(p)' /\ Rooted(p)'
    <3>1. Shown(p)'
      BY <1>2, <2>1 DEF Same, Shown
    <3>2. Cut(p)' /\ Rooted(p)'
      BY <2>1, <2>3 DEF Cut, Rooted
    <3>3. QED
      BY <3>1, <3>2
  <2>5. QED
    BY <2>1, <2>2, <2>3, <2>4 DEF Place
<1>3. CASE q.op \in SetsPassword
  <2>1. PICK pc \in {"revoke", "purgeReset"} :
          pc = IF RevokeSessionsOnPasswordChange THEN "revoke" ELSE "purgeReset"
    OBVIOUS
  <2>2. PICK p : p = [q EXCEPT !.pc = pc]
    BY Zenon
  <2>3. Same(q, p) /\ Place(p)' /\ ~Holding(p)
    BY <1>2, <1>3, <2>1, <2>2
  <2>4. Updated(q) = p
    BY <1>3, <2>1, <2>2 DEF Updated, SetsPassword, Stamps
  <2>5. QED
    BY <1>3, <2>3, <2>4 DEF Same, Stamps, SetsPassword
<1>4. CASE q.op \in Stamps
  <2>1. PICK o : o = [q EXCEPT !.user = q.cur]
    BY Zenon
  <2>2. /\ o \in Request /\ o.op = q.op /\ o.uid = q.uid /\ o.wver = q.wver
        /\ o.nil = q.nil /\ o.user = q.cur /\ o.hadpw = q.hadpw
    BY <2>1 DEF Request
  <2>3. Updated(q) = IF q.hadpw THEN [o EXCEPT !.pc = "revoke"] ELSE AfterStamp(o)
    BY <1>4, <2>1 DEF Updated, Stamps, SetsPassword
  <2>4. CASE q.hadpw
    <3>1. PICK p : p = [o EXCEPT !.pc = "revoke"]
      BY Zenon
    <3>2. Same(o, p) /\ Place(p)' /\ ~Holding(p)
      BY <1>2, <2>2, <3>1
    <3>3. QED
      BY <1>4, <2>2, <2>3, <2>4, <3>1, <3>2, ZenonT(30) DEF Same
  <2>5. CASE ~q.hadpw
    <3>1. PICK p : /\ p = AfterStamp(o) /\ Same(o, p) /\ p.pc \in {"done", "factor"}
                   /\ Place(p)'
      BY <1>4, <2>2, <2>5, AfterStampPlace
    <3>2. ~Holding(p)
      BY <3>1 DEF Holding
    <3>3. QED
      BY <1>4, <2>2, <2>3, <2>5, <3>1, <3>2 DEF Same
  <2>6. QED
    BY <2>4, <2>5
<1>5. CASE q.op \in {"ChangeEmail", "ConfirmEmailChange", "DisableUser"}
  <2>1. PICK pc \in {"revoke", "token"} :
          pc = IF q.op = "ChangeEmail" THEN "token" ELSE "revoke"
    OBVIOUS
  <2>2. PICK p : p = [q EXCEPT !.pc = pc]
    BY Zenon
  <2>3. Same(q, p) /\ Place(p)' /\ ~Holding(p)
    BY <1>2, <2>1, <2>2
  <2>4. Updated(q) = p
    BY <1>5, <2>1, <2>2 DEF Updated, SetsPassword, Stamps
  <2>5. QED
    BY <1>5, <2>3, <2>4 DEF Same, Stamps
<1>6. CASE q.op = "EnableUser"
  <2>1. PICK p : p = Done(q, "ok")
    OBVIOUS
  <2>2. Same(q, p) /\ p.pc = "done"
    BY <2>1, SameDone DEF Results
  <2>3. Cut(p)'
    BY <1>6, <2>2, NothingCut DEF Same, Purging, SetsPassword, Purges
  <2>4. Place(p)' /\ ~Holding(p)
    BY <2>2, <2>3, OkPlace DEF Holding
  <2>5. Updated(q) = p
    BY <1>6, <2>1 DEF Updated, SetsPassword, Stamps
  <2>6. QED
    BY <1>6, <2>2, <2>4, <2>5 DEF Same, Stamps
<1>7. QED
  BY <1>1, <1>3, <1>4, <1>5, <1>6 DEF Updates

(* A write that succeeds stores a verified address only if its mailbox was *)
(* proven, and takes no verification back.                                 *)
LEMMA WriteStores ==
  ASSUME IInv, IInv', JInv, NEW q \in Request, q.uid \in DOMAIN users, NEW new,
         users' = [users EXCEPT ![q.uid] = new], Wrote(q, users[q.uid], new),
         q.op \in Stamps => Proved(q.uid),
         q.op = "ConfirmEmailChange" => q.email \in proven,
         sessions' = sessions, tokens' = tokens, proven' = proven, nextId' = nextId
  PROVE  Moves /\ StoresOK'
<1>1. /\ DOMAIN users' = DOMAIN users /\ users'[q.uid] = new
      /\ \A u \in DOMAIN users : u # q.uid => users'[u] = users[u]
  OBVIOUS
<1>2. nextId \in Nat /\ \A u \in DOMAIN users : users[u].version \in Nat
  BY DEF IInv, StoreOK, Row
<1>3. PICK old : old = users[q.uid]
  OBVIOUS
<1>4. /\ q.op \in Stamps => new.verified /\ new.email = old.email
      /\ q.op = "ConfirmEmailChange" => new.verified /\ new.email = q.email
      /\ q.op \notin Stamps \cup {"ConfirmEmailChange"} =>
           new.verified = old.verified /\ new.email = old.email
      /\ new.version = old.version + 1 /\ (old.verified => new.verified)
  BY <1>3, WroteVerified, WroteRest, SMT, SMTT(30)
<1>5. RowMoves(old, new)
  <2>1. new.version >= old.version
    BY <1>2, <1>3, <1>4
  <2>2. QED
    BY <1>4, <2>1 DEF RowMoves
<1>6. \A u \in DOMAIN users : RowMoves(users[u], users'[u])
  <2>1. ASSUME NEW u \in DOMAIN users, u # q.uid
        PROVE  RowMoves(users[u], users'[u])
    <3>1. users[u].version >= users[u].version
      BY <1>2
    <3>2. QED
      BY <1>1, <2>1, <3>1 DEF RowMoves
  <2>2. QED
    BY <1>1, <1>3, <1>5, <2>1
<1>7. Moves
  BY <1>1, <1>2, <1>6, SMTT(30) DEF Moves, SessionMoves, TokenMoves
<1>8. \A u \in DOMAIN users : users[u].verified => users[u].email \in proven
  BY DEF JInv, StoresOK
<1>9. new.verified => new.email \in proven
  BY <1>3, <1>4, <1>8, Zenon DEF Proved
<1>10. ASSUME NEW t \in tokens
       PROVE  MailOK(t)'
  <2>1. MailOK(t) /\ t.uid \subseteq DOMAIN users
    BY DEF JInv, StoresOK, IInv, StoreOK
  <2>2. QED
    BY <1>6, <2>1 DEF MailOK, RowMoves
<1>11. ASSUME NEW x \in sessions
       PROVE  SessionOK(x)'
  <2>1. SessionOK(x) /\ x.uid \in DOMAIN users
    BY SMT, SMTT(30) DEF JInv, StoresOK, IInv, StoreOK
  <2>2. QED
    BY <1>6, <2>1 DEF SessionOK, RowMoves
<1>12. StoresOK'
  BY <1>1, <1>8, <1>9, <1>10, <1>11 DEF JInv, StoresOK
<1>13. QED
  BY <1>7, <1>12

(* UserStore.UpdateUser.                                                   *)
LEMMA UpdateUserJ ==
  ASSUME IInv, IInv', JInv, NEW r \in Requests, UpdateUser(r)
  PROVE  JInv'
<1>1. PICK q \in Request : q = req[r] /\ ReqOK(q) /\ Base(q) /\ Place(q)
  BY DEF IInv, JInv
<1>2. /\ q.pc = "write" /\ sessions' = sessions /\ tokens' = tokens
      /\ proven' = proven /\ nextId' = nextId
  BY <1>1 DEF UpdateUser
<1>3. /\ q.wver = 0 /\ Shown(q) /\ q.op \in Updates /\ q.uid \in DOMAIN users
      /\ q.op \in Stamps => Proved(q.uid)
      /\ q.op = "ConfirmEmailChange" => q.email \in proven
  BY <1>1, <1>2, Zenon DEF Place, Before, Shown, ReqOK, Fits, Knows, UserPCs
<1>4. CASE Put(r, UpdateFailed(q, "err")) /\ UNCHANGED users
  <2>1. Same(q, UpdateFailed(q, "err")) /\ Quiet(UpdateFailed(q, "err"))
    BY UpdateFailedQuiet
  <2>2. QED
    BY <1>1, <1>2, <1>4, <2>1, QuietStep, Zenon DEF stores
<1>5. CASE Put(r, Conflict(q)) /\ UNCHANGED users
  <2>1. CASE Put(r, UpdateFailed(q, "conflict"))
    <3>1. Same(q, UpdateFailed(q, "conflict")) /\ Quiet(UpdateFailed(q, "conflict"))
      BY UpdateFailedQuiet
    <3>2. QED
      BY <1>1, <1>2, <1>5, <2>1, <3>1, QuietStep, Zenon DEF stores
  <2>2. CASE Put(r, [q EXCEPT !.pc = "read", !.tries = q.tries + 1])
    <3>1. PICK p : p = [q EXCEPT !.pc = "read", !.tries = q.tries + 1]
      OBVIOUS
    <3>2. /\ p.op = q.op /\ p.uid = q.uid /\ p.user = q.user /\ p.wver = q.wver
          /\ p.nil = q.nil /\ p.email = q.email /\ p.pc = "read"
      BY <3>1, SMTT(30) DEF Request
    <3>3. Base(p)
      BY <1>1, <3>2 DEF Base
    <3>4. Place(p)
      BY <1>3, <3>2, ReadPlace
    <3>5. QED
      BY <1>2, <1>5, <2>2, <3>1, <3>2, <3>3, <3>4, ReadStep, Zenon DEF stores, Holding
  <2>3. QED
    BY <1>5, <2>1, <2>2 DEF Conflict
<1>6. CASE /\ VersionMatches(q)
           /\ users' = [users EXCEPT ![q.uid] =
                          [q.cur EXCEPT !.version = users[q.uid].version + 1]]
           /\ Put(r, Updated([q EXCEPT !.wver = users[q.uid].version + 1]))
  <2>1. PICK new : new = [q.cur EXCEPT !.version = users[q.uid].version + 1]
    BY Zenon
  <2>2. PICK version : version = users[q.uid].version + 1
    OBVIOUS
  <2>3. users[q.uid] \in Row /\ AtMostOne(users[q.uid].hash) /\ version \in Nat /\ version > 0
    BY <1>3, <2>2 DEF IInv, StoreOK, Row
  <2>4. /\ (q.op = "ResetPassword" => q.got)
        /\ Accepts(q, users[q.uid]) /\ q.cur = Mutate(q, users[q.uid])
    BY <1>1, <1>2, <1>6 DEF ReqOK, Fits, WriteOK, VersionMatches
  <2>5. Mutate(q, users[q.uid]) \in Row
    BY <2>3, <2>4, MutateType
  <2>6. Wrote(q, users[q.uid], new)
    BY <1>3, <2>1, <2>3, <2>4, <2>5 DEF Wrote
  <2>7. Moves /\ StoresOK'
    BY <1>2, <1>3, <1>6, <2>1, <2>6, WriteStores, Zenon
  <2>8. PICK o : o = [q EXCEPT !.wver = version]
    BY Zenon
  <2>9. /\ o \in Request /\ o.op = q.op /\ o.uid = q.uid /\ o.wver = version
        /\ o.nil = q.nil /\ o.user = q.user /\ o.cur = q.cur
    BY <2>3, <2>8, SMTT(30) DEF Request
  <2>10. PICK p : /\ p = Updated(o) /\ Place(p)' /\ ~Holding(p)
                  /\ p.op = o.op /\ p.uid = o.uid /\ p.wver = o.wver /\ p.nil = o.nil
                  /\ p.user = IF o.op \in Stamps THEN o.cur ELSE o.user
    BY <1>3, <2>3, <2>9, UpdatedPlace, SMT, SMTT(30)
  <2>11. Base(p)'
    <3>1. users'[q.uid] = new /\ q.uid \in DOMAIN users'
      BY <1>3, <1>6, <2>1
    <3>2. new.version = version
      BY <2>2, <2>6, WroteVerified, SMT, SMTT(30)
    <3>3. users[q.uid].verified => new.verified
      BY <2>6, WroteRest
    <3>4. q.op \in Stamps => new.verified
      BY <2>6, WroteVerified, SMTT(30)
    <3>5. p.user.verified => new.verified
      <4>1. q.user.verified => users[q.uid].verified
        BY <1>1, Zenon DEF Base
      <4>2. q.op \notin Stamps => p.user = q.user
        BY <2>9, <2>10, Zenon
      <4>3. QED
        BY <3>3, <3>4, <4>1, <4>2, Zenon
    <3>6. p.wver <= users'[p.uid].version
      <4>1. p.wver = version /\ users'[p.uid].version = version
        BY <2>9, <2>10, <3>1, <3>2, Zenon
      <4>2. QED
        BY <2>3, <4>1
    <3>7. QED
      BY <1>1, <2>9, <2>10, <3>1, <3>5, <3>6 DEF Base
  <2>12. Put(r, p)
    BY <1>6, <2>2, <2>8, <2>10
  <2>13. \A s \in Requests : RootFree(req[s])
    BY <1>2 DEF RootFree
  <2>14. QED
    BY <2>7, <2>10, <2>11, <2>12, <2>13, JStep
<1>7. QED
  BY <1>1, <1>4, <1>5, <1>6 DEF UpdateUser

(* Deleting sessions or tokens, and burning a token, takes nothing away    *)
(* from what is said of the stores.                                        *)
LEMMA StoresShrink ==
  ASSUME IInv, JInv, users' = users, proven \subseteq proven', nextId' = nextId,
         sessions' \subseteq sessions,
         \A t \in tokens' : \E s \in tokens :
           /\ s.uid = t.uid /\ s.purpose = t.purpose /\ s.born = t.born
           /\ s.email = t.email /\ s.mailbox = t.mailbox
  PROVE  Moves /\ StoresOK' /\ \A q : RootFree(q)
<1>1. nextId \in Nat /\ \A u \in DOMAIN users : users[u].version \in Nat
  BY DEF IInv, StoreOK, Row
<1>2. \A u \in DOMAIN users : RowMoves(users[u], users'[u])
  <2>1. \A u \in DOMAIN users : users[u].version >= users[u].version
    BY <1>1
  <2>2. QED
    BY <2>1 DEF RowMoves
<1>3. Moves
  <2>1. \A t \in tokens' : TokenMoves(t)
    BY DEF TokenMoves
  <2>2. \A x \in sessions' : SessionMoves(x)
    BY DEF SessionMoves
  <2>3. QED
    BY <1>1, <1>2, <2>1, <2>2 DEF Moves
<1>4. StoresOK'
  <2>1. \A u \in DOMAIN users' : users'[u].verified => users'[u].email \in proven'
    BY DEF JInv, StoresOK
  <2>2. ASSUME NEW t \in tokens'
        PROVE  MailOK(t)'
    <3>1. PICK s \in tokens :
            /\ s.uid = t.uid /\ s.purpose = t.purpose /\ s.born = t.born
            /\ s.email = t.email /\ s.mailbox = t.mailbox
      OBVIOUS
    <3>2. MailOK(s)
      BY DEF JInv, StoresOK
    <3>3. QED
      BY <3>1, <3>2 DEF MailOK
  <2>3. \A x \in sessions' : SessionOK(x)'
    BY DEF JInv, StoresOK, SessionOK
  <2>4. \A x, y \in sessions' : x.id = y.id \/ x.root = y.root => x = y
    BY DEF JInv, StoresOK
  <2>5. QED
    BY <2>1, <2>2, <2>3, <2>4 DEF StoresOK
<1>5. QED
  BY <1>3, <1>4 DEF RootFree

(* SessionStore.DeleteUserSessions: none is left that was there.           *)
LEMMA DeleteUserSessionsJ ==
  ASSUME IInv, IInv', JInv, NEW r \in Requests, DeleteUserSessions(r)
  PROVE  JInv'
<1>1. PICK q \in Request : q = req[r] /\ ReqOK(q) /\ Base(q) /\ Place(q)
  BY DEF IInv, JInv
<1>2. /\ q.pc = "revoke" /\ users' = users /\ tokens' = tokens
      /\ proven' = proven /\ nextId' = nextId
      /\ sessions' = {x \in sessions : x.uid # q.uid} /\ Put(r, AfterRevoke(q))
  BY <1>1 DEF DeleteUserSessions
<1>3. Moves /\ StoresOK' /\ \A o : RootFree(o)
  BY <1>2, StoresShrink
<1>4. Base(q)'
  BY <1>1, <1>3, BaseFrame DEF IInv
<1>5. ASSUME NEW p, Same(q, p), p.pc \in {"purgeReset", "done"}
      PROVE  HasRevoked(p) => \A x \in sessions' : x.uid = p.uid => x.born >= p.wver
  BY <1>2, <1>5, SMTT(30) DEF Same
<1>6. ASSUME NEW p, p = AfterRevoke(q), Same(q, p), Place(p)', ~Holding(p)
      PROVE  JInv'
  BY <1>2, <1>3, <1>4, <1>6, SameBase, JStep
<1>7. CASE q.op \in Purging
  <2>1. PICK p : p = [q EXCEPT !.pc = "purgeReset"]
    BY Zenon
  <2>2. Same(q, p) /\ p.pc = "purgeReset"
    BY <2>1, SameSetPC, Zenon DEF PCs
  <2>3. Way(p) /\ Before(p) /\ Gated(p) /\ ~Holding(p) /\ HasPurged(p) = {}
    BY <1>7, <2>2, SMTT(30) DEF Same, Way, Before, Gated, Holding, HasPurged, Returned, Purges
  <2>4. Shown(p)' /\ Rooted(p)'
    BY <2>2, <2>3 DEF Shown, Rooted
  <2>5. Cut(p)'
    BY <1>5, <2>2, <2>3 DEF Cut
  <2>6. Place(p)'
    BY <2>3, <2>4, <2>5 DEF Place
  <2>7. p = AfterRevoke(q)
    BY <1>7, <2>1 DEF AfterRevoke, Purging, SetsPassword, Stamps
  <2>8. QED
    BY <1>6, <2>2, <2>3, <2>6, <2>7
<1>8. CASE q.op = "RedeemMagicLink"
  <2>1. PICK p : p = completeFirstFactor(q)
    OBVIOUS
  <2>2. Same(q, p) /\ Quiet(p)
    BY <1>8, <2>1, FirstFactorQuiet
  <2>3. Place(p)' /\ ~Holding(p)
    BY <2>2, QuietPlace DEF Quiet, Holding
  <2>4. p = AfterRevoke(q)
    BY <1>8, <2>1 DEF AfterRevoke, AfterStamp, SetsPassword, Stamps
  <2>5. QED
    BY <1>6, <2>2, <2>3, <2>4
<1>9. CASE q.op \notin Purging \cup {"RedeemMagicLink"}
  <2>1. PICK p : p = Done(q, "ok")
    OBVIOUS
  <2>2. Same(q, p) /\ p.pc = "done"
    BY <2>1, SameDone DEF Results
  <2>3. HasPurged(p) = {} /\ ~Holding(p)
    BY <1>9, <2>2 DEF Same, HasPurged, Holding
  <2>4. Cut(p)'
    BY <1>5, <2>2, <2>3 DEF Cut
  <2>5. Place(p)'
    BY <2>2, <2>4, OkPlace
  <2>6. p = AfterRevoke(q)
    BY <1>9, <2>1, SMTT(30) DEF AfterRevoke, AfterStamp, Purging, SetsPassword, Stamps
  <2>7. QED
    BY <1>6, <2>2, <2>3, <2>5, <2>6
<1>10. QED
  BY <1>7, <1>8, <1>9

(* TokenStore.DeleteUserTokens: one purpose more is purged.                *)
LEMMA DeleteUserTokensJ ==
  ASSUME IInv, IInv', JInv, NEW r \in Requests, DeleteUserTokens(r)
  PROVE  JInv'
<1>1. PICK q \in Request : q = req[r] /\ ReqOK(q) /\ Base(q) /\ Place(q)
  BY DEF IInv, JInv
<1>2. /\ q.pc \in Purges /\ users' = users /\ sessions' = sessions
      /\ proven' = proven /\ nextId' = nextId
      /\ tokens' = {t \in tokens : t.uid # {q.uid} \/ t.purpose # Purged(q.pc)}
      /\ Put(r, AfterPurge(q))
  <2>1. /\ q.pc \in {"purgeReset", "purge2FA", "purgeMagic"} /\ Put(r, AfterPurge(q))
        /\ tokens' = {t \in tokens : t.uid # {q.uid} \/ t.purpose # Purged(q.pc)}
    BY <1>1, Zenon DEF DeleteUserTokens
  <2>2. UNCHANGED <<users, sessions, proven, nextId>>
    BY Zenon DEF DeleteUserTokens
  <2>3. QED
    BY <2>1, <2>2, Zenon DEF Purges
<1>3. Moves /\ StoresOK' /\ \A o : RootFree(o)
  BY <1>2, StoresShrink
<1>4. Base(q)' /\ q.op \in Purging /\ Cut(q)
  BY <1>1, <1>2, <1>3, BaseFrame, Zenon DEF IInv, Place, Way
<1>5. PICK p : /\ p = AfterPurge(q) /\ Same(q, p)
               /\ \/ q.pc = "purgeReset" /\ p.pc = "purge2FA"
                  \/ q.pc = "purge2FA" /\ p.pc = "purgeMagic"
                  \/ q.pc = "purgeMagic" /\ p.pc = "done" /\ p.res = "ok"
  <2>1. CASE q.pc = "purgeReset"
    <3>1. AfterPurge(q) = [q EXCEPT !.pc = "purge2FA"]
      BY <2>1 DEF AfterPurge
    <3>2. /\ Same(q, [q EXCEPT !.pc = "purge2FA"])
          /\ [q EXCEPT !.pc = "purge2FA"].pc = "purge2FA"
      BY SameSetPC, Zenon DEF PCs
    <3>3. QED
      BY <2>1, <3>1, <3>2, Zenon
  <2>2. CASE q.pc = "purge2FA"
    <3>1. AfterPurge(q) = [q EXCEPT !.pc = "purgeMagic"]
      BY <2>2 DEF AfterPurge
    <3>2. /\ Same(q, [q EXCEPT !.pc = "purgeMagic"])
          /\ [q EXCEPT !.pc = "purgeMagic"].pc = "purgeMagic"
      BY SameSetPC, Zenon DEF PCs
    <3>3. QED
      BY <2>2, <3>1, <3>2, Zenon
  <2>3. CASE q.pc = "purgeMagic"
    <3>1. AfterPurge(q) = Done(q, "ok")
      BY <2>3 DEF AfterPurge
    <3>2. QED
      BY <2>3, <3>1, SameDone DEF Results
  <2>4. QED
    BY <1>2, <2>1, <2>2, <2>3, Zenon DEF Purges
<1>6. /\ HasPurged(p) \subseteq HasPurged(q) \cup {Purged(q.pc)}
      /\ HasRevoked(p) => HasRevoked(q)
  <2>1. HasRevoked(p) => HasRevoked(q)
    BY <1>2, <1>4, <1>5, Zenon DEF Same, HasRevoked, Purges, Returned, Purging, SetsPassword
  <2>2. HasPurged(p) \subseteq HasPurged(q) \cup {Purged(q.pc)}
    BY <1>4, <1>5 DEF Same, HasPurged, Returned, Purged
  <2>3. QED
    BY <2>1, <2>2, SMTT(30)
<1>7. Cut(p)'
  <2>1. ASSUME HasRevoked(p), NEW x \in sessions', x.uid = p.uid
        PROVE  x.born >= p.wver
    <3>1. p.uid = q.uid /\ p.wver = q.wver
      BY <1>5, Zenon DEF Same
    <3>2. x \in sessions /\ x.uid = q.uid
      BY <1>2, <2>1, <3>1, Zenon
    <3>3. HasRevoked(q)
      BY <1>6, <2>1, Zenon
    <3>4. x.born >= q.wver
      BY <1>4, <3>2, <3>3, Zenon DEF Cut
    <3>5. QED
      BY <3>1, <3>4, Zenon
  <2>2. ASSUME NEW t \in tokens', t.uid = {p.uid}, t.purpose \in HasPurged(p)
        PROVE  t.born >= p.wver
    <3>1. t \in tokens /\ (t.uid # {q.uid} \/ t.purpose # Purged(q.pc))
      BY <1>2, Zenon
    <3>2. p.uid = q.uid /\ p.wver = q.wver
      BY <1>5, Zenon DEF Same
    <3>3. t.uid = {q.uid} /\ t.purpose \in HasPurged(q)
      BY <1>6, <2>2, <3>1, <3>2
    <3>4. t.born >= q.wver
      BY <1>4, <3>1, <3>3, Zenon DEF Cut
    <3>5. QED
      BY <3>2, <3>4, Zenon
  <2>3. QED
    BY <2>1, <2>2, SMTT(30) DEF Cut
<1>8. Way(p) /\ Before(p) /\ Gated(p) /\ ~Holding(p)
  BY <1>4, <1>5 DEF Same, Way, Before, Gated, Holding, Purges
<1>9. Shown(p)' /\ Rooted(p)'
  <2>1. Shown(p)'
    BY <1>5 DEF Shown
  <2>2. Rooted(p)'
    BY <1>5, <1>8 DEF Rooted
  <2>3. QED
    BY <2>1, <2>2
<1>10. Place(p)'
  BY <1>7, <1>8, <1>9 DEF Place
<1>11. Put(r, p) /\ Base(p)'
  BY <1>2, <1>4, <1>5, SameBase, Zenon
<1>12. QED
  BY <1>3, <1>8, <1>10, <1>11, JStep, Zenon

(* SessionStore.DeleteSession: whoever deletes the session holds its root. *)
LEMMA DeleteSessionJ ==
  ASSUME IInv, IInv', JInv, NEW r \in Requests, DeleteSession(r)
  PROVE  JInv'
<1>1. PICK q \in Request : q = req[r] /\ ReqOK(q) /\ Base(q) /\ Place(q)
  BY DEF IInv, JInv
<1>2. PICK mine : mine = {x \in sessions : x.id = q.sess /\ x.uid = q.uid}
  BY Zenon
<1>3. /\ q.pc = "delete" /\ users' = users /\ tokens' = tokens
      /\ proven' = proven /\ nextId' = nextId /\ sessions' = sessions \ mine
      /\ Put(r, IF mine = {} THEN Gone(q)
                ELSE IF q.op = "RefreshSession" THEN [q EXCEPT !.pc = "load"]
                ELSE Done(q, "ok"))
  BY <1>1, <1>2 DEF DeleteSession
<1>4. Moves /\ StoresOK' /\ \A o : RootFree(o)
  BY <1>3, StoresShrink
<1>5. /\ Base(q)' /\ q.op \in {"RefreshSession", "RevokeSession"} /\ q.wver = 0
      /\ q.op = "RefreshSession" => \A x \in sessions : x.id = q.sess => x.root = q.root
  BY <1>1, <1>3, <1>4, BaseFrame DEF IInv, Place, Way, Before, Rooted
<1>6. CASE mine = {}
  <2>1. PICK p : p = Done(q, "err")
    OBVIOUS
  <2>2. Same(q, p) /\ Quiet(p)
    BY <2>1, SameDone DEF Results, Quiet
  <2>3. Place(p)' /\ Base(p)' /\ ~Holding(p)
    BY <1>5, <2>2, QuietPlace, SameBase DEF Quiet, Holding
  <2>4. Put(r, p)
    BY <1>3, <1>6, <2>1 DEF Gone
  <2>5. QED
    BY <1>4, <2>3, <2>4, JStep
<1>7. CASE mine # {} /\ q.op = "RefreshSession"
  <2>1. PICK p : p = [q EXCEPT !.pc = "load"]
    BY Zenon
  <2>2. Same(q, p) /\ p.pc = "load"
    BY <2>1, SameSetPC, Zenon DEF PCs
  <2>3. PICK x \in mine : TRUE
    BY <1>7, SMTT(30)
  <2>4. x \in sessions /\ x.root = q.root /\ x.root < nextId
    BY <1>2, <1>5, <1>7, Zenon DEF JInv, StoresOK, SessionOK
  <2>5. \A y \in sessions' : y.root # q.root
    BY <1>3, <2>3, <2>4, SMTT(30) DEF JInv, StoresOK
  <2>6. Way(p) /\ Before(p) /\ Gated(p)
    BY <1>5, <1>7, <2>2, SMT, SMTT(30) DEF Same, Way, Before, Gated, Purges
  <2>7. Shown(p)'
    BY <1>7, <2>2 DEF Same, Shown
  <2>8. Rooted(p)'
    BY <1>3, <2>2, <2>4, <2>5 DEF Same, Rooted
  <2>9. Cut(p)'
    BY <1>7, <2>2, NothingCut, Zenon DEF Same, Purging, SetsPassword, Purges
  <2>10. Place(p)' /\ Base(p)'
    BY <1>5, <2>2, <2>6, <2>7, <2>8, <2>9, SameBase, Zenon DEF Place
  <2>11. ASSUME NEW s \in Requests, s # r, Holding(req[s])
         PROVE  req[s].root # p.root
    <3>1. \A y \in sessions : y.root # req[s].root
      BY <2>11, Zenon DEF JInv, Place, Rooted
    <3>2. QED
      BY <2>2, <2>4, <3>1 DEF Same
  <2>12. Put(r, p)
    BY <1>3, <1>7, <2>1, SMTT(30)
  <2>13. QED
    BY <1>4, <2>10, <2>11, <2>12, JStep
<1>8. CASE mine # {} /\ q.op # "RefreshSession"
  <2>1. PICK p : p = Done(q, "ok")
    OBVIOUS
  <2>2. Same(q, p) /\ p.pc = "done"
    BY <2>1, SameDone DEF Results
  <2>3. Cut(p)'
    BY <1>5, <2>2, NothingCut DEF Same, Purging, SetsPassword, Purges
  <2>4. Place(p)' /\ Base(p)' /\ ~Holding(p)
    BY <1>5, <2>2, <2>3, OkPlace, SameBase, Zenon DEF Holding
  <2>5. Put(r, p)
    BY <1>3, <1>8, <2>1
  <2>6. QED
    BY <1>4, <2>4, <2>5, JStep
<1>9. QED
  BY <1>6, <1>7, <1>8

(* SessionStore.CreateSession: a new sign-in, or the one session of an old *)
(* one; with the gate on, for a verified account or by Register.           *)
LEMMA CreateSessionJ ==
  ASSUME IInv, IInv', JInv, NEW r \in Requests, CreateSession(r)
  PROVE  JInv'
<1>1. PICK q \in Request : q = req[r] /\ ReqOK(q) /\ Base(q) /\ Place(q)
  BY DEF IInv, JInv
<1>2. PICK new : new = [id |-> nextId, uid |-> q.uid, born |-> users[q.uid].version,
                        root |-> IF q.op = "RefreshSession" THEN q.root ELSE nextId,
                        via |-> q.op]
  BY ZenonT(30)
<1>3. /\ new.id = nextId /\ new.uid = q.uid /\ new.born = users[q.uid].version
      /\ new.root = IF q.op = "RefreshSession" THEN q.root ELSE nextId
      /\ new.via = q.op
  BY <1>2
<1>4. /\ q.pc = "session" /\ users' = users /\ tokens' = tokens /\ proven' = proven
      /\ nextId' = nextId + 1 /\ sessions' = sessions \cup {new} /\ Put(r, Done(q, "ok"))
  BY <1>1, <1>2, Zenon DEF CreateSession
<1>5. q.uid \in DOMAIN users /\ nextId \in Nat /\ \A u \in DOMAIN users : users[u].version \in Nat
  BY <1>1, <1>4 DEF ReqOK, Knows, UserPCs, IInv, StoreOK, Row
<1>6. Moves
  <2>1. \A u \in DOMAIN users : users[u].version >= users[u].version
    BY <1>5, SMT, SMTT(30)
  <2>2. \A u \in DOMAIN users : RowMoves(users[u], users'[u])
    BY <1>4, <2>1 DEF RowMoves
  <2>3. \A x \in sessions' : SessionMoves(x)
    BY <1>3, <1>4, <1>5 DEF SessionMoves
  <2>4. \A t \in tokens' : TokenMoves(t)
    BY <1>4 DEF TokenMoves
  <2>5. nextId' >= nextId
    BY <1>4, <1>5
  <2>6. QED
    BY <1>4, <2>2, <2>3, <2>4, <2>5 DEF Moves
<1>7. \A x \in sessions : /\ x.id < nextId /\ x.root < nextId
                          /\ x.id \in Nat /\ x.root \in Nat
  BY SMT, SMTT(30) DEF JInv, StoresOK, SessionOK, IInv, StoreOK, Session
<1>8. q.op = "RefreshSession" => /\ Holding(q) /\ q.root < nextId
                                 /\ \A x \in sessions : x.root # q.root
  BY <1>1, <1>4 DEF Place, Rooted, Holding
<1>9. \A x \in sessions : x.id # new.id /\ x.root # new.root
  <2>1. \A x \in sessions : x.id # nextId /\ x.root # nextId
    BY <1>5, <1>7, SMT, SMTT(30)
  <2>2. QED
    BY <1>3, <1>8, <2>1
<1>10. StoresOK'
  <2>1. \A u \in DOMAIN users' : users'[u].verified => users'[u].email \in proven'
    BY <1>4 DEF JInv, StoresOK
  <2>2. \A t \in tokens' : MailOK(t)'
    BY <1>4 DEF JInv, StoresOK, MailOK
  <2>3. ASSUME NEW x \in sessions
        PROVE  SessionOK(x)'
    <3>1. x.id < nextId' /\ x.root < nextId'
      BY <1>4, <1>5, <1>7, SMT, SMTT(30)
    <3>2. RequireVerifiedEmail => users[x.uid].verified \/ x.via = "Register"
      BY DEF JInv, StoresOK, SessionOK
    <3>3. QED
      BY <1>4, <3>1, <3>2 DEF SessionOK
  <2>4. SessionOK(new)'
    <3>1. new.id < nextId' /\ new.root < nextId'
      <4>1. q.root \in Nat
        BY SMTT(30) DEF Request
      <4>2. QED
        BY <1>3, <1>4, <1>5, <1>8, <4>1
    <3>2. RequireVerifiedEmail => users[new.uid].verified \/ new.via = "Register"
      BY <1>1, <1>3, <1>4 DEF Place, Gated, Base
    <3>3. QED
      BY <1>4, <3>1, <3>2 DEF SessionOK
  <2>5. \A x, y \in sessions' : x.id = y.id \/ x.root = y.root => x = y
    BY <1>4, <1>9 DEF JInv, StoresOK
  <2>6. QED
    BY <1>4, <2>1, <2>2, <2>3, <2>4, <2>5 DEF StoresOK
<1>11. PICK p : p = Done(q, "ok")
  OBVIOUS
<1>12. Same(q, p) /\ p.pc = "done"
  BY <1>11, SameDone DEF Results
<1>13. Place(p)' /\ Base(p)' /\ ~Holding(p)
  <2>1. q.op \notin Purging \cup {"DisableUser", "VerifyEmail"}
    BY <1>1, <1>4 DEF Place, Way, Purging, SetsPassword
  <2>2. Cut(p)'
    BY <1>12, <2>1, NothingCut DEF Same, Purges
  <2>3. Base(q)'
    BY <1>1, <1>6, BaseFrame DEF IInv
  <2>4. QED
    BY <1>12, <2>2, <2>3, OkPlace, SameBase, SMTT(30) DEF Holding
<1>14. ASSUME NEW s \in Requests, s # r
       PROVE  RootFree(req[s])
  <2>1. SUFFICES ASSUME Holding(req[s])
                 PROVE  new.root # req[s].root
    BY <1>4 DEF RootFree
  <2>2. req[s].root < nextId /\ req[s].root \in Nat
    BY <2>1 DEF JInv, Place, Rooted, IInv, Request
  <2>3. CASE q.op = "RefreshSession"
    BY <1>1, <1>3, <1>8, <1>14, <2>1, <2>3 DEF JInv, RootsApart
  <2>4. CASE q.op # "RefreshSession"
    BY <1>3, <1>5, <2>2, <2>4
  <2>5. QED
    BY <2>3, <2>4, SMTT(30)
<1>15. QED
  BY <1>4, <1>6, <1>10, <1>11, <1>13, <1>14, JStep

(* TokenStore.CreateToken: a token bound to an address is sent to it, and  *)
(* a magic link goes to the account's address unless that is verified.     *)
LEMMA CreateTokenJ ==
  ASSUME IInv, IInv', JInv, NEW r \in Requests, CreateToken(r)
  PROVE  JInv'
<1>1. PICK q \in Request : q = req[r] /\ ReqOK(q) /\ Base(q) /\ Place(q)
  BY DEF IInv, JInv
<1>2. PICK new : new =
        [id |-> nextId, purpose |-> Issues(q.op), used |-> FALSE,
         uid |-> IF q.nil THEN {} ELSE {q.uid},
         email |-> IF q.nil \/ q.op \in BoundToEmail THEN {q.email} ELSE {},
         born |-> IF q.nil THEN 0 ELSE users[q.uid].version,
         mailbox |-> IF Issues(q.op) = "two_factor" THEN {} ELSE {q.email},
         against |-> IF q.op = "Login" THEN q.user.hash ELSE {}]
  BY Zenon
<1>3. /\ new.purpose = Issues(q.op) /\ new.uid = (IF q.nil THEN {} ELSE {q.uid})
      /\ new.email = (IF q.nil \/ q.op \in BoundToEmail THEN {q.email} ELSE {})
      /\ new.born = (IF q.nil THEN 0 ELSE users[q.uid].version)
      /\ new.mailbox = (IF Issues(q.op) = "two_factor" THEN {} ELSE {q.email})
  BY <1>2, Zenon
<1>4. /\ q.pc = "token" /\ users' = users /\ sessions' = sessions /\ proven' = proven
      /\ nextId' = nextId + 1 /\ tokens' = tokens \cup {new} /\ Put(r, Done(q, "ok"))
  BY <1>1, <1>2, Zenon DEF CreateToken
<1>5. nextId \in Nat /\ \A u \in DOMAIN users : users[u].version \in Nat
  BY DEF IInv, StoreOK, Row
<1>6. /\ ~q.nil => q.uid \in DOMAIN users
      /\ q.nil => q.op = "CreateMagicLinkToken"
      /\ q.email \in Emails
  BY <1>1, <1>4, Zenon DEF ReqOK, Knows, Base, Request
<1>7. Moves
  <2>1. \A u \in DOMAIN users : users[u].version >= users[u].version
    BY <1>5
  <2>2. \A u \in DOMAIN users : RowMoves(users[u], users'[u])
    BY <1>4, <2>1 DEF RowMoves
  <2>3. \A x \in sessions' : SessionMoves(x)
    BY <1>4 DEF SessionMoves
  <2>4. \A t \in tokens' : TokenMoves(t)
    <3>1. \A u \in new.uid : u \in DOMAIN users /\ new.born = users[u].version
      BY <1>3, <1>6
    <3>2. QED
      BY <1>4, <3>1 DEF TokenMoves
  <2>5. nextId' >= nextId
    BY <1>4, <1>5
  <2>6. QED
    BY <1>4, <2>2, <2>3, <2>4, <2>5 DEF Moves
<1>8. MailOK(new)
  <2>1. new.uid = {} => new.purpose = "magic_link"
    BY <1>3, <1>6 DEF Issues
  <2>2. ASSUME new.uid = {} \/ new.purpose \in {"email_verification", "email_change"}
        PROVE  new.email = {q.email} /\ new.mailbox = {q.email}
    <3>1. CASE q.nil
      BY <1>3, <1>6, <3>1 DEF Issues
    <3>2. CASE ~q.nil
      <4>1. Issues(q.op) \in {"email_verification", "email_change"}
        BY <1>3, <2>2, <3>2
      <4>2. q.op \in BoundToEmail
        BY <4>1 DEF Issues, BoundToEmail
      <4>3. QED
        BY <1>3, <4>1, <4>2
    <3>3. QED
      BY <3>1, <3>2
  <2>3. ASSUME new.purpose = "magic_link", NEW u \in new.uid
        PROVE  users[u].verified \/ new.mailbox = {users[u].email}
    <3>1. q.op = "CreateMagicLinkToken" /\ ~q.nil /\ u = q.uid
      BY <1>3, <2>3 DEF Issues
    <3>2. users[q.uid].verified \/ users[q.uid].email = q.email
      BY <1>1, <1>4, <3>1, Zenon DEF Place, Shown
    <3>3. new.mailbox = {q.email}
      BY <1>3, <2>3
    <3>4. QED
      BY <3>1, <3>2, <3>3
  <2>4. QED
    BY <1>6, <2>1, <2>2, <2>3 DEF MailOK
<1>9. StoresOK'
  <2>1. \A u \in DOMAIN users' : users'[u].verified => users'[u].email \in proven'
    BY <1>4 DEF JInv, StoresOK
  <2>2. \A t \in tokens' : MailOK(t)'
    <3>1. \A t \in tokens' : MailOK(t)
      BY <1>4, <1>8 DEF JInv, StoresOK
    <3>2. QED
      BY <1>4, <3>1 DEF MailOK
  <2>3. ASSUME NEW x \in sessions
        PROVE  SessionOK(x)'
    <3>1. SessionOK(x) /\ x.id \in Nat /\ x.root \in Nat
      BY DEF JInv, StoresOK, IInv, StoreOK, Session
    <3>2. x.id < nextId' /\ x.root < nextId'
      BY <1>4, <1>5, <3>1, SMT, SMTT(30) DEF SessionOK
    <3>3. QED
      BY <1>4, <3>1, <3>2 DEF SessionOK
  <2>4. QED
    BY <1>4, <2>1, <2>2, <2>3 DEF JInv, StoresOK
<1>10. PICK p : p = Done(q, "ok")
  OBVIOUS
<1>11. Same(q, p) /\ p.pc = "done"
  BY <1>10, SameDone DEF Results
<1>12. Place(p)' /\ Base(p)' /\ ~Holding(p)
  <2>1. q.op \notin Purging \cup {"DisableUser", "VerifyEmail"}
    BY <1>1, <1>4 DEF Place, Way, Purging, SetsPassword
  <2>2. Cut(p)'
    BY <1>11, <2>1, NothingCut DEF Same, Purges
  <2>3. Base(q)'
    BY <1>1, <1>7, BaseFrame DEF IInv
  <2>4. QED
    BY <1>11, <2>2, <2>3, OkPlace, SameBase DEF Holding
<1>13. \A s \in Requests : RootFree(req[s])
  BY <1>4, SMT, SMTT(30) DEF RootFree
<1>14. QED
  BY <1>4, <1>7, <1>9, <1>10, <1>12, <1>13, JStep

(* What a request goes on with once its token is handed to it: an address  *)
(* it carries is one whose mailbox has just been proven.                   *)
LEMMA ConsumedPlace ==
  ASSUME NEW q \in Request, q.pc = "consume", q.wver = 0, ~q.user.verified, Way(q),
         Base(q)', NEW t \in Token, MailOK(t)', t.purpose = Redeems(q.op),
         NEW u \in t.uid, u \in Uids, t.mailbox \subseteq proven'
  PROVE  \E p : p = Consumed(q, t, u) /\ Base(p)' /\ Place(p)' /\ ~Holding(p)
<1>1. CASE q.op \in {"VerifyEmail", "ConfirmEmailChange"}
  <2>1. PICK e \in Emails : t.email = {e} /\ t.mailbox = {e}
    BY <1>1 DEF Redeems, MailOK
  <2>2. Only(t.email) = e /\ e \in proven'
    BY <2>1, OnlySingleton, Zenon
  <2>3. PICK pc \in {"load", "read"} : pc = IF q.op = "VerifyEmail" THEN "load" ELSE "read"
    OBVIOUS
  <2>4. PICK o : o = [q EXCEPT !.got = TRUE, !.uid = u]
    OBVIOUS
  <2>5. PICK p : p = [o EXCEPT !.pc = pc, !.email = Only(t.email)]
    OBVIOUS
  <2>6. Consumed(q, t, u) = p
    BY <1>1, <2>3, <2>4, <2>5, Zenon DEF Consumed
  <2>7. /\ p.op = q.op /\ p.uid = u /\ p.user = q.user /\ p.wver = q.wver
        /\ p.nil = q.nil /\ p.email = e /\ p.pc = pc
    BY <2>2, <2>4, <2>5 DEF Request
  <2>8. Base(p)'
    BY <2>7, SMT, SMTT(30) DEF Base
  <2>9. Way(p) /\ Before(p) /\ Gated(p) /\ ~Holding(p)
    BY <1>1, <2>3, <2>7 DEF Way, Before, Gated, Holding, Purges
  <2>10. Shown(p)'
    BY <1>1, <2>2, <2>3, <2>7, Zenon DEF Shown, Stamps
  <2>11. ~HasRevoked(p) /\ HasPurged(p) = {}
    BY <2>3, <2>7 DEF HasRevoked, HasPurged, Returned, Purges
  <2>12. Cut(p)' /\ Rooted(p)'
    BY <2>3, <2>7, <2>9, <2>11, ZenonT(30) DEF Cut, Rooted
  <2>13. Place(p)'
    BY <2>9, <2>10, <2>12, Zenon DEF Place, Way, Before, Gated
  <2>14. QED
    BY <2>6, <2>8, <2>9, <2>13
<1>2. CASE /\ q.op \in {"ResetPassword", "RedeemMagicLink", "CompleteTwoFactor"}
           /\ q.op = "CompleteTwoFactor" => u = q.uid
  <2>1. PICK pc \in {"load", "read"} : pc = IF q.op = "ResetPassword" THEN "read" ELSE "load"
    OBVIOUS
  <2>2. PICK o : o = [q EXCEPT !.got = TRUE, !.uid = u]
    OBVIOUS
  <2>3. PICK p : p = [o EXCEPT !.pc = pc]
    BY Zenon
  <2>4. Consumed(q, t, u) = p
    BY <1>2, <2>1, <2>2, <2>3, Zenon DEF Consumed
  <2>5. /\ p.op = q.op /\ p.uid = u /\ p.user = q.user /\ p.wver = q.wver
        /\ p.nil = q.nil /\ p.pc = pc
    BY <2>2, <2>3, SMTT(30) DEF Request
  <2>6. Base(p)'
    BY <2>5, SMT, SMTT(30) DEF Base
  <2>7. Way(p) /\ Before(p) /\ Gated(p) /\ ~Holding(p)
    <3>1. p.pc = "read" \/ (p.pc = "load" /\ p.op \in {"RedeemMagicLink", "CompleteTwoFactor"})
      BY <1>2, <2>1, <2>5, Zenon
    <3>2. p.wver = 0
      BY <2>5, Zenon
    <3>3. QED
      BY ONLY <3>1, <3>2 DEF Way, Before, Gated, Holding, Purges
  <2>8. q.op = "RedeemMagicLink" => Proved(u)'
    <3>1. q.op = "RedeemMagicLink" => t.purpose = "magic_link"
      BY SMTT(30) DEF Redeems
    <3>2. QED
      BY <3>1 DEF MailOK, Proved
  <2>9. Shown(p)'
    BY <1>2, <2>1, <2>5, <2>8 DEF Shown, Stamps
  <2>10. ~HasRevoked(p) /\ HasPurged(p) = {}
    BY <2>1, <2>5, SMTT(30) DEF HasRevoked, HasPurged, Returned, Purges
  <2>11. Cut(p)' /\ Rooted(p)'
    <3>1. Cut(p)'
      BY <2>10, Zenon DEF Cut
    <3>2. p.pc # "delete"
      BY <2>1, <2>5
    <3>3. Rooted(p)'
      BY <2>7, <3>2, Zenon DEF Rooted
    <3>4. QED
      BY <3>1, <3>3
  <2>12. Place(p)'
    BY <2>7, <2>9, <2>11, Zenon DEF Place, Way, Before, Gated
  <2>13. QED
    BY <2>4, <2>6, <2>7, <2>12
<1>3. CASE q.op = "CompleteTwoFactor" /\ u # q.uid
  <2>1. PICK o : o = [q EXCEPT !.got = TRUE]
    BY Zenon
  <2>2. o \in Request /\ Same(q, o)
    BY <2>1, Zenon DEF Same, Request
  <2>3. PICK p : p = Done(o, "err")
    BY SMTT(30)
  <2>4. Same(o, p) /\ Quiet(p)
    BY <2>2, <2>3, SameDone, SMT, SMTT(30) DEF Results, Quiet
  <2>5. Base(p)' /\ Place(p)' /\ ~Holding(p)
    BY <2>2, <2>4, SameBase, QuietPlace DEF Quiet, Holding
  <2>6. Consumed(q, t, u) = p
    BY <1>3, <2>1, <2>3 DEF Consumed
  <2>7. QED
    BY <2>5, <2>6
<1>4. q.op \in {"ResetPassword", "VerifyEmail", "ConfirmEmailChange", "RedeemMagicLink",
              "CompleteTwoFactor"}
  BY Zenon DEF Way
<1>5. QED
  BY <1>1, <1>2, <1>3, <1>4

(* TokenStore.ConsumeToken.                                                *)
LEMMA ConsumeTokenJ ==
  ASSUME IInv, IInv', JInv, NEW r \in Requests, ConsumeToken(r)
  PROVE  JInv'
<1>1. PICK q \in Request : q = req[r] /\ ReqOK(q) /\ Base(q) /\ Place(q)
  BY DEF IInv, JInv
<1>2. q.pc = "consume" /\ users' = users /\ sessions' = sessions /\ nextId' = nextId
  BY <1>1, Zenon DEF ConsumeToken
<1>3. q.wver = 0 /\ ~q.user.verified /\ Way(q)
  BY <1>1, <1>2, Zenon DEF Place, Before
<1>4. CASE Put(r, Done(q, "err")) /\ UNCHANGED <<tokens, proven>>
  <2>1. Same(q, Done(q, "err")) /\ Quiet(Done(q, "err"))
    BY SameDone DEF Results, Quiet
  <2>2. QED
    BY <1>1, <1>2, <1>4, <2>1, QuietStep, Zenon DEF stores
<1>5. ASSUME NEW t \in Live(q), proven \subseteq proven',
             tokens' = (tokens \ {t}) \cup {[t EXCEPT !.used = TRUE]}
      PROVE  /\ t \in Token /\ t.purpose = Redeems(q.op) /\ t.uid \subseteq Uids
             /\ MailOK(t)' /\ Moves /\ StoresOK' /\ (\A o : RootFree(o)) /\ Base(q)'
  <2>1. t \in tokens /\ t \in Token /\ t.purpose = Redeems(q.op)
    BY DEF Live, IInv, StoreOK
  <2>2. \A v \in tokens' : \E s \in tokens :
          /\ s.uid = v.uid /\ s.purpose = v.purpose /\ s.born = v.born
          /\ s.email = v.email /\ s.mailbox = v.mailbox
    <3>1. PICK v : v = [t EXCEPT !.used = TRUE]
      BY Zenon
    <3>2. /\ t.uid = v.uid /\ t.purpose = v.purpose /\ t.born = v.born
          /\ t.email = v.email /\ t.mailbox = v.mailbox
      BY <2>1, <3>1 DEF Token
    <3>3. \A s \in tokens' : s \in tokens \/ s = v
      BY <1>5, <3>1
    <3>4. QED
      BY <2>1, <3>2, <3>3
  <2>3. Moves /\ StoresOK' /\ \A o : RootFree(o)
    BY <1>2, <1>5, <2>2, StoresShrink
  <2>4. MailOK(t)'
    <3>1. MailOK(t)
      BY <2>1 DEF JInv, StoresOK
    <3>2. QED
      BY <1>2, <3>1 DEF MailOK
  <2>5. Base(q)'
    BY <1>1, <2>3, BaseFrame DEF IInv
  <2>6. t.uid \subseteq Uids
    BY <2>1 DEF Token
  <2>7. QED
    BY <2>1, <2>3, <2>4, <2>5, <2>6
<1>6. ASSUME NEW t \in Live(q), proven' = proven,
             tokens' = (tokens \ {t}) \cup {[t EXCEPT !.used = TRUE]},
             Put(r, Done([q EXCEPT !.got = TRUE], "err"))
      PROVE  JInv'
  <2>1. Moves /\ StoresOK' /\ (\A o : RootFree(o)) /\ Base(q)'
    BY <1>5, <1>6
  <2>2. PICK o : o = [q EXCEPT !.got = TRUE]
    BY Zenon
  <2>3. o \in Request /\ Same(q, o)
    BY <2>2, Zenon DEF Same, Request
  <2>4. PICK p : p = Done(o, "err")
    OBVIOUS
  <2>5. Same(o, p) /\ Quiet(p)
    BY <2>3, <2>4, SameDone DEF Results, Quiet
  <2>6. Base(p)' /\ Place(p)' /\ ~Holding(p)
    BY <2>1, <2>3, <2>5, SameBase, QuietPlace DEF Quiet, Holding
  <2>7. Put(r, p)
    BY <1>6, <2>2, <2>4
  <2>8. QED
    BY <2>1, <2>6, <2>7, JStep
<1>7. ASSUME NEW t \in Live(q), proven' = proven \cup t.mailbox,
             tokens' = (tokens \ {t}) \cup {[t EXCEPT !.used = TRUE]},
             NEW u \in t.uid, Put(r, Consumed(q, t, u))
      PROVE  JInv'
  <2>1. /\ t \in Token /\ t.purpose = Redeems(q.op) /\ t.uid \subseteq Uids
        /\ MailOK(t)' /\ Moves /\ StoresOK' /\ (\A o : RootFree(o)) /\ Base(q)'
    BY <1>5, <1>7
  <2>2. PICK p : p = Consumed(q, t, u) /\ Base(p)' /\ Place(p)' /\ ~Holding(p)
    BY <1>2, <1>3, <1>7, <2>1, ConsumedPlace
  <2>3. QED
    BY <1>7, <2>1, <2>2, JStep
<1>8. ASSUME NEW t \in Live(q), proven' = proven \cup t.mailbox,
             tokens' = (tokens \ {t}) \cup {[t EXCEPT !.used = TRUE]},
             t.uid = {},
             Put(r, [q EXCEPT !.got = TRUE, !.pc = "lookup",
                              !.email = Only(t.email)])
      PROVE  JInv'
  <2>1. /\ t \in Token /\ t.purpose = Redeems(q.op)
        /\ MailOK(t)' /\ Moves /\ StoresOK' /\ (\A o : RootFree(o)) /\ Base(q)'
    BY <1>5, <1>8
  <2>2. PICK e \in Emails : t.email = {e} /\ t.mailbox = {e}
    BY <1>8, <2>1 DEF MailOK
  <2>3. Only(t.email) = e /\ e \in proven'
    BY <1>8, <2>2, OnlySingleton, Zenon
  <2>4. q.op = "RedeemMagicLink"
    BY <1>8, <2>1 DEF MailOK, Redeems
  <2>5. PICK p : p = [q EXCEPT !.got = TRUE, !.pc = "lookup", !.email = Only(t.email)]
    OBVIOUS
  <2>6. /\ p.op = q.op /\ p.uid = q.uid /\ p.user = q.user /\ p.wver = q.wver
        /\ p.nil = q.nil /\ p.email = e /\ p.pc = "lookup"
    BY <2>3, <2>5 DEF Request
  <2>7. Base(p)'
    BY <2>1, <2>6, SMT, SMTT(30) DEF Base
  <2>8. Way(p) /\ Before(p) /\ Gated(p) /\ ~Holding(p)
    <3>1. p.pc = "lookup" /\ p.op = "RedeemMagicLink"
      BY <2>4, <2>6, Zenon
    <3>2. p.wver = 0
      BY <1>3, <2>6, Zenon
    <3>3. QED
      BY ONLY <3>1, <3>2 DEF Way, Before, Gated, Holding, Purges
  <2>9. Shown(p)'
    BY <2>3, <2>6 DEF Shown
  <2>10. ~HasRevoked(p) /\ HasPurged(p) = {}
    BY <2>6 DEF HasRevoked, HasPurged, Returned, Purges
  <2>11. Cut(p)' /\ Rooted(p)'
    BY <2>6, <2>8, <2>10, Zenon DEF Cut, Rooted
  <2>12. Place(p)'
    BY <2>8, <2>9, <2>11 DEF Place
  <2>13. QED
    BY <1>8, <2>1, <2>5, <2>7, <2>8, <2>12, JStep
<1>9. QED
  BY <1>1, <1>4, <1>6, <1>7, <1>8, Zenon DEF ConsumeToken

(* No request moves while the stores change as above.                      *)
LEMMA NobodyMoves ==
  ASSUME IInv, IInv', JInv, Moves, StoresOK', \A q : RootFree(q), req' = req
  PROVE  JInv'
<1>1. ASSUME NEW s \in Requests
      PROVE  Base(req[s])' /\ Place(req[s])'
  <2>1. PICK q \in Request : q = req[s] /\ Knows(q) /\ Base(q) /\ Place(q)
    BY DEF IInv, ReqOK, JInv
  <2>2. Base(q)' /\ Place(q)'
    BY <2>1, PlaceFrame DEF IInv
  <2>3. QED
    BY <2>1, <2>2
<1>2. RootsApart'
  BY DEF JInv, RootsApart, Holding
<1>3. QED
  BY <1>1, <1>2 DEF JInv

-----------------------------------------------------------------------------
(* The second invariant holds initially and is kept by every step.         *)

(* What earlier requests left satisfies it.                                *)
LEMMA InitJInv == Init => JInv
<1> SUFFICES ASSUME Init PROVE JInv
  OBVIOUS
<1>1. PICK s \in Seeds : /\ users = s.users /\ sessions = s.sessions
                         /\ tokens = s.tokens /\ proven = s.proven
                         /\ nextId = s.nextId
  BY DEF Init
<1>2. SeedOK(s)
  BY SeedsAssumption, Zenon
<1>3. \A u \in DOMAIN users : users[u].verified => users[u].email \in proven
  <2>1. \A u \in DOMAIN s.users : s.users[u].verified => s.users[u].email \in s.proven
    BY <1>2, Zenon DEF SeedOK
  <2>2. QED
    BY <1>1, <2>1, Zenon
<1>4. \A x \in sessions : SessionOK(x)
  <2>1. ASSUME NEW x \in s.sessions
        PROVE  /\ x.id < s.nextId /\ x.root < s.nextId
               /\ s.users[x.uid].verified \/ x.via = "Register"
    BY <1>2, Zenon DEF SeedOK
  <2>2. QED
    BY <1>1, <2>1, Zenon DEF SessionOK
<1>5. \A x, y \in sessions : x.id = y.id \/ x.root = y.root => x = y
  <2>1. \A x \in s.sessions : \A y \in s.sessions : x.id = y.id \/ x.root = y.root => x = y
    BY <1>2, Zenon DEF SeedOK
  <2>2. QED
    BY <1>1, <2>1, Zenon
<1>6. ASSUME NEW t \in tokens
      PROVE  MailOK(t)
  <2>1. TokenShape(t, users)
    BY <1>1, <1>2, Zenon DEF SeedOK
  <2>2. t.uid = {} => t.purpose = "magic_link"
    BY <2>1, Zenon DEF TokenShape
  <2>3. QED
    BY <2>1, <2>2 DEF TokenShape, MailOK
<1>7. StoresOK
  BY <1>3, <1>4, <1>5, <1>6 DEF StoresOK
<1>8. \A r \in Requests : req[r] = Idle
  BY SMTT(30) DEF Init
<1>9. Base(Idle) /\ Way(Idle) /\ Before(Idle) /\ Gated(Idle) /\ Shown(Idle)
  BY IdleFields, SMT, SMTT(30) DEF Base, Way, Before, Gated, Shown, Purges
<1>10. ~Holding(Idle) /\ ~HasRevoked(Idle) /\ HasPurged(Idle) = {}
  BY IdleFields, SMTT(30) DEF Holding, HasRevoked, HasPurged, Returned, Purges
<1>11. Place(Idle)
  BY <1>9, <1>10, IdleFields DEF Place, Cut, Rooted
<1>12. RootsApart
  BY <1>8, <1>10 DEF RootsApart
<1>13. QED
  BY <1>7, <1>8, <1>9, <1>11, <1>12 DEF JInv

(* Every step keeps it.                                                    *)
LEMMA NextJInv == IInv /\ IInv' /\ JInv /\ [Next]_vars => JInv'
<1> SUFFICES ASSUME IInv, IInv', JInv, [Next]_vars PROVE JInv'
  OBVIOUS
<1>1. CASE UNCHANGED vars
  <2>1. UNCHANGED stores /\ req' = req
    BY <1>1 DEF vars, stores
  <2>2. QED
    BY <2>1, StoresStill, NobodyMoves
<1>2. CASE DeleteExpiredTokens
  <2>1. /\ users' = users /\ sessions' = sessions /\ proven' = proven
        /\ nextId' = nextId /\ req' = req /\ tokens' \subseteq tokens
    BY <1>2 DEF DeleteExpiredTokens
  <2>2. Moves /\ StoresOK' /\ \A q : RootFree(q)
    BY <2>1, StoresShrink
  <2>3. QED
    BY <2>1, <2>2, NobodyMoves
<1>3. ASSUME NEW r \in Requests, Call(r) \/ StoreCall(r) \/ StoreError(r)
      PROVE  JInv'
  BY <1>3, CallJ, StoreErrorJ, GetUserByEmailJ, CreateUserJ, GetUserByIDJ,
     ReadForUpdateJ, StillFreeJ, UpdateUserJ, ConsumeTokenJ, CreateTokenJ,
     DeleteUserTokensJ, CreateSessionJ, DeleteSessionJ, DeleteUserSessionsJ,
     HasSecondFactorJ DEF StoreCall
<1>4. QED
  BY <1>1, <1>2, <1>3 DEF Next

(* Both invariants hold in every reachable state.                          *)
LEMMA AlwaysJInv == Spec => [](IInv /\ JInv)
<1>1. Init => IInv /\ JInv
  BY InitIInv, InitJInv
<1>2. IInv /\ JInv /\ [Next]_vars => (IInv /\ JInv)'
  BY NextIInv, NextJInv
<1>3. QED
  BY <1>1, <1>2, PTL DEF Spec

-----------------------------------------------------------------------------
(* The theorems.                                                           *)

(* A verified account's address is one whose mailbox was proven, although  *)
(* RedeemMagicLink stamps the account a link names without comparing       *)
(* addresses (stampEmailVerified, ConfirmEmailChange).                     *)
THEOREM VerifiedAddressesAreProved == Spec => []VerifiedAddressProved
<1>1. JInv => VerifiedAddressProved
  BY DEF JInv, StoresOK, VerifiedAddressProved
<1>2. QED
  BY <1>1, AlwaysJInv, PTL

(* With the gate on, an unverified account holds no session but the ones   *)
(* Register issued, although the gate is checked on a copy of the row that *)
(* may be stale when the session is stored (requireVerifiedEmail).         *)
THEOREM UnverifiedOnlySignsUp == Spec => []UnverifiedOnlySignup
<1>1. JInv => UnverifiedOnlySignup
  BY DEF JInv, StoresOK, SessionOK, UnverifiedOnlySignup
<1>2. QED
  BY <1>1, AlwaysJInv, PTL

(* A flow that promises to cut off the sessions that came before its write *)
(* has done so when it returns success, whatever other flows issued        *)
(* meanwhile (setPassword, ConfirmEmailChange, DisableUser,                *)
(* stampEmailVerified).                                                    *)
THEOREM OldSessionsAreCutOff == Spec => []SessionsCutOff
<1>1. JInv => SessionsCutOff
  <2>1. ASSUME JInv, NEW r \in Requests, CutsOff(req[r])
        PROVE  \A x \in sessions : x.uid = req[r].uid => x.born >= req[r].wver
    <3>1. HasRevoked(req[r])
      BY <2>1 DEF CutsOff, HasRevoked, Returned
    <3>2. QED
      BY <2>1, <3>1, Zenon DEF JInv, Place, Cut
  <2>2. QED
    BY <2>1 DEF SessionsCutOff
<1>2. QED
  BY <1>1, AlwaysJInv, PTL

(* Likewise the reset, two-factor and magic-link tokens that were stored   *)
(* before a password set or an address change (the purges of setPassword   *)
(* and ConfirmEmailChange).                                                *)
THEOREM OldTokensAreCutOff == Spec => []TokensCutOff
<1>1. JInv => TokensCutOff
  <2>1. ASSUME JInv, NEW r \in Requests, req[r].pc = "done", req[r].res = "ok",
               req[r].op \in SetsPassword \cup {"ConfirmEmailChange"},
               NEW t \in tokens, t.uid = {req[r].uid},
               t.purpose \in {"password_reset", "two_factor", "magic_link"}
        PROVE  t.born >= req[r].wver
    <3>1. t.purpose \in HasPurged(req[r])
      BY <2>1 DEF HasPurged, Returned, Purging
    <3>2. QED
      BY <2>1, <3>1 DEF JInv, Place, Cut
  <2>2. QED
    BY <2>1 DEF TokensCutOff
<1>2. QED
  BY <1>1, AlwaysJInv, PTL

(* A sign-in has at most one live session, however many calls rotate or    *)
(* revoke it at once: only the call that deleted the old row stores a new  *)
(* one (RefreshSession, SessionStore.DeleteSession).                       *)
THEOREM SignInsAreNotDoubled == Spec => []OneSessionPerSignIn
<1>1. JInv => OneSessionPerSignIn
  BY DEF JInv, StoresOK, OneSessionPerSignIn
<1>2. QED
  BY <1>1, AlwaysJInv, PTL

=============================================================================
