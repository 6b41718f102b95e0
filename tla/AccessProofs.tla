---------------------------- MODULE AccessProofs -----------------------------
(***************************************************************************)
(* Proofs about Session and Limiter as Access composes them: for any       *)
(* number of requests, refreshes and session rows, any timeouts and any    *)
(* durations; for any number of hosts, addresses and keys, and any         *)
(* budgets.                                                                *)
(***************************************************************************)
EXTENDS Access, FiniteSetTheorems, SequenceTheorems, TLAPS

-----------------------------------------------------------------------------
(* The inductive invariant of Session.                                     *)

SessionRow ==
  [ExpiresAt : Nat, AuthenticatedAt : Nat, LastSeenAt : Nat, IdleExpiresAt : SUBSET Nat]

PCs == {"idle", "clock", "expired", "user", "touch", "valid", "gate", "verify",
        "stamp", "delete", "account", "mint", "revoke", "done"}

Results == {"none", "ok", "not found", "expired", "idle expired", "disabled",
            "reauth required", "refused"}

Request ==
  [pc : PCs, kind : {"validate", "sensitive", "reauth", "refresh", "revoke"},
   id : IDs, sess : SessionRow, now : Nat, since : Statuses, res : Results]

TypeOK ==
  /\ IdleTimeout \in Nat /\ clock \in Nat /\ status \in Statuses
  /\ rows \in [IDs -> SUBSET SessionRow] /\ used \subseteq IDs
  /\ proofs \subseteq Nat /\ active \subseteq Nat /\ minted \subseteq Nat
  /\ req \in [Requests -> Request]

(* The login of time 0 proved a password, and no event is of the future.   *)
HistoryOK ==
  /\ 0 \in proofs /\ 0 \in minted /\ 0 \in used
  /\ \A t \in proofs \cup active \cup minted : t <= clock

(* A row, or a copy of one, dates from events that did happen.             *)
SessionOK(s) ==
  /\ s.AuthenticatedAt \in proofs
  /\ \E t \in active \cup minted : s.IdleExpiresAt = idleExpiresAt(t)
  /\ \E m \in minted : s.ExpiresAt = m + SessionDuration

(* Why a request that passed the expiry checks may be let through.         *)
Alive(now) ==
  /\ IdleTimeout > 0 => \E t \in active \cup minted : now - t \in 0 .. IdleTimeout
  /\ \E m \in minted : now - m \in 0 .. SessionDuration

(* The steps that only one kind of request takes.                          *)
KindOK(q) ==
  /\ q.pc = "valid" => q.kind = "validate"
  /\ q.pc = "gate" => q.kind = "sensitive"
  /\ q.pc \in {"verify", "stamp"} => q.kind = "reauth"
  /\ q.pc \in {"delete", "account", "mint"} => q.kind = "refresh"
  /\ q.pc = "revoke" => q.kind = "revoke"
  /\ q.res = "ok" => q.pc = "done"

ReqOK(q) ==
  /\ KindOK(q) /\ SessionOK(q.sess) /\ q.now <= clock
  /\ q.pc = "user" => Alive(q.now)
  /\ q.pc = "touch" => q.now \in active
  /\ q.pc = "stamp" => q.now \in proofs
  /\ q.since = "disabled" => status = "disabled" /\ ~Admitted(q)
  /\ (q.kind = "sensitive" /\ q.res = "ok") =>
       \E p \in proofs : p <= q.now /\ q.now - p <= maxAge

SInv ==
  /\ TypeOK /\ HistoryOK
  /\ \A id \in IDs : \A s \in rows[id] : SessionOK(s)
  /\ \A r \in Requests : ReqOK(req[r])

-----------------------------------------------------------------------------
(* Session: types and frames.                                              *)

(* The constants of Session.                                               *)
LEMMA Constants ==
  /\ SessionDuration \in Nat /\ maxAge \in Nat /\ MaxTime \in Nat /\ 0 \in IDs
  /\ Kinds \subseteq {"validate", "sensitive", "reauth", "refresh", "revoke"}
  /\ "active" \in Statuses
BY SessionAssumption

(* A row minted, or a filler, is a session row.                            *)
LEMMA RowType ==
  ASSUME IdleTimeout \in Nat, NEW now \in Nat, NEW at \in Nat
  PROVE  /\ idleExpiresAt(now) \in SUBSET Nat /\ NewRow(now, at) \in SessionRow
         /\ NewRow(now, at).AuthenticatedAt = at
         /\ NewRow(now, at).IdleExpiresAt = idleExpiresAt(now)
         /\ NewRow(now, at).ExpiresAt = now + SessionDuration
<1>1. idleExpiresAt(now) \in SUBSET Nat
  BY DEF idleExpiresAt
<1> HIDE DEF idleExpiresAt
<1>2. now + SessionDuration \in Nat
  BY Constants
<1>3. QED
  BY <1>1, <1>2 DEF NewRow, SessionRow

(* A request that has not begun.                                           *)
LEMMA IdleOK ==
  ASSUME TypeOK, HistoryOK
  PROVE  /\ Idle \in Request /\ ReqOK(Idle) /\ Idle.pc = "idle"
         /\ Idle.now = 0 /\ Idle.res = "none" /\ SessionOK(Idle.sess)
         /\ Idle.since = "active" /\ Idle.kind = "validate"
<1> DEFINE row == NewRow(0, 0)
<1>1. row \in SessionRow /\ SessionOK(row)
  BY RowType DEF SessionOK, TypeOK, HistoryOK
<1>2. Idle = [pc |-> "idle", kind |-> "validate", id |-> 0, sess |-> row, now |-> 0,
              since |-> "active", res |-> "none"]
  BY DEF Idle
<1> HIDE DEF row
<1>3. Idle \in Request
  BY <1>1, <1>2, Constants DEF Request, PCs, Results
<1>4. ReqOK(Idle)
  BY <1>1, <1>2 DEF ReqOK, KindOK, TypeOK
<1>5. QED
  BY <1>1, <1>2, <1>3, <1>4

(* A request that answers: only one that was let through answers "ok", and *)
(* only a sensitive operation answers for its gate.                        *)
LEMMA AnswerOK ==
  ASSUME TypeOK, HistoryOK, NEW q \in Request, ReqOK(q), NEW res \in Results,
         res = "ok" => q.kind # "sensitive" /\ Admitted(q)
  PROVE  LET p == [Idle EXCEPT !.pc = "done", !.kind = q.kind, !.res = res,
                               !.since = q.since] IN
         p \in Request /\ ReqOK(p)
<1> DEFINE p == [Idle EXCEPT !.pc = "done", !.kind = q.kind, !.res = res, !.since = q.since]
<1>1. /\ Idle \in Request /\ Idle.now = 0 /\ SessionOK(Idle.sess)
  BY IdleOK
<1> HIDE DEF Idle
<1>2. p \in Request
  BY <1>1, Zenon DEF Request, PCs
<1>3. /\ p.pc = "done" /\ p.kind = q.kind /\ p.res = res /\ p.since = q.since
      /\ p.sess = Idle.sess /\ p.now = 0
  BY <1>1 DEF Request
<1> HIDE DEF p
<1>4. ReqOK(p)
  BY <1>1, <1>3 DEF ReqOK, KindOK, Admitted, TypeOK
<1>5. QED
  BY <1>2, <1>4 DEF p

(* Time and the histories only grow.                                       *)
HistoryGrows ==
  /\ IdleTimeout' = IdleTimeout /\ clock <= clock' /\ clock' \in Nat
  /\ proofs \subseteq proofs' /\ active \subseteq active' /\ minted \subseteq minted'

(* What a row dates from stays in the histories.                           *)
LEMMA SessionFrame ==
  ASSUME NEW s, SessionOK(s), HistoryGrows
  PROVE  SessionOK(s)'
BY Zenon DEF SessionOK, HistoryGrows, idleExpiresAt

(* A request that does not move keeps its part of the invariant.           *)
LEMMA RequestFrame ==
  ASSUME NEW q \in Request, ReqOK(q), HistoryGrows, clock \in Nat,
         q.since = "disabled" => status' = "disabled"
  PROVE  ReqOK(q)'
<1>1. SessionOK(q.sess)'
  BY SessionFrame DEF ReqOK
<1>2. q.now <= clock'
  BY DEF ReqOK, HistoryGrows, Request
<1>3. q.pc = "user" => Alive(q.now)'
  BY DEF ReqOK, Alive, HistoryGrows
<1>4. QED
  BY <1>1, <1>2, <1>3 DEF ReqOK, KindOK, Admitted, HistoryGrows

(* A step of request r that leaves it as p.                                *)
LEMMA RequestStep ==
  ASSUME SInv, NEW r \in Requests, NEW p \in Request, req' = [req EXCEPT ![r] = p],
         ReqOK(p)', TypeOK', HistoryOK', HistoryGrows, status' = status,
         \A id \in IDs : \A s \in rows'[id] : SessionOK(s)'
  PROVE  SInv'
<1>1. ASSUME NEW t \in Requests
      PROVE  ReqOK(req[t])'
  <2>1. PICK q \in Request : q = req'[t]
    BY <1>1 DEF TypeOK
  <2>2. ReqOK(q)'
    <3>1. CASE t = r
      BY <2>1, <3>1 DEF SInv, TypeOK
    <3>2. CASE t # r
      <4>1. q = req[t] /\ ReqOK(q) /\ clock \in Nat
        BY <1>1, <2>1, <3>2 DEF SInv, TypeOK
      <4>2. q.since = "disabled" => status' = "disabled"
        BY <4>1 DEF ReqOK
      <4>3. QED
        BY <4>1, <4>2, RequestFrame
    <3>3. QED
      BY <3>1, <3>2
  <2>3. QED
    BY <2>1, <2>2
<1>2. QED
  BY <1>1 DEF SInv

(* A step of a request that adds nothing to the histories.                 *)
LEMMA MoveStep ==
  ASSUME SInv, NEW r \in Requests, NEW p \in Request, req' = [req EXCEPT ![r] = p],
         ReqOK(p), rows' \in [IDs -> SUBSET SessionRow],
         \A id \in IDs : \A s \in rows'[id] : SessionOK(s),
         UNCHANGED <<IdleTimeout, clock, status, used, proofs, active, minted>>
  PROVE  SInv'
<1>1. HistoryGrows /\ HistoryOK' /\ clock \in Nat
  BY DEF SInv, TypeOK, HistoryOK, HistoryGrows
<1>2. TypeOK'
  BY DEF SInv, TypeOK
<1>3. ReqOK(p)'
  <2>1. p.since = "disabled" => status' = "disabled"
    BY DEF ReqOK
  <2>2. QED
    BY <1>1, <2>1, RequestFrame
<1>4. ASSUME NEW id \in IDs, NEW s \in rows'[id]
      PROVE  SessionOK(s)'
  BY <1>1, <1>4, SessionFrame
<1>5. QED
  BY <1>1, <1>2, <1>3, <1>4, RequestStep, Zenon

-----------------------------------------------------------------------------
(* Session: the steps of ValidateSession.                                  *)

(* The answers of a request, as steps.                                     *)
LEMMA AnswerStep ==
  ASSUME SInv, NEW r \in Requests, NEW res \in Results, Answer(r, res),
         res = "ok" => req[r].kind # "sensitive" /\ Admitted(req[r]),
         rows' \in [IDs -> SUBSET SessionRow],
         \A id \in IDs : \A s \in rows'[id] : SessionOK(s),
         UNCHANGED <<IdleTimeout, clock, status, used, proofs, active, minted>>
  PROVE  SInv'
<1>1. PICK q \in Request : q = req[r] /\ ReqOK(q)
  BY DEF SInv, TypeOK
<1> DEFINE p == [Idle EXCEPT !.pc = "done", !.kind = q.kind, !.res = res, !.since = q.since]
<1>2. p \in Request /\ ReqOK(p)
  BY <1>1, AnswerOK, Zenon DEF SInv
<1>3. req' = [req EXCEPT ![r] = p]
  BY <1>1 DEF Answer
<1> HIDE DEF p
<1>4. QED
  BY <1>2, <1>3, MoveStep, Zenon

(* Rows that only disappear.                                               *)
LEMMA Deleting ==
  ASSUME SInv, NEW id \in IDs, rows' = [rows EXCEPT ![id] = {}]
  PROVE  /\ rows' \in [IDs -> SUBSET SessionRow]
         /\ \A i \in IDs : \A s \in rows'[i] : SessionOK(s)
BY DEF SInv, TypeOK

(* The same, where the rows are left alone.                                *)
LEMMA Leaving ==
  ASSUME SInv, rows' = rows
  PROVE  /\ rows' \in [IDs -> SUBSET SessionRow]
         /\ \A i \in IDs : \A s \in rows'[i] : SessionOK(s)
BY DEF SInv, TypeOK

(* ValidateSession reads the row.                                          *)
LEMMA LookupStep ==
  ASSUME SInv, NEW r \in Requests, GetSessionByTokenHash(r)
  PROVE  SInv'
<1>1. PICK id \in used, kind \in Kinds :
       req' = [req EXCEPT
         ![r] = [Idle EXCEPT !.kind = kind, !.id = id, !.since = status,
                   !.pc = IF rows[id] = {} THEN "done" ELSE "clock",
                   !.res = IF rows[id] = {} THEN "not found" ELSE "none",
                   !.sess = IF rows[id] = {} THEN Idle.sess
                                             ELSE CHOOSE s \in rows[id] : TRUE]]
  BY Zenon DEF GetSessionByTokenHash
<1> DEFINE sess == IF rows[id] = {} THEN Idle.sess ELSE CHOOSE s \in rows[id] : TRUE
           at == IF rows[id] = {} THEN "done" ELSE "clock"
           res == IF rows[id] = {} THEN "not found" ELSE "none"
           p == [Idle EXCEPT !.kind = kind, !.id = id, !.since = status, !.pc = at,
                             !.res = res, !.sess = sess]
<1>2. /\ id \in IDs /\ status \in Statuses /\ rows[id] \subseteq SessionRow
      /\ \A s \in rows[id] : SessionOK(s)
  BY DEF SInv, TypeOK
<1>3. Idle \in Request /\ SessionOK(Idle.sess) /\ Idle.now = 0 /\ Idle.sess \in SessionRow
  BY IdleOK DEF SInv, Request
<1>4. sess \in SessionRow /\ SessionOK(sess)
  BY <1>2, <1>3
<1>5. at \in {"done", "clock"} /\ res \in {"none", "not found"}
  OBVIOUS
<1>6. req' = [req EXCEPT ![r] = p]
  BY <1>1
<1> HIDE DEF sess, at, res, Idle
<1>7. p \in Request
  BY <1>2, <1>3, <1>4, <1>5, Constants, ZenonT(30) DEF Request, PCs, Results
<1>8. /\ p.pc = at /\ p.res = res /\ p.sess = sess /\ p.now = 0 /\ p.since = status
  BY <1>3 DEF Request
<1> HIDE DEF p
<1>9. ReqOK(p)
  <2>1. 0 <= clock
    BY DEF SInv, TypeOK
  <2>2. p.since = "disabled" => status = "disabled" /\ ~Admitted(p)
    BY <1>5, <1>8, Zenon DEF Admitted
  <2>3. QED
    BY <1>4, <1>5, <1>8, <2>1, <2>2, Zenon DEF ReqOK, KindOK
<1>10. rows' = rows /\ UNCHANGED <<IdleTimeout, clock, status, used, proofs, active, minted>>
  BY DEF GetSessionByTokenHash
<1>11. QED
  BY <1>6, <1>7, <1>9, <1>10, Leaving, MoveStep, Zenon

(* A session that has not expired was used, and minted, recently enough.   *)
LEMMA NotExpired ==
  ASSUME TypeOK, HistoryOK, NEW s \in SessionRow, SessionOK(s),
         ~IdleExpired(s, clock), ~(clock > s.ExpiresAt)
  PROVE  Alive(clock)
<1>1. ASSUME IdleTimeout > 0
      PROVE  \E t \in active \cup minted : clock - t \in 0 .. IdleTimeout
  <2>1. PICK t \in active \cup minted : s.IdleExpiresAt = idleExpiresAt(t)
    BY DEF SessionOK
  <2>2. t \in Nat /\ t <= clock /\ clock \in Nat /\ IdleTimeout \in Nat
    BY DEF TypeOK, HistoryOK
  <2>3. t + IdleTimeout \in s.IdleExpiresAt
    BY <1>1, <2>1, <2>2 DEF idleExpiresAt
  <2>4. ~(clock > t + IdleTimeout)
    BY <2>3 DEF IdleExpired
  <2>5. QED
    BY <2>2, <2>4
<1>2. \E m \in minted : clock - m \in 0 .. SessionDuration
  <2>1. PICK m \in minted : s.ExpiresAt = m + SessionDuration
    BY DEF SessionOK
  <2>2. m \in Nat /\ m <= clock /\ clock \in Nat
    BY DEF TypeOK, HistoryOK
  <2>3. QED
    BY <2>1, <2>2, Constants
<1>3. QED
  BY <1>1, <1>2 DEF Alive

(* The expiry checks.                                                      *)
LEMMA ExpiryStep ==
  ASSUME SInv, NEW r \in Requests, CheckExpiry(r)
  PROVE  SInv'
<1>1. PICK q \in Request : q = req[r] /\ ReqOK(q) /\ q.pc = "clock"
  BY DEF SInv, TypeOK, CheckExpiry
<1> DEFINE to == IF IdleExpired(q.sess, clock) \/ clock > q.sess.ExpiresAt
                   THEN "expired" ELSE "user"
           p == [q EXCEPT !.now = clock, !.pc = to]
<1>2. req' = [req EXCEPT ![r] = p]
  BY <1>1, Zenon DEF CheckExpiry, SInv, TypeOK
<1>3. to \in {"expired", "user"} /\ (to = "user" => Alive(clock))
  BY <1>1, NotExpired DEF SInv, ReqOK, Request
<1>4. clock \in Nat
  BY DEF SInv, TypeOK
<1> HIDE DEF to
<1>5. p \in Request /\ p.pc = to /\ p.now = clock /\ p.sess = q.sess /\ p.res = q.res
      /\ p.since = q.since /\ p.kind = q.kind
  BY <1>3, <1>4, Zenon DEF Request, PCs
<1> HIDE DEF p
<1>6. ReqOK(p)
  BY <1>1, <1>3, <1>4, <1>5 DEF ReqOK, KindOK, Admitted
<1>7. rows' = rows /\ UNCHANGED <<IdleTimeout, clock, status, used, proofs, active, minted>>
  BY DEF CheckExpiry
<1>8. QED
  BY <1>2, <1>5, <1>6, <1>7, Leaving, MoveStep, Zenon

(* An expired row is deleted, or is not.                                   *)
LEMMA ExpiredStep ==
  ASSUME SInv, NEW r \in Requests, DeleteExpired(r)
  PROVE  SInv'
<1>1. req[r].id \in IDs
  BY DEF SInv, TypeOK, Request
<1>2. /\ rows' \in [IDs -> SUBSET SessionRow]
      /\ \A i \in IDs : \A s \in rows'[i] : SessionOK(s)
  BY <1>1, Deleting, Leaving, Zenon DEF DeleteExpired
<1>3. PICK res \in Results : Answer(r, res) /\ res # "ok"
  BY Zenon DEF DeleteExpired, Results
<1>4. QED
  BY <1>2, <1>3, AnswerStep, Zenon DEF DeleteExpired

(* The account is looked at, and the request let through.                  *)
LEMMA UserStep ==
  ASSUME SInv, NEW r \in Requests, GetUserByID(r)
  PROVE  SInv'
<1>1. PICK q \in Request : q = req[r] /\ ReqOK(q) /\ q.pc = "user"
  BY DEF SInv, TypeOK, GetUserByID
<1>2. CASE ~Admits(status)
  BY <1>2, Leaving, AnswerStep, Zenon DEF GetUserByID, Results
<1>3. CASE Admits(status)
  <2> DEFINE to == IF q.now - q.sess.LastSeenAt >= sessionTouchInterval
                     THEN "touch" ELSE Proceed(q.kind)
             new == [q EXCEPT !.pc = to]
  <2>1. req' = [req EXCEPT ![r] = new] /\ active' = active \cup {q.now}
    BY <1>1, <1>3 DEF GetUserByID, Go, SInv, TypeOK
  <2>2. /\ rows' = rows /\ UNCHANGED <<IdleTimeout, clock, status, used, proofs, minted>>
        /\ clock \in Nat /\ q.now \in Nat /\ q.now <= clock
    BY <1>1 DEF GetUserByID, SInv, TypeOK, Request, ReqOK
  <2>3. /\ to \in {"touch", "valid", "gate", "verify", "delete", "revoke"}
        /\ to = "valid" => q.kind = "validate"
        /\ to = "gate" => q.kind = "sensitive"
        /\ to = "verify" => q.kind = "reauth"
        /\ to = "delete" => q.kind = "refresh"
        /\ to = "revoke" => q.kind = "revoke"
    BY DEF Proceed, Request
  <2> HIDE DEF to
  <2>4. new \in Request
    BY <2>3 DEF Request, PCs
  <2>5. PICK p \in Request : p = new
    BY <2>4
  <2>6. /\ p.pc = to /\ p.kind = q.kind /\ p.sess = q.sess /\ p.now = q.now
        /\ p.since = q.since /\ p.res = q.res
    BY <2>5 DEF Request
  <2>7. HistoryGrows /\ HistoryOK' /\ TypeOK'
    BY <2>1, <2>2, <2>4 DEF SInv, TypeOK, HistoryOK, HistoryGrows
  <2>8. SessionOK(p.sess)'
    BY <1>1, <2>6, <2>7, SessionFrame DEF ReqOK
  <2>9. ReqOK(p)'
    BY <1>1, <1>3, <2>1, <2>2, <2>3, <2>6, <2>8 DEF ReqOK, KindOK, Admits
  <2>10. ASSUME NEW id \in IDs, NEW s \in rows'[id]
         PROVE  SessionOK(s)'
    BY <2>2, <2>7, <2>10, SessionFrame DEF SInv
  <2>11. QED
    BY <2>1, <2>2, <2>5, <2>7, <2>9, <2>10, RequestStep, Zenon
<1>4. QED
  BY <1>2, <1>3

(* The liveness touch writes a row that is still there, with a time at     *)
(* which the request was let through.                                      *)
LEMMA TouchStep ==
  ASSUME SInv, NEW r \in Requests, TouchSession(r)
  PROVE  SInv'
<1>1. PICK q \in Request : q = req[r] /\ ReqOK(q) /\ q.pc = "touch"
  BY DEF SInv, TypeOK, TouchSession
<1>2. UNCHANGED <<IdleTimeout, clock, status, used, proofs, active, minted>>
  BY DEF TouchSession
<1>3. /\ q.id \in IDs /\ q.sess \in SessionRow /\ q.now \in Nat /\ q.now \in active
      /\ SessionOK(q.sess) /\ rows[q.id] \subseteq SessionRow
      /\ \A s \in rows[q.id] : SessionOK(s)
      /\ idleExpiresAt(q.now) \in SUBSET Nat
  BY <1>1, RowType DEF Request, ReqOK, SInv, TypeOK
<1>4. ASSUME NEW s \in SessionRow, SessionOK(s)
      PROVE  Touched(s, q.now) \in SessionRow /\ SessionOK(Touched(s, q.now))
  <2>1. /\ Touched(s, q.now) \in SessionRow
        /\ Touched(s, q.now).AuthenticatedAt = s.AuthenticatedAt
        /\ Touched(s, q.now).ExpiresAt = s.ExpiresAt
        /\ Touched(s, q.now).IdleExpiresAt = idleExpiresAt(q.now)
    BY <1>3, Zenon DEF Touched, SessionRow
  <2>2. QED
    BY <1>3, <1>4, <2>1 DEF SessionOK
<1> DEFINE to == Proceed(q.kind)
<1>5. ASSUME NEW sess \in SessionRow, SessionOK(sess)
      PROVE  [q EXCEPT !.pc = to, !.sess = sess] \in Request
             /\ ReqOK([q EXCEPT !.pc = to, !.sess = sess])
  <2>1. /\ to \in {"valid", "gate", "verify", "delete", "revoke"}
        /\ to = "valid" => q.kind = "validate"
        /\ to = "gate" => q.kind = "sensitive"
        /\ to = "verify" => q.kind = "reauth"
        /\ to = "delete" => q.kind = "refresh"
        /\ to = "revoke" => q.kind = "revoke"
    BY DEF Proceed, Request
  <2> HIDE DEF to
  <2> DEFINE p == [q EXCEPT !.pc = to, !.sess = sess]
  <2>2. p \in Request
    BY <1>5, <2>1, Zenon DEF Request, PCs
  <2>3. /\ p.pc = to /\ p.kind = q.kind /\ p.sess = sess /\ p.now = q.now
        /\ p.since = q.since /\ p.res = q.res
    BY DEF Request
  <2> HIDE DEF p
  <2>4. q.since # "disabled"
    BY <1>1 DEF ReqOK, Admitted
  <2>5. ReqOK(p)
    BY <1>1, <1>5, <2>1, <2>3, <2>4 DEF ReqOK, KindOK
  <2>6. QED
    BY <2>2, <2>5 DEF p
<1>6. CASE /\ rows' = [rows EXCEPT ![q.id] =
                 Where(q.id, Touched(IF @ = {} THEN q.sess ELSE CHOOSE s \in @ : TRUE, q.now))]
           /\ req' = [req EXCEPT ![r].pc = Proceed(q.kind),
                                 ![r].sess = IF rows[q.id] = {} THEN @ ELSE Touched(@, q.now)]
  <2> DEFINE old == IF rows[q.id] = {} THEN q.sess ELSE CHOOSE s \in rows[q.id] : TRUE
             sess == IF rows[q.id] = {} THEN q.sess ELSE Touched(q.sess, q.now)
             p == [q EXCEPT !.pc = to, !.sess = sess]
  <2>1. old \in SessionRow /\ SessionOK(old)
    BY <1>3
  <2>2. sess \in SessionRow /\ SessionOK(sess)
    BY <1>3, <1>4
  <2>3. rows' = [rows EXCEPT ![q.id] = Where(q.id, Touched(old, q.now))]
    BY <1>6
  <2>4. req' = [req EXCEPT ![r] = p]
    BY <1>1, <1>6, Zenon DEF SInv, TypeOK
  <2> HIDE DEF old, sess, to
  <2>5. p \in Request /\ ReqOK(p)
    BY <1>5, <2>2, Zenon
  <2>6. /\ Where(q.id, Touched(old, q.now)) \subseteq SessionRow
        /\ \A s \in Where(q.id, Touched(old, q.now)) : SessionOK(s)
    BY <1>4, <2>1 DEF Where
  <2>7. /\ rows' \in [IDs -> SUBSET SessionRow]
        /\ \A id \in IDs : \A s \in rows'[id] : SessionOK(s)
    BY <1>3, <2>3, <2>6 DEF SInv, TypeOK
  <2> HIDE DEF p
  <2>8. QED
    BY <1>2, <2>4, <2>5, <2>7, MoveStep, Zenon
<1>7. CASE rows' = rows /\ Go(r, Proceed(q.kind))
  <2> DEFINE p == [q EXCEPT !.pc = to, !.sess = q.sess]
  <2>1. req' = [req EXCEPT ![r] = p]
    BY <1>1, <1>7, Zenon DEF Go, SInv, TypeOK, Request
  <2>2. p \in Request /\ ReqOK(p)
    BY <1>3, <1>5, Zenon
  <2> HIDE DEF p
  <2>3. QED
    BY <1>2, <1>7, <2>1, <2>2, Leaving, MoveStep, Zenon
<1>8. QED
  BY <1>1, <1>6, <1>7 DEF TouchSession

(* The answer of a request that only validates.                            *)
LEMMA ValidatedStep ==
  ASSUME SInv, NEW r \in Requests, Validated(r)
  PROVE  SInv'
<1>1. req[r].kind # "sensitive" /\ Admitted(req[r])
  BY DEF Validated, SInv, ReqOK, KindOK, Admitted
<1>2. QED
  BY <1>1, Leaving, AnswerStep, Zenon DEF Validated, Results

-----------------------------------------------------------------------------
(* Session: the steps behind ValidateSession.                              *)

(* RequireRecentAuth: the copy the request holds dates from a proof.       *)
LEMMA GateStep ==
  ASSUME SInv, NEW r \in Requests, Gate(r)
  PROVE  SInv'
<1>1. PICK q \in Request : q = req[r] /\ ReqOK(q) /\ q.pc = "gate"
  BY Zenon DEF SInv, TypeOK, Gate
<1> DEFINE res == IF RequireRecentAuth(q.sess, clock) THEN "ok" ELSE "reauth required"
           p == [q EXCEPT !.pc = "done", !.now = clock, !.sess = Idle.sess, !.res = res]
<1>2. req' = [req EXCEPT ![r] = p]
  BY <1>1, Zenon DEF Gate, SInv, TypeOK
<1>3. /\ clock \in Nat /\ Idle.sess \in SessionRow /\ SessionOK(Idle.sess)
      /\ q.sess.AuthenticatedAt \in proofs /\ q.sess.AuthenticatedAt <= clock
  BY <1>1, IdleOK, Zenon DEF SInv, TypeOK, HistoryOK, ReqOK, SessionOK, Request
<1>4. /\ res \in {"ok", "reauth required"}
      /\ res = "ok" => \E t \in proofs : t <= clock /\ clock - t <= maxAge
  BY <1>3 DEF RequireRecentAuth
<1> HIDE DEF res, Idle
<1>5. p \in Request
  BY <1>3, <1>4, Zenon DEF Request, PCs, Results
<1>6. /\ p.pc = "done" /\ p.now = clock /\ p.sess = Idle.sess /\ p.res = res
      /\ p.since = q.since
  BY DEF Request
<1> HIDE DEF p
<1>7. q.since # "disabled"
  BY <1>1 DEF ReqOK, Admitted
<1>8. ReqOK(p)
  <2>1. KindOK(p)
    BY <1>6 DEF KindOK
  <2>2. p.now <= clock
    BY <1>3, <1>6
  <2>3. p.res = "ok" => \E t \in proofs : t <= p.now /\ p.now - t <= maxAge
    BY <1>4, <1>6
  <2>4. QED
    BY <1>3, <1>6, <1>7, <2>1, <2>2, <2>3 DEF ReqOK
<1>9. rows' = rows /\ UNCHANGED <<IdleTimeout, clock, status, used, proofs, active, minted>>
  BY Zenon DEF Gate
<1>10. QED
  BY <1>2, <1>5, <1>8, <1>9, Leaving, MoveStep, Zenon

(* ReAuthenticate: a proof enters the history.                             *)
LEMMA ReAuthStep ==
  ASSUME SInv, NEW r \in Requests, ReAuthenticate(r)
  PROVE  SInv'
<1>1. PICK q \in Request : q = req[r] /\ ReqOK(q) /\ q.pc = "verify"
  BY DEF SInv, TypeOK, ReAuthenticate
<1>2. rows' = rows /\ UNCHANGED <<IdleTimeout, clock, status, used, active, minted>>
  BY DEF ReAuthenticate
<1>3. CASE Answer(r, "refused") /\ UNCHANGED proofs
  BY <1>2, <1>3, Leaving, AnswerStep, Zenon DEF Results
<1>4. CASE /\ req' = [req EXCEPT ![r].pc = "stamp", ![r].now = clock]
           /\ proofs' = proofs \cup {clock}
  <2> DEFINE new == [q EXCEPT !.pc = "stamp", !.now = clock]
  <2>1. req' = [req EXCEPT ![r] = new] /\ clock \in Nat
    BY <1>1, <1>4, Zenon DEF SInv, TypeOK
  <2>2. new \in Request
    BY <2>1, Zenon DEF Request, PCs
  <2>3. PICK p \in Request : p = new
    BY <2>2
  <2>4. /\ p.pc = "stamp" /\ p.kind = q.kind /\ p.sess = q.sess /\ p.now = clock
        /\ p.since = q.since /\ p.res = q.res
    BY <2>3 DEF Request
  <2>5. HistoryGrows /\ HistoryOK' /\ TypeOK'
    <3>1. TypeOK'
      BY <1>2, <1>4, <2>1, <2>2, Zenon DEF SInv, TypeOK
    <3>2. HistoryGrows
      BY <1>2, <1>4, <2>1 DEF HistoryGrows
    <3>3. HistoryOK'
      BY <1>2, <1>4, <2>1 DEF SInv, HistoryOK
    <3>4. QED
      BY <3>1, <3>2, <3>3
  <2>6. SessionOK(p.sess)' /\ q.since # "disabled" /\ q.res # "ok" /\ q.kind = "reauth"
    BY <1>1, <2>4, <2>5, SessionFrame DEF ReqOK, KindOK, Admitted
  <2>7. ReqOK(p)'
    BY <1>2, <1>4, <2>1, <2>4, <2>6 DEF ReqOK, KindOK
  <2>8. ASSUME NEW id \in IDs, NEW s \in rows'[id]
        PROVE  SessionOK(s)'
    BY <1>2, <2>5, <2>8, SessionFrame DEF SInv
  <2>9. QED
    BY <1>2, <2>1, <2>3, <2>5, <2>7, <2>8, RequestStep, Zenon
<1>5. QED
  BY <1>3, <1>4 DEF ReAuthenticate

(* The proof is stamped on the row, if there still is one.                 *)
LEMMA StampStep ==
  ASSUME SInv, NEW r \in Requests, UpdateAuthenticatedAt(r)
  PROVE  SInv'
<1>1. PICK q \in Request : q = req[r] /\ ReqOK(q) /\ q.pc = "stamp"
  BY Zenon DEF SInv, TypeOK, UpdateAuthenticatedAt
<1>2. q.id \in IDs /\ q.now \in proofs /\ q.now \in Nat
  BY <1>1 DEF Request, ReqOK
<1>3. ASSUME NEW s \in SessionRow, SessionOK(s)
      PROVE  [s EXCEPT !.AuthenticatedAt = q.now] \in SessionRow
             /\ SessionOK([s EXCEPT !.AuthenticatedAt = q.now])
  BY <1>2, <1>3 DEF SessionRow, SessionOK
<1>4. rows' = [rows EXCEPT ![q.id] = {[s EXCEPT !.AuthenticatedAt = q.now] : s \in rows[q.id]}]
  BY <1>1, Zenon DEF UpdateAuthenticatedAt
<1>5. rows[q.id] \subseteq SessionRow /\ \A s \in rows[q.id] : SessionOK(s)
  BY <1>2 DEF SInv, TypeOK
<1>6. /\ {[s EXCEPT !.AuthenticatedAt = q.now] : s \in rows[q.id]} \subseteq SessionRow
      /\ \A t \in {[s EXCEPT !.AuthenticatedAt = q.now] : s \in rows[q.id]} : SessionOK(t)
  BY <1>3, <1>5
<1>7. /\ rows' \in [IDs -> SUBSET SessionRow]
      /\ \A id \in IDs : \A s \in rows'[id] : SessionOK(s)
  BY <1>2, <1>4, <1>6 DEF SInv, TypeOK
<1>8. q.kind # "sensitive" /\ Admitted(q)
  BY <1>1 DEF ReqOK, KindOK, Admitted
<1>9. QED
  BY <1>1, <1>7, <1>8, AnswerStep, Zenon DEF UpdateAuthenticatedAt, Results

(* RefreshSession deletes, looks at the account and reads the clock.       *)
LEMMA RefreshStep ==
  ASSUME SInv, NEW r \in Requests, RefreshDelete(r) \/ RefreshCheck(r)
  PROVE  SInv'
<1>1. PICK q \in Request : q = req[r] /\ ReqOK(q) /\ q.pc \in {"delete", "account"}
  BY Zenon DEF SInv, TypeOK, RefreshDelete, RefreshCheck
<1>2. q.id \in IDs /\ clock \in Nat /\ q.kind = "refresh" /\ q.since # "disabled"
      /\ q.res # "ok" /\ q.now <= clock /\ SessionOK(q.sess)
  BY <1>1 DEF Request, SInv, TypeOK, ReqOK, KindOK, Admitted
<1>3. /\ rows' \in [IDs -> SUBSET SessionRow]
      /\ \A i \in IDs : \A s \in rows'[i] : SessionOK(s)
  BY <1>1, <1>2, Deleting, Leaving, Zenon DEF RefreshDelete, RefreshCheck
<1>4. UNCHANGED <<IdleTimeout, clock, status, used, proofs, active, minted>>
  BY Zenon DEF RefreshDelete, RefreshCheck
<1>5. ASSUME NEW to \in {"account", "mint"}, NEW now \in Nat, now <= clock
      PROVE  [q EXCEPT !.pc = to, !.now = now] \in Request
             /\ ReqOK([q EXCEPT !.pc = to, !.now = now])
  <2> DEFINE p == [q EXCEPT !.pc = to, !.now = now]
  <2>1. p \in Request
    BY <1>5, Zenon DEF Request, PCs
  <2>2. /\ p.pc = to /\ p.kind = "refresh" /\ p.sess = q.sess /\ p.now = now
        /\ p.since = q.since /\ p.res = q.res
    BY <1>2 DEF Request
  <2> HIDE DEF p
  <2>3. ReqOK(p)
    BY <1>2, <1>5, <2>2 DEF ReqOK, KindOK
  <2>4. QED
    BY <2>1, <2>3 DEF p
<1>6. CASE \E res \in {"not found", "refused"} : Answer(r, res)
  BY <1>3, <1>4, <1>6, AnswerStep, Zenon DEF Results
<1>7. CASE Go(r, "account")
  <2> DEFINE p == [q EXCEPT !.pc = "account", !.now = q.now]
  <2>1. req' = [req EXCEPT ![r] = p]
    BY <1>1, <1>7, Zenon DEF Go, SInv, TypeOK, Request
  <2>2. p \in Request /\ ReqOK(p)
    BY <1>2, <1>5, Zenon DEF Request
  <2> HIDE DEF p
  <2>3. QED
    BY <1>3, <1>4, <2>1, <2>2, MoveStep, Zenon
<1>8. CASE req' = [req EXCEPT ![r].pc = "mint", ![r].now = clock]
  <2> DEFINE p == [q EXCEPT !.pc = "mint", !.now = clock]
  <2>1. req' = [req EXCEPT ![r] = p]
    BY <1>1, <1>8, Zenon DEF SInv, TypeOK
  <2>2. clock \in Nat /\ clock <= clock
    BY <1>2
  <2>3. p \in Request /\ ReqOK(p)
    BY <2>2, <1>5, Zenon
  <2> HIDE DEF p
  <2>4. QED
    BY <1>3, <1>4, <2>1, <2>3, MoveStep, Zenon
<1>9. QED
  BY <1>6, <1>7, <1>8, Zenon DEF RefreshDelete, RefreshCheck

(* The replacement carries the proof of the row it replaces.               *)
LEMMA MintStep ==
  ASSUME SInv, NEW r \in Requests, RefreshMint(r)
  PROVE  SInv'
<1>1. PICK q \in Request : q = req[r] /\ ReqOK(q) /\ q.pc = "mint"
  BY DEF SInv, TypeOK, RefreshMint
<1>2. PICK id \in IDs \ used :
        rows' = [rows EXCEPT ![id] = {Fresh(q.sess, q.now)}] /\ used' = used \cup {id}
  BY <1>1, Zenon DEF RefreshMint
<1>3. /\ minted' = minted \cup {q.now} /\ Answer(r, "ok")
      /\ UNCHANGED <<IdleTimeout, clock, status, proofs, active>>
  BY <1>1 DEF RefreshMint
<1>4. /\ q.now \in Nat /\ q.now <= clock /\ q.sess.AuthenticatedAt \in Nat
      /\ q.sess.AuthenticatedAt \in proofs /\ q.kind = "refresh" /\ Admitted(q)
      /\ clock \in Nat
  BY <1>1 DEF Request, SessionRow, ReqOK, SessionOK, KindOK, Admitted, SInv, TypeOK
<1> DEFINE fresh == Fresh(q.sess, q.now)
<1>5. fresh \in SessionRow /\ SessionOK(fresh)'
  <2>1. /\ fresh \in SessionRow /\ fresh.AuthenticatedAt = q.sess.AuthenticatedAt
        /\ fresh.IdleExpiresAt = idleExpiresAt(q.now)
        /\ fresh.ExpiresAt = q.now + SessionDuration
    BY <1>4, RowType DEF Fresh, SInv, TypeOK
  <2>2. PICK s \in SessionRow : s = fresh
    BY <2>1
  <2>3. SessionOK(s)'
    BY <1>3, <1>4, <2>1, <2>2, Zenon DEF SessionOK, idleExpiresAt
  <2>4. fresh' = fresh
    BY <1>3 DEF Fresh, NewRow, idleExpiresAt
  <2>5. QED
    BY <2>1, <2>2, <2>3, <2>4
<1>6. PICK p \in Request : req' = [req EXCEPT ![r] = p] /\ ReqOK(p)
  <2> DEFINE p == [Idle EXCEPT !.pc = "done", !.kind = q.kind, !.res = "ok",
                               !.since = q.since]
  <2>1. p \in Request /\ ReqOK(p)
    BY <1>1, <1>4, AnswerOK, Zenon DEF SInv, Results
  <2>2. req' = [req EXCEPT ![r] = p]
    BY <1>1, <1>3 DEF Answer
  <2> HIDE DEF p
  <2>3. QED
    BY <2>1, <2>2, Zenon
<1>7. TypeOK'
  BY <1>2, <1>3, <1>4, <1>5, <1>6, Zenon DEF SInv, TypeOK
<1>8. HistoryGrows
  BY <1>3, <1>4 DEF HistoryGrows
<1>9. HistoryOK'
  BY <1>2, <1>3, <1>4 DEF SInv, HistoryOK
<1>10. ReqOK(p)'
  <2>1. p.since = "disabled" => status' = "disabled"
    BY <1>3, <1>6 DEF ReqOK
  <2>2. QED
    BY <1>4, <1>6, <1>8, <2>1, RequestFrame
<1>11. ASSUME NEW i \in IDs, NEW s \in rows'[i]
       PROVE  SessionOK(s)'
  <2>1. CASE i = id
    <3>1. s = fresh
      BY <1>2, <1>11, <2>1 DEF SInv, TypeOK
    <3>2. QED
      BY <1>3, <1>5, <3>1, Zenon DEF Fresh, NewRow, idleExpiresAt, SessionOK
  <2>2. CASE i # id
    BY <1>2, <1>8, <1>11, <2>2, SessionFrame DEF SInv, TypeOK
  <2>3. QED
    BY <2>1, <2>2
<1>12. QED
  BY <1>3, <1>6, <1>7, <1>8, <1>9, <1>10, <1>11, RequestStep, Zenon

(* A session is revoked.                                                   *)
LEMMA RevokeStep ==
  ASSUME SInv, NEW r \in Requests, RevokeSession(r)
  PROVE  SInv'
<1>1. PICK q \in Request : q = req[r] /\ ReqOK(q) /\ q.pc = "revoke"
  BY Zenon DEF SInv, TypeOK, RevokeSession
<1>2. q.id \in IDs /\ q.kind # "sensitive" /\ Admitted(q)
  BY <1>1 DEF Request, ReqOK, KindOK, Admitted
<1>3. QED
  BY <1>1, <1>2, Deleting, AnswerStep, Zenon DEF RevokeSession, Results

-----------------------------------------------------------------------------
(* Session: what happens beside the requests, and the invariant.           *)

(* Rows are cleaned or revoked, or time passes.                            *)
LEMMA BesideStep ==
  ASSUME SInv, CleanExpired \/ revokeUserSessions \/ Tick \/ UNCHANGED vars
  PROVE  SInv'
<1>1. /\ HistoryGrows /\ HistoryOK' /\ status' = status /\ req' = req
      /\ IdleTimeout' = IdleTimeout /\ used' = used /\ proofs' = proofs
      /\ active' = active /\ minted' = minted /\ clock \in Nat
  BY DEF SInv, TypeOK, HistoryOK, HistoryGrows, CleanExpired, revokeUserSessions, Tick, vars
<1>2. /\ rows' \in [IDs -> SUBSET SessionRow]
      /\ \A id \in IDs : rows'[id] \subseteq rows[id]
  BY DEF SInv, TypeOK, CleanExpired, revokeUserSessions, Tick, vars
<1>3. TypeOK'
  <2>1. clock' \in Nat
    BY <1>1 DEF HistoryGrows
  <2>2. QED
    BY <1>1, <1>2, <2>1 DEF SInv, TypeOK
<1>4. ASSUME NEW id \in IDs, NEW s \in rows'[id]
      PROVE  SessionOK(s)'
  BY <1>1, <1>2, <1>4, SessionFrame DEF SInv
<1>5. ASSUME NEW r \in Requests
      PROVE  ReqOK(req[r])'
  <2>1. PICK q \in Request : q = req[r] /\ ReqOK(q)
    BY <1>5 DEF SInv, TypeOK
  <2>2. q.since = "disabled" => status' = "disabled"
    BY <1>1, <2>1 DEF ReqOK
  <2>3. ReqOK(q)'
    BY <1>1, <2>1, <2>2, RequestFrame
  <2>4. QED
    BY <1>1, <2>1, <2>3
<1>6. QED
  BY <1>1, <1>3, <1>4, <1>5 DEF SInv

(* The account changes: a request that saw it disabled until now has not   *)
(* any longer.                                                             *)
LEMMA StatusStep ==
  ASSUME SInv, SetStatus
  PROVE  SInv'
<1>1. /\ status' \in Statuses /\ rows' = rows /\ clock \in Nat
      /\ IdleTimeout' = IdleTimeout /\ used' = used /\ proofs' = proofs
      /\ active' = active /\ minted' = minted /\ clock' = clock
  BY DEF SetStatus, SInv, TypeOK
<1>2. HistoryGrows /\ HistoryOK'
  BY <1>1 DEF SInv, TypeOK, HistoryOK, HistoryGrows
<1>3. ASSUME NEW r \in Requests
      PROVE  req'[r] \in Request /\ ReqOK(req[r])'
  <2>1. PICK q \in Request : q = req[r] /\ ReqOK(q)
    BY <1>3 DEF SInv, TypeOK
  <2>2. PICK since \in Statuses : since = IF q.since = "disabled" THEN status' ELSE q.since
    BY <1>1 DEF Request
  <2>3. PICK p \in Request : p = [q EXCEPT !.since = since]
    BY Zenon DEF Request
  <2>4. p = req'[r]
    BY <1>3, <2>1, <2>2, <2>3 DEF SetStatus
  <2>5. /\ p.pc = q.pc /\ p.kind = q.kind /\ p.sess = q.sess /\ p.now = q.now
        /\ p.res = q.res /\ p.since = since
    BY <2>3 DEF Request
  <2>6. SessionOK(p.sess)'
    BY <1>2, <2>1, <2>5, SessionFrame DEF ReqOK
  <2>7. p.since = "disabled" => status' = "disabled" /\ ~Admitted(p)
    BY <2>1, <2>2, <2>5 DEF ReqOK, Admitted
  <2>8. p.pc = "user" => Alive(p.now)'
    BY <1>1, <2>1, <2>5 DEF ReqOK, Alive
  <2>9. ReqOK(p)'
    BY <1>1, <2>1, <2>5, <2>6, <2>7, <2>8 DEF ReqOK, KindOK, Admitted
  <2>10. QED
    BY <2>4, <2>9
<1>4. TypeOK'
  <2>1. req' \in [Requests -> Request]
    BY <1>3 DEF SetStatus
  <2>2. QED
    BY <1>1, <2>1 DEF SInv, TypeOK
<1>5. \A id \in IDs : \A s \in rows'[id] : SessionOK(s)'
  BY <1>1, <1>2, SessionFrame DEF SInv
<1>6. QED
  BY <1>2, <1>3, <1>4, <1>5 DEF SInv

(* The session of the login of time 0, and no request.                     *)
LEMMA SessionInitOK == Init => SInv
<1> SUFFICES ASSUME Init
             PROVE  SInv
  OBVIOUS
<1>1. IdleTimeout \in Nat /\ status \in Statuses /\ clock = 0
  BY SessionAssumption DEF Init
<1>2. HistoryOK
  BY <1>1 DEF Init, HistoryOK
<1> DEFINE row == NewRow(0, 0)
<1>3. row \in SessionRow /\ SessionOK(row)
  BY <1>1, RowType DEF SessionOK, Init
<1>4. Idle \in Request
  <2>1. Idle = [pc |-> "idle", kind |-> "validate", id |-> 0, sess |-> row, now |-> 0,
                since |-> "active", res |-> "none"]
    BY DEF Idle
  <2> HIDE DEF row
  <2>2. QED
    BY <1>3, <2>1, Constants DEF Request, PCs, Results
<1>5. rows = [id \in IDs |-> IF id = 0 THEN {row} ELSE {}]
  BY DEF Init
<1> HIDE DEF row
<1>6. TypeOK
  BY <1>1, <1>3, <1>4, <1>5, Constants DEF Init, TypeOK
<1>7. \A id \in IDs : \A s \in rows[id] : SessionOK(s)
  BY <1>3, <1>5
<1>8. \A r \in Requests : ReqOK(req[r])
  BY <1>2, <1>6, IdleOK, Zenon DEF Init
<1>9. QED
  BY <1>2, <1>6, <1>7, <1>8 DEF SInv

(* Every step of Session keeps the invariant.                              *)
LEMMA SessionNextOK == SInv /\ [Next]_vars => SInv'
<1> SUFFICES ASSUME SInv, [Next]_vars
             PROVE  SInv'
  OBVIOUS
<1>1. CASE UNCHANGED vars
  BY <1>1, BesideStep
<1>2. ASSUME NEW r \in Requests, Step(r)
      PROVE  SInv'
  BY <1>2, LookupStep, ExpiryStep, ExpiredStep, UserStep, TouchStep, ValidatedStep,
     GateStep, ReAuthStep, StampStep, RefreshStep, MintStep, RevokeStep DEF Step
<1>3. QED
  BY <1>1, <1>2, BesideStep, StatusStep DEF Next

(* A step of Access is a step of Session, or none.                         *)
LEMMA AccessIsSession ==
  [Limited \/ WithSession]_<<signedIn, vars, limiterVars>> => [Next]_vars
<1> SUFFICES ASSUME [Limited \/ WithSession]_<<signedIn, vars, limiterVars>>
             PROVE  [Next]_vars
  OBVIOUS
<1>1. CASE Limited
  <2>1. UNCHANGED sessionVars /\ Limits!Next
    BY <1>1 DEF Limited
  <2>2. CASE Limits!Tick
    BY <2>1, <2>2 DEF Limits!Tick, sessionVars, Tick, Next
  <2>3. CASE clock' = clock
    BY <2>1, <2>3 DEF sessionVars, vars
  <2>4. QED
    BY <2>1, <2>2, <2>3, Zenon DEF Limits!Next, Limits!Start, Limits!readClock, Limits!Allow,
                            Limits!Finish
<1>2. CASE WithSession
  BY <1>2 DEF WithSession
<1>3. QED
  BY <1>1, <1>2

(* The invariant holds of every session.                                   *)
LEMMA SessionInvariant == AccessSpec => []SInv
<1>1. AccessInit => SInv
  BY SessionInitOK DEF AccessInit
<1>2. QED
  BY <1>1, SessionNextOK, AccessIsSession, PTL DEF AccessSpec


(* Who is let through: the account is looked at last.                      *)
LEMMA AdmittedByUser ==
  ASSUME SInv, [Next]_vars, NEW r \in Requests, ~Admitted(req[r]), Admitted(req'[r])
  PROVE  req[r].pc = "user"
<1>1. PICK q \in Request : q = req[r]
  BY DEF SInv, TypeOK
<1>2. req'[r] # req[r]
  OBVIOUS
<1>3. ~SetStatus
  <2>1. SUFFICES ASSUME SetStatus
                 PROVE  FALSE
    OBVIOUS
  <2>2. PICK since : req'[r] = [q EXCEPT !.since = since]
    BY <1>1, <2>1, Zenon DEF SetStatus
  <2>3. req'[r].pc = q.pc /\ req'[r].res = q.res
    BY <2>2 DEF Request
  <2>4. QED
    BY <1>1, <2>3 DEF Admitted
<1>4. PICK t \in Requests : Step(t)
  BY <1>2, <1>3 DEF Next, vars, CleanExpired, revokeUserSessions, Tick
<1>5. t = r
  <2>1. req \in [Requests -> Request]
    BY DEF SInv, TypeOK
  <2>2. \A res : Answer(t, res) => \E p : req' = [req EXCEPT ![t] = p]
    BY Zenon DEF Answer
  <2>3. \A pc : Go(t, pc) => \E p : req' = [req EXCEPT ![t] = p]
    BY <2>1, Zenon DEF Go
  <2>4. PICK p : req' = [req EXCEPT ![t] = p]
    <3>1. CASE GetSessionByTokenHash(t) \/ CheckExpiry(t)
      BY <2>1, <3>1, Zenon DEF GetSessionByTokenHash, CheckExpiry
    <3>2. CASE TouchSession(t)
      BY <2>1, <2>3, <3>2, ZenonT(60) DEF TouchSession
    <3>3. CASE ReAuthenticate(t) \/ RefreshCheck(t)
      BY <2>1, <2>2, <3>3 DEF ReAuthenticate, RefreshCheck
    <3>4. CASE DeleteExpired(t) \/ GetUserByID(t) \/ Validated(t)
      BY <2>2, <2>3, <3>4, Zenon DEF DeleteExpired, GetUserByID, Validated
    <3>5. CASE UpdateAuthenticatedAt(t) \/ RefreshDelete(t) \/ RefreshMint(t) \/ RevokeSession(t)
      BY <2>2, <2>3, <3>5, Zenon DEF UpdateAuthenticatedAt, RefreshDelete, RefreshMint, RevokeSession
    <3>6. CASE Gate(t)
      BY <2>1, <2>3, <3>6, ZenonT(60) DEF Gate
    <3>7. QED
      BY <1>4, <3>1, <3>2, <3>3, <3>4, <3>5, <3>6 DEF Step
  <2>5. QED
    BY <1>2, <2>1, <2>4
<1>6. q.pc \in {"idle", "clock", "expired", "user"} /\ q.res # "ok"
  BY <1>1, <1>4, <1>5, Zenon DEF Admitted, Step, GetSessionByTokenHash, CheckExpiry,
       DeleteExpired, GetUserByID, TouchSession, Validated, Gate, ReAuthenticate,
       UpdateAuthenticatedAt, RefreshDelete, RefreshCheck, RefreshMint, RevokeSession
<1>7. Step(r) => GetSessionByTokenHash(r) \/ CheckExpiry(r) \/ DeleteExpired(r) \/ q.pc = "user"
  BY <1>1, <1>6, Zenon DEF Step, GetUserByID, TouchSession, Validated, Gate, ReAuthenticate,
       UpdateAuthenticatedAt, RefreshDelete, RefreshCheck, RefreshMint, RevokeSession
<1>8. Idle \in Request /\ req \in [Requests -> Request]
  BY IdleOK DEF SInv, TypeOK
<1> HIDE DEF Idle
<1>9. ~GetSessionByTokenHash(r)
  <2>1. SUFFICES ASSUME GetSessionByTokenHash(r)
                 PROVE  FALSE
    OBVIOUS
  <2>2. req'[r].res # "ok" /\ req'[r].pc \in {"done", "clock"}
    BY <1>8, <2>1 DEF GetSessionByTokenHash, Request
  <2>3. QED
    BY <2>2 DEF Admitted
<1>10. ~CheckExpiry(r)
  <2>1. SUFFICES ASSUME CheckExpiry(r)
                 PROVE  FALSE
    OBVIOUS
  <2>2. req'[r].res = q.res /\ req'[r].pc \in {"expired", "user"}
    BY <1>1, <1>8, <2>1 DEF CheckExpiry, Request
  <2>3. QED
    BY <1>6, <2>2 DEF Admitted
<1>11. ~DeleteExpired(r)
  <2>1. SUFFICES ASSUME DeleteExpired(r)
                 PROVE  FALSE
    OBVIOUS
  <2>2. req'[r].res \in {"expired", "idle expired"} /\ req'[r].pc = "done"
    BY <1>8, <2>1 DEF DeleteExpired, Answer, Request
  <2>3. QED
    BY <2>2, Zenon DEF Admitted
<1>12. QED
  BY <1>1, <1>4, <1>5, <1>7, <1>9, <1>10, <1>11

-----------------------------------------------------------------------------
(* Session: the theorems.                                                  *)

(* RequireRecentAuth: a sensitive operation goes through only within       *)
(* maxAge of a password proved.                                            *)
THEOREM SensitiveNeedsRecentProof == AccessSpec => []RecentAuthIsRecent
<1>1. SInv => RecentAuthIsRecent
  BY DEF SInv, ReqOK, RecentAuthIsRecent
<1>2. QED
  BY <1>1, SessionInvariant, PTL

(* ValidateSession: whatever sessions outlive DisableUser, none of them    *)
(* lets a request through.                                                 *)
THEOREM DisabledAccountsStayOut == AccessSpec => []DisabledStaysOut
<1>1. SInv => DisabledStaysOut
  BY DEF SInv, ReqOK, DisabledStaysOut
<1>2. QED
  BY <1>1, SessionInvariant, PTL

(* ValidateSession: only use, and only SessionDuration from the minting of *)
(* a row, keeps a session alive.                                           *)
THEOREM OnlyUseKeepsAlive == AccessSpec => KeptAliveByUseOnly
<1> DEFINE Kept ==
      \A r \in Requests : (~Admitted(req[r]) /\ Admitted(req'[r])) =>
        /\ IdleTimeout > 0 => \E t \in active \cup minted : req[r].now - t \in 0 .. IdleTimeout
        /\ \E m \in minted : req[r].now - m \in 0 .. SessionDuration
<1>1. SInv /\ [Next]_vars => Kept
  <2> SUFFICES ASSUME SInv, [Next]_vars, NEW r \in Requests,
                      ~Admitted(req[r]), Admitted(req'[r])
               PROVE  Alive(req[r].now)
    BY DEF Alive
  <2>1. req[r].pc = "user"
    BY AdmittedByUser
  <2>2. QED
    BY <2>1 DEF SInv, ReqOK
<1>2. SInv /\ [Next]_vars => [Kept]_vars
  BY <1>1
<1>3. QED
  BY <1>2, SessionInvariant, AccessIsSession, PTL DEF AccessSpec, KeptAliveByUseOnly

(* The late write of a touch or of a stamp brings no deleted row back.     *)
THEOREM DeletedRowsStayDeleted == AccessSpec => DeletedStaysDeleted
<1> DEFINE Gone == \A id \in used : rows[id] = {} => rows'[id] = {}
<1>1. SInv /\ [Next]_vars => Gone
  <2> SUFFICES ASSUME SInv, [Next]_vars, NEW id \in used, rows[id] = {}
               PROVE  rows'[id] = {}
    OBVIOUS
  <2>1. rows \in [IDs -> SUBSET SessionRow] /\ id \in IDs
    BY DEF SInv, TypeOK
  <2>2. ASSUME NEW r \in Requests, TouchSession(r)
        PROVE  rows'[id] = {}
    BY <2>1, <2>2 DEF TouchSession, Where
  <2>3. ASSUME NEW r \in Requests, UpdateAuthenticatedAt(r)
        PROVE  rows'[id] = {}
    <3>1. rows' = [rows EXCEPT ![req[r].id] =
                     {[s EXCEPT !.AuthenticatedAt = req[r].now] : s \in rows[req[r].id]}]
      BY <2>3, Zenon DEF UpdateAuthenticatedAt
    <3>2. QED
      BY <2>1, <3>1
  <2>4. ASSUME NEW r \in Requests, RefreshMint(r)
        PROVE  rows'[id] = {}
    BY <2>1, <2>4 DEF RefreshMint
  <2>5. ASSUME NEW r \in Requests, DeleteExpired(r) \/ RefreshDelete(r) \/ RevokeSession(r)
        PROVE  rows'[id] = {}
    BY <2>1, <2>5, Zenon DEF DeleteExpired, RefreshDelete, RevokeSession
  <2>6. CASE rows' = rows
    BY <2>6
  <2>7. CASE CleanExpired \/ revokeUserSessions
    BY <2>1, <2>7 DEF CleanExpired, revokeUserSessions
  <2>8. QED
    BY <2>2, <2>3, <2>4, <2>5, <2>6, <2>7, Zenon DEF Next, Step, vars, GetSessionByTokenHash,
         CheckExpiry, GetUserByID, Validated, Gate, ReAuthenticate, RefreshCheck,
         SetStatus, Tick
<1>2. SInv /\ [Next]_vars => [Gone]_vars
  BY <1>1
<1>3. QED
  BY <1>2, SessionInvariant, AccessIsSession, PTL DEF AccessSpec, DeletedStaysDeleted

-----------------------------------------------------------------------------
(* The limiter counts the tokens it has given: finite sets and sequences. *)


-----------------------------------------------------------------------------
(* The inductive invariant of Limiter.                                     *)

Bucket == [credit : Int, last : Nat, created : Nat, used : Nat]

IPKey(scope, ip) == <<scope, "ip", ip>>

Scopes == {"password", "reset", "magic"}

Ask == [pc : {"idle", "allow", "lock", "refused", "allowed"},
        ip : IPs \cup {Limits!NoIP}, todo : Seq(Limits!Keys),
        granted : SUBSET Limits!Keys, at : Nat]

LimiterTypeOK ==
  /\ clock \in Nat
  /\ tracked \subseteq Limits!Keys /\ forgotten \subseteq Limits!Keys
  /\ asks \in [Requests -> Ask]
  /\ bucket \in [Limits!Keys -> Bucket]

(* What a bucket holds and what it gave come from one full burst and the   *)
(* time it has been credited for, once.                                    *)
BucketOK(k, b) ==
  /\ b.credit >= 0 /\ b.credit + b.used <= Limits!full(k) + (b.last - b.created)
  /\ b.created <= b.last /\ b.last <= clock

(* The host of q has a token for the scope that key, an account's, is of.  *)
HostGranted(q, key) ==
  q.ip # Limits!NoIP =>
    \A s \in Scopes, e \in Emails : key = <<s, e>> => IPKey(s, q.ip) \in q.granted

(* A request asks for its host's token before it asks for an account's.    *)
TodoOK(q) ==
  \/ q.todo = <<>>
  \/ \E k \in Limits!Keys : q.todo = <<k>> /\ HostGranted(q, k)
  \/ \E s \in Scopes, e \in Emails : q.todo = <<IPKey(s, q.ip), <<s, e>>>>

AskOK(q) ==
  /\ TodoOK(q) /\ \A k \in q.granted : HostGranted(q, k)
  /\ q.at <= clock
  /\ q.pc = "idle" => q.granted = {}
  /\ q.pc = "lock" => q.todo # <<>> /\ ~Limits!Unlimited(Head(q.todo))

Granted(k) == {r \in Requests : k \in asks[r].granted}

(* A bucket that was never dropped has been charged for every grant.       *)
Charges(k) ==
  ~Limits!Unlimited(k) /\ k \notin forgotten =>
    /\ k \notin tracked => Granted(k) = {}
    /\ k \in tracked => Cardinality(Granted(k)) * Limits!interval(k) <= bucket[k].used

LInv ==
  /\ LimiterTypeOK
  /\ \A k \in tracked : BucketOK(k, bucket[k])
  /\ \A k \in Limits!Keys : Charges(k)
  /\ \A r \in Requests : AskOK(asks[r])

-----------------------------------------------------------------------------
(* Limiter: keys, budgets and requests.                                    *)

(* A product of naturals is one, and grows with its factors.               *)
LEMMA Products ==
  /\ \A a, b \in Nat : a * b \in Nat
  /\ \A a, b, i \in Nat : a <= b => a * i <= b * i
  /\ \A a, i \in Nat : (a + 1) * i = a * i + i
OBVIOUS

(* A key that is limited has a budget worth having.                        *)
LEMMA Budget ==
  ASSUME NEW k \in Limits!Keys
  PROVE  /\ Limits!interval(k) \in Int /\ Limits!full(k) \in Int
         /\ ~Limits!Unlimited(k) => Limits!interval(k) \in Nat \ {0} /\ Limits!full(k) \in Nat
<1>1. PICK i, b \in Int : i = Limits!budgetFor(k).interval /\ b = Limits!budgetFor(k).burst
  BY LimiterAssumption
<1>2. i * b \in Int /\ b * i \in Int
  OBVIOUS
<1>3. i > 0 /\ b > 0 => b * i \in Nat
  BY Products
<1>4. QED
  BY <1>1, <1>2, <1>3 DEF Limits!interval, Limits!full, Limits!Unlimited

(* The keys of hosts and of accounts.                                      *)
LEMMA KeyForms ==
  /\ \A s \in Scopes, ip \in IPs : IPKey(s, ip) \in Limits!Keys
  /\ \A ip \in IPs : IPKey("register", ip) \in Limits!Keys
  /\ \A s \in Scopes, e \in Emails : <<s, e>> \in Limits!Keys
  /\ \A s, t, ip, e : IPKey(t, ip) # <<s, e>>
  /\ \A s, t, d, e : <<s, e>> = <<t, d>> => s = t /\ e = d
BY DEF Limits!Keys, IPKey, Scopes

(* What a flow asks for, in order.                                         *)
LEMMA AsksForms ==
  ASSUME NEW flow \in Flows, NEW ip \in IPs \cup {Limits!NoIP}, NEW e \in Emails
  PROVE  LET todo == Limits!Asks(flow, ip, e) IN
         \/ todo = <<>>
         \/ ip = Limits!NoIP /\ \E s \in Scopes : todo = << <<s, e>> >>
         \/ ip \in IPs /\ \E s \in Scopes : todo = << IPKey(s, ip), <<s, e>> >>
         \/ ip \in IPs /\ todo = << IPKey("register", ip) >>
<1>1. flow \in {"VerifyPassword", "createPasswordResetToken", "CreateMagicLinkToken", "Register"}
  BY LimiterAssumption
<1>2. \A s : Limits!allowIP(s, ip) \o << <<s, e>> >> =
               IF ip = Limits!NoIP THEN << <<s, e>> >> ELSE << IPKey(s, ip), <<s, e>> >>
  <2>1. \A a : <<>> \o <<a>> = <<a>>
    OBVIOUS
  <2>2. ASSUME NEW a, NEW b
        PROVE  <<a>> \o <<b>> = <<a, b>>
    <3>1. <<a>> \in Seq({a, b}) /\ <<b>> \in Seq({a, b}) /\ <<a, b>> \in Seq({a, b})
      OBVIOUS
    <3>2. /\ Len(<<a>>) = 1 /\ Len(<<b>>) = 1 /\ Len(<<a, b>>) = 2
          /\ <<a>>[1] = a /\ <<b>>[1] = b /\ <<a, b>>[1] = a /\ <<a, b>>[2] = b
      OBVIOUS
    <3>3. PICK s \in Seq({a, b}), t \in Seq({a, b}), u \in Seq({a, b}) :
            s = <<a>> /\ t = <<b>> /\ u = <<a, b>>
      BY <3>1, Zenon
    <3>4. /\ s \o t \in Seq({a, b}) /\ Len(s \o t) = 2
          /\ (s \o t)[1] = a /\ (s \o t)[2] = b
      BY <3>2, <3>3
    <3>5. s \o t = u
      <4>1. \A i \in 1 .. Len(u) : (s \o t)[i] = u[i]
        BY <3>2, <3>3, <3>4
      <4>2. QED
        BY <3>2, <3>3, <3>4, <4>1, SeqEqual, Zenon
    <3>6. QED
      BY <3>3, <3>5
  <2>3. QED
    BY <2>1, <2>2, Zenon DEF Limits!allowIP, IPKey
<1>3. \/ \E s \in Scopes : Limits!Asks(flow, ip, e) = Limits!allowIP(s, ip) \o << <<s, e>> >>
      \/ Limits!Asks(flow, ip, e) = Limits!allowIP("register", ip)
  BY <1>1 DEF Limits!Asks, Limits!VerifyPassword, Limits!createPasswordResetToken,
              Limits!CreateMagicLinkToken, Limits!Register, Scopes
<1>4. Limits!allowIP("register", ip) =
        IF ip = Limits!NoIP THEN <<>> ELSE << IPKey("register", ip) >>
  BY DEF Limits!allowIP, IPKey
<1>5. QED
  BY <1>2, <1>3, <1>4, Zenon

(* What a request knows does not depend on the step of another.            *)
LEMMA AskKept ==
  ASSUME NEW t, NEW q, asks'[t] = q, AskOK(q), clock' = clock
  PROVE  AskOK(asks[t])'
<1>1. TodoOK(asks[t])'
  <2>1. TodoOK(q)
    BY DEF AskOK
  <2>2. QED
    BY <2>1, Zenon DEF TodoOK, HostGranted
<1>2. \A k \in asks'[t].granted : HostGranted(asks[t], k)'
  <2>1. \A k \in q.granted : HostGranted(q, k)
    BY DEF AskOK
  <2>2. QED
    BY <2>1, Zenon DEF HostGranted
<1>3. QED
  BY <1>1, <1>2, Zenon DEF AskOK

(* A step of request r that leaves it as p keeps what the requests know.   *)
LEMMA AsksKept ==
  ASSUME LInv, NEW r \in Requests, NEW p, asks' = [asks EXCEPT ![r] = p], AskOK(p),
         clock' = clock
  PROVE  \A t \in Requests : AskOK(asks[t])'
<1> TAKE t \in Requests
<1>1. asks \in [Requests -> Ask] /\ AskOK(asks[t])
  BY DEF LInv, LimiterTypeOK
<1>2. PICK q : q = asks'[t]
  OBVIOUS
<1>3. q = p \/ q = asks[t]
  BY <1>1, <1>2
<1>4. AskOK(q)
  BY <1>1, <1>3, Zenon
<1>5. QED
  BY <1>2, <1>4, AskKept

(* A step of request r that leaves it as p and every bucket alone.         *)
LEMMA AskStep ==
  ASSUME LInv, NEW r \in Requests, NEW p \in Ask, asks' = [asks EXCEPT ![r] = p], AskOK(p),
         \A k \in p.granted : k \in asks[r].granted \/ Limits!Unlimited(k),
         UNCHANGED <<clock, tracked, bucket, forgotten>>
  PROVE  LInv'
<1>1. LimiterTypeOK'
  BY DEF LInv, LimiterTypeOK
<1>2. \A k \in tracked' : BucketOK(k, bucket[k])'
  BY DEF LInv, BucketOK
<1>3. ASSUME NEW k \in Limits!Keys
      PROVE  Charges(k)'
  <2>1. SUFFICES ASSUME ~Limits!Unlimited(k), k \notin forgotten
                 PROVE  /\ k \notin tracked => Granted(k)' = {}
                        /\ k \in tracked =>
                             Cardinality(Granted(k)') * Limits!interval(k) <= bucket[k].used
    BY DEF Charges
  <2>2. Granted(k)' \subseteq Granted(k)
    BY <2>1 DEF Granted, LInv, LimiterTypeOK
  <2>3. Charges(k)
    BY DEF LInv
  <2>4. IsFiniteSet(Granted(k)) /\ IsFiniteSet(Granted(k)')
    <3>1. IsFiniteSet(Requests)
      BY LimiterAssumption, Zenon
    <3>2. Granted(k) \in SUBSET Requests /\ Granted(k)' \in SUBSET Requests
      BY DEF Granted
    <3>3. QED
      BY <3>1, <3>2, FS_Subset, Zenon
  <2>5. /\ Cardinality(Granted(k)) \in Nat /\ Cardinality(Granted(k)') \in Nat
        /\ Cardinality(Granted(k)') <= Cardinality(Granted(k))
    BY <2>2, <2>4, FS_Subset, FS_CardinalityType
  <2>6. Limits!interval(k) \in Nat /\ (k \in tracked => bucket[k].used \in Nat)
    BY <2>1, Budget DEF LInv, LimiterTypeOK, Bucket
  <2>7. Cardinality(Granted(k)') * Limits!interval(k)
          <= Cardinality(Granted(k)) * Limits!interval(k)
    BY <2>5, <2>6, Products
  <2>8. /\ Cardinality(Granted(k)') * Limits!interval(k) \in Nat
        /\ Cardinality(Granted(k)) * Limits!interval(k) \in Nat
    BY <2>5, <2>6, Products
  <2>9. k \in tracked => Cardinality(Granted(k)) * Limits!interval(k) <= bucket[k].used
    BY <2>1, <2>3 DEF Charges
  <2>10. k \notin tracked => Granted(k)' = {}
    BY <2>1, <2>2, <2>3 DEF Charges
  <2>11. QED
    BY <2>6, <2>7, <2>8, <2>9, <2>10
<1>4. \A t \in Requests : AskOK(asks[t])'
  BY AsksKept, Zenon
<1>5. QED
  BY <1>1, <1>2, <1>3, <1>4 DEF LInv


(* A flow begins: the host's key, if any, comes before the account's.      *)
LEMMA StartStep ==
  ASSUME LInv, NEW r \in Requests, Limits!Start(r)
  PROVE  LInv'
<1>1. PICK flow \in Flows, ip \in IPs \cup {Limits!NoIP}, e \in Emails :
        /\ asks[r].pc = "idle"
        /\ asks' = [asks EXCEPT ![r].pc = "allow", ![r].ip = ip,
                                ![r].todo = Limits!Asks(flow, ip, e)]
  BY Zenon DEF Limits!Start
<1>2. PICK q \in Ask : q = asks[r] /\ AskOK(q) /\ q.granted = {}
  BY <1>1 DEF LInv, LimiterTypeOK, AskOK
<1> DEFINE todo == Limits!Asks(flow, ip, e)
<1>3. \/ todo = <<>>
      \/ \E k \in Limits!Keys : todo = <<k>>
           /\ (ip # Limits!NoIP => \A s \in Scopes, d \in Emails : k # <<s, d>>)
      \/ ip \in IPs /\ \E s \in Scopes : todo = << IPKey(s, ip), <<s, e>> >>
  BY AsksForms, KeyForms, LimiterAssumption
<1>4. todo \in Seq(Limits!Keys)
  <2>1. /\ <<>> \in Seq(Limits!Keys) /\ \A k \in Limits!Keys : <<k>> \in Seq(Limits!Keys)
        /\ \A k, l \in Limits!Keys : <<k, l>> \in Seq(Limits!Keys)
    OBVIOUS
  <2>2. \A s \in Scopes : ip \in IPs => IPKey(s, ip) \in Limits!Keys /\ <<s, e>> \in Limits!Keys
    BY KeyForms
  <2> HIDE DEF todo
  <2>3. QED
    BY <1>3, <2>1, <2>2, Zenon
<1> HIDE DEF todo
<1>5. PICK p \in Ask : p = [q EXCEPT !.pc = "allow", !.ip = ip, !.todo = todo]
  BY <1>4, Zenon DEF Ask
<1>6. asks' = [asks EXCEPT ![r] = p]
  BY <1>1, <1>2, <1>5, Zenon DEF LInv, LimiterTypeOK, todo
<1>7. p.pc = "allow" /\ p.ip = ip /\ p.todo = todo /\ p.granted = {} /\ p.at = q.at
  BY <1>2, <1>5 DEF Ask
<1>8. AskOK(p)
  <2>1. TodoOK(p)
    BY <1>3, <1>7 DEF TodoOK, HostGranted
  <2>2. QED
    BY <1>2, <1>7, <2>1 DEF AskOK
<1>9. QED
  BY <1>6, <1>7, <1>8, AskStep, Zenon DEF Limits!Start

(* A request is through with its keys.                                     *)
LEMMA FinishStep ==
  ASSUME LInv, NEW r \in Requests, Limits!Finish(r)
  PROVE  LInv'
<1>1. PICK q \in Ask : q = asks[r] /\ AskOK(q)
  BY DEF LInv, LimiterTypeOK
<1>2. PICK p \in Ask : p = [q EXCEPT !.pc = "allowed"]
  BY Zenon DEF Ask
<1>3. asks' = [asks EXCEPT ![r] = p]
  BY <1>1, <1>2 DEF Limits!Finish, LInv, LimiterTypeOK
<1>4. /\ p.pc = "allowed" /\ p.ip = q.ip /\ p.todo = q.todo /\ p.granted = q.granted
      /\ p.at = q.at
  BY <1>2 DEF Ask
<1>5. AskOK(p)
  BY <1>1, <1>4 DEF AskOK, TodoOK, HostGranted
<1>6. QED
  BY <1>1, <1>3, <1>4, <1>5, AskStep, Zenon DEF Limits!Finish

(* The answer to a request for the first of its keys.                      *)
LEMMA AnsweredOK ==
  ASSUME NEW q \in Ask, AskOK(q), q.todo # <<>>
  PROVE  LET p == [q EXCEPT !.pc = "allow", !.todo = Tail(q.todo),
                            !.granted = q.granted \cup {Head(q.todo)}] IN
         /\ Head(q.todo) \in Limits!Keys /\ p \in Ask /\ AskOK(p)
         /\ p.granted = q.granted \cup {Head(q.todo)} /\ p.ip = q.ip
<1> DEFINE key == Head(q.todo)
           rest == Tail(q.todo)
<1>1. key \in Limits!Keys /\ rest \in Seq(Limits!Keys) /\ q.granted \in SUBSET Limits!Keys
  BY DEF Ask
<1> HIDE DEF key, rest
<1>2. PICK p \in Ask : p = [q EXCEPT !.pc = "allow", !.todo = rest,
                                     !.granted = q.granted \cup {key}]
  BY <1>1, Zenon DEF Ask
<1>3. /\ p.pc = "allow" /\ p.ip = q.ip /\ p.todo = rest /\ p.granted = q.granted \cup {key}
      /\ p.at = q.at
  BY <1>2 DEF Ask
<1>4. HostGranted(q, key) /\ TodoOK(p)
  <2>1. CASE \E k \in Limits!Keys : q.todo = <<k>> /\ HostGranted(q, k)
    <3>1. PICK k \in Limits!Keys : q.todo = <<k>> /\ HostGranted(q, k)
      BY <2>1
    <3>2. key = k /\ rest = <<>>
      BY <3>1 DEF key, rest
    <3>3. QED
      BY <1>3, <3>1, <3>2 DEF TodoOK
  <2>2. CASE \E s \in Scopes, e \in Emails : q.todo = <<IPKey(s, q.ip), <<s, e>>>>
    <3>1. PICK s \in Scopes, e \in Emails : q.todo = <<IPKey(s, q.ip), <<s, e>>>>
      BY <2>2
    <3>2. key = IPKey(s, q.ip) /\ rest = << <<s, e>> >>
      BY <3>1 DEF key, rest
    <3>3. HostGranted(q, key)
      <4>1. \A t, d : key # <<t, d>>
        BY <3>2 DEF IPKey
      <4>2. QED
        BY <4>1 DEF HostGranted
    <3>4. HostGranted(p, <<s, e>>)
      BY <1>3, <3>2, KeyForms DEF HostGranted
    <3>5. QED
      BY <1>3, <3>2, <3>3, <3>4, KeyForms DEF TodoOK
  <2>3. QED
    BY <2>1, <2>2 DEF AskOK, TodoOK
<1>5. \A k \in p.granted : HostGranted(p, k)
  <2>1. \A k : HostGranted(q, k) => HostGranted(p, k)
    BY <1>3 DEF HostGranted
  <2>2. QED
    BY <1>3, <1>4, <2>1 DEF AskOK
<1>6. AskOK(p)
  BY <1>3, <1>4, <1>5 DEF AskOK
<1>7. QED
  BY <1>1, <1>2, <1>3, <1>6 DEF key, rest

(* Allow up to the mutex: a key without a limit is granted outright.       *)
LEMMA ReadClockStep ==
  ASSUME LInv, NEW r \in Requests, Limits!readClock(r)
  PROVE  LInv'
<1>1. PICK q \in Ask : q = asks[r] /\ AskOK(q) /\ q.todo # <<>>
  BY DEF LInv, LimiterTypeOK, Limits!readClock
<1>2. asks \in [Requests -> Ask] /\ clock \in Nat
  BY DEF LInv, LimiterTypeOK
<1>3. CASE Limits!Unlimited(Head(q.todo))
  <2>1. PICK p \in Ask : /\ p = [q EXCEPT !.pc = "allow", !.todo = Tail(q.todo),
                                          !.granted = q.granted \cup {Head(q.todo)}]
                         /\ AskOK(p) /\ p.granted = q.granted \cup {Head(q.todo)}
    BY <1>1, AnsweredOK, Zenon
  <2>2. asks' = [asks EXCEPT ![r] = p]
    BY <1>1, <1>2, <1>3, <2>1, Zenon DEF Limits!readClock, Limits!Answer
  <2>3. QED
    BY <1>1, <1>3, <2>1, <2>2, AskStep, ZenonT(30) DEF Limits!readClock
<1>4. CASE ~Limits!Unlimited(Head(q.todo))
  <2>1. PICK p \in Ask : p = [q EXCEPT !.pc = "lock", !.at = clock]
    BY <1>2, Zenon DEF Ask
  <2>2. asks' = [asks EXCEPT ![r] = p]
    BY <1>1, <1>2, <1>4, <2>1, Zenon DEF Limits!readClock
  <2>3. /\ p.pc = "lock" /\ p.ip = q.ip /\ p.todo = q.todo /\ p.granted = q.granted
        /\ p.at = clock /\ clock <= clock
    BY <1>2, <2>1 DEF Ask
  <2>4. AskOK(p)
    BY <1>1, <1>4, <2>3 DEF AskOK, TodoOK, HostGranted
  <2>5. QED
    BY <1>1, <2>2, <2>3, <2>4, AskStep, Zenon DEF Limits!readClock
<1>5. QED
  BY <1>3, <1>4


-----------------------------------------------------------------------------
(* Limiter: Allow under the mutex.                                         *)

(* The bucket Allow finds or makes: time is credited from the last credit  *)
(* on, and never from an older moment.                                     *)
LEMMA ToppedUp ==
  ASSUME LInv, NEW k \in Limits!Keys, ~Limits!Unlimited(k), NEW at \in Nat, at <= clock
  PROVE  /\ k \in tracked =>
              /\ Limits!TopUp(k, at) \in Bucket /\ BucketOK(k, Limits!TopUp(k, at))
              /\ Limits!TopUp(k, at).used = bucket[k].used
         /\ Limits!NewBucket(k, at) \in Bucket /\ BucketOK(k, Limits!NewBucket(k, at))
         /\ Limits!NewBucket(k, at).used = 0
<1>1. Limits!full(k) \in Nat /\ clock \in Nat /\ bucket[k] \in Bucket
  BY Budget DEF LInv, LimiterTypeOK
<1>2. PICK f \in Nat : f = Limits!full(k)
  BY <1>1
<1>3. ASSUME k \in tracked
      PROVE  /\ Limits!TopUp(k, at) \in Bucket /\ BucketOK(k, Limits!TopUp(k, at))
             /\ Limits!TopUp(k, at).used = bucket[k].used
  <2>1. PICK b \in Bucket : b = bucket[k] /\ BucketOK(k, b)
    BY <1>1, <1>3 DEF LInv
  <2>2. /\ b.credit \in Int /\ b.last \in Nat /\ b.created \in Nat /\ b.used \in Nat
        /\ b.credit >= 0 /\ b.credit + b.used <= f + (b.last - b.created)
        /\ b.created <= b.last /\ b.last <= clock
    BY <1>2, <2>1 DEF Bucket, BucketOK
  <2>3. CASE at - b.last > 0
    <3>1. PICK c \in Int : c = Limits!Min2(f, b.credit + (at - b.last))
      BY <2>2 DEF Limits!Min2
    <3>2. c >= 0 /\ c <= b.credit + (at - b.last)
      BY <2>2, <2>3, <3>1 DEF Limits!Min2
    <3>3. Limits!TopUp(k, at) = [b EXCEPT !.credit = c, !.last = at]
      BY <1>2, <2>1, <2>3, <3>1 DEF Limits!TopUp
    <3>4. PICK d \in Bucket : d = [b EXCEPT !.credit = c, !.last = at]
      BY Zenon DEF Bucket
    <3>5. d.credit = c /\ d.last = at /\ d.created = b.created /\ d.used = b.used
      BY <3>4 DEF Bucket
    <3>6. BucketOK(k, d)
      BY <1>1, <1>2, <2>2, <2>3, <3>2, <3>5, SMT, SMTT(30) DEF BucketOK
    <3>7. QED
      BY <2>1, <3>3, <3>4, <3>5, <3>6
  <2>4. CASE ~(at - b.last > 0)
    BY <2>1, <2>4 DEF Limits!TopUp
  <2>5. QED
    BY <2>3, <2>4
<1>4. /\ Limits!NewBucket(k, at) \in Bucket /\ BucketOK(k, Limits!NewBucket(k, at))
      /\ Limits!NewBucket(k, at).used = 0
  <2>1. PICK d \in Bucket : d = [credit |-> f, last |-> at, created |-> at, used |-> 0]
    <3>1. f \in Int /\ 0 \in Nat
      OBVIOUS
    <3>2. [credit |-> f, last |-> at, created |-> at, used |-> 0] \in Bucket
      BY <3>1 DEF Bucket
    <3>3. QED
      BY <3>2
  <2>2. d = Limits!NewBucket(k, at)
    BY <1>2, <2>1 DEF Limits!NewBucket
  <2>3. d.credit = f /\ d.last = at /\ d.created = at /\ d.used = 0
    BY <2>1
  <2>4. BucketOK(k, d)
    BY <1>1, <1>2, <2>3 DEF BucketOK
  <2>5. QED
    BY <2>2, <2>3, <2>4
<1>5. QED
  BY <1>3, <1>4

(* A token given is a token charged.                                       *)
LEMMA SpendOK ==
  ASSUME LInv, NEW r \in Requests, NEW k \in Limits!Keys, ~Limits!Unlimited(k),
         NEW b \in Bucket, BucketOK(k, b), Limits!Spend(r, k, b)
  PROVE  \E d \in Bucket :
           /\ bucket' = [bucket EXCEPT ![k] = d] /\ BucketOK(k, d)
           /\ \/ Limits!Refuse(r) /\ d.used = b.used
              \/ Limits!Answer(r, k) /\ d.used = b.used + Limits!interval(k)
<1>1. PICK i \in Nat : i = Limits!interval(k)
  BY Budget
<1>2. CASE b.credit < i
  BY <1>1, <1>2 DEF Limits!Spend
<1>3. CASE ~(b.credit < i)
  <2>1. PICK c \in Int, u \in Nat : c = b.credit - i /\ u = b.used + i
    BY DEF Bucket
  <2>2. PICK d \in Bucket : d = [b EXCEPT !.credit = c, !.used = u]
    BY Zenon DEF Bucket
  <2>3. d.credit = c /\ d.used = u /\ d.last = b.last /\ d.created = b.created
    BY <2>2 DEF Bucket
  <2>4. bucket' = [bucket EXCEPT ![k] = d] /\ Limits!Answer(r, k)
    BY <1>1, <1>3, <2>1, <2>2 DEF Limits!Spend
  <2>5. PICK f \in Int : f = Limits!full(k)
    BY Budget
  <2>6. /\ b.credit \in Int /\ b.used \in Nat /\ b.last \in Nat /\ b.created \in Nat
        /\ b.credit + b.used <= f + (b.last - b.created)
        /\ b.created <= b.last /\ b.last <= clock
    BY <2>5 DEF Bucket, BucketOK
  <2>7. d.credit >= 0 /\ d.credit + d.used <= f + (d.last - d.created)
    BY <1>3, <2>1, <2>3, <2>6
  <2>8. BucketOK(k, d)
    BY <2>3, <2>5, <2>6, <2>7 DEF BucketOK
  <2>9. QED
    BY <1>1, <2>1, <2>3, <2>4, <2>8, Zenon
<1>4. QED
  BY <1>2, <1>3


(* The requests that hold a token of a key are as many as the requests.    *)
LEMMA GrantedFinite ==
  ASSUME NEW k
  PROVE  /\ IsFiniteSet(Granted(k)) /\ Cardinality(Granted(k)) \in Nat
         /\ IsFiniteSet(Granted(k)') /\ Cardinality(Granted(k)') \in Nat
<1>1. Granted(k) \in SUBSET Requests /\ Granted(k)' \in SUBSET Requests
  BY DEF Granted
<1>2. IsFiniteSet(Requests)
  BY LimiterAssumption, Zenon
<1>3. IsFiniteSet(Granted(k)) /\ IsFiniteSet(Granted(k)')
  BY <1>1, <1>2, FS_Subset, Zenon
<1>4. QED
  BY <1>3, FS_CardinalityType, Zenon

(* Allow, once it is known what the bucket becomes and which were evicted. *)
LEMMA ChargeStep ==
  ASSUME LInv, NEW r \in Requests, NEW p \in Ask, asks' = [asks EXCEPT ![r] = p], AskOK(p),
         NEW k \in Limits!Keys, ~Limits!Unlimited(k),
         NEW d \in Bucket, bucket' = [bucket EXCEPT ![k] = d], BucketOK(k, d),
         tracked' \subseteq tracked \cup {k}, k \in tracked',
         tracked \ tracked' \subseteq forgotten', forgotten \subseteq forgotten',
         forgotten' \subseteq Limits!Keys, clock' = clock,
         NEW before \in Nat, k \in tracked => before = bucket[k].used,
         k \notin tracked => before = 0,
         \/ p.granted = asks[r].granted /\ d.used = before
         \/ p.granted = asks[r].granted \cup {k} /\ d.used = before + Limits!interval(k)
  PROVE  LInv'
<1>1. LimiterTypeOK /\ asks \in [Requests -> Ask] /\ bucket \in [Limits!Keys -> Bucket]
  BY DEF LInv, LimiterTypeOK
<1>2. LimiterTypeOK'
  BY <1>1 DEF LimiterTypeOK
<1>3. \A l \in tracked' : BucketOK(l, bucket[l])'
  <2> TAKE l \in tracked'
  <2>1. PICK b : b = bucket'[l]
    OBVIOUS
  <2>2. CASE l = k
    <3>1. b = d
      BY <1>1, <2>1, <2>2
    <3>2. BucketOK(l, b)
      BY <2>2, <3>1, Zenon
    <3>3. QED
      BY <2>1, <3>2, Zenon DEF BucketOK
  <2>3. CASE l # k
    <3>1. l \in tracked
      BY <2>3
    <3>2. b = bucket[l] /\ BucketOK(l, bucket[l])
      BY <1>1, <2>1, <2>3, <3>1 DEF LInv, LimiterTypeOK
    <3>3. QED
      BY <2>1, <3>2, Zenon DEF BucketOK
  <2>4. QED
    BY <2>2, <2>3
<1>4. \A l \in Limits!Keys : l # k => Granted(l)' = Granted(l)
  BY <1>1 DEF Granted
<1>5. ASSUME NEW l \in Limits!Keys, l # k
      PROVE  Charges(l)'
  <2>1. bucket'[l] = bucket[l] /\ Granted(l)' = Granted(l) /\ Charges(l)
    BY <1>1, <1>4, <1>5 DEF LInv
  <2>2. l \notin forgotten' => l \notin forgotten /\ (l \in tracked' <=> l \in tracked)
    BY <1>5
  <2>3. QED
    BY <2>1, <2>2 DEF Charges
<1>6. Charges(k)'
  <2>1. SUFFICES ASSUME k \notin forgotten
                 PROVE  Cardinality(Granted(k)') * Limits!interval(k) <= d.used
    BY <1>1 DEF Charges
  <2>2. PICK i \in Nat, n \in Nat, m \in Nat :
          i = Limits!interval(k) /\ n = Cardinality(Granted(k)) /\ m = Cardinality(Granted(k)')
    BY Budget, GrantedFinite
  <2>3. n * i <= before
    <3>1. CASE k \in tracked
      BY <2>1, <2>2, <3>1 DEF LInv, Charges
    <3>2. CASE k \notin tracked
      <4>1. n = 0
        BY <2>1, <2>2, <3>2, FS_EmptySet, Zenon DEF LInv, Charges
      <4>2. QED
        BY <3>2, <4>1, SMT, SMTT(30)
    <3>3. QED
      BY <3>1, <3>2
  <2>4. CASE p.granted = asks[r].granted /\ d.used = before
    <3>1. Granted(k)' = Granted(k)
      BY <1>1, <2>4 DEF Granted
    <3>2. QED
      BY <2>2, <2>3, <2>4, <3>1
  <2>5. CASE p.granted = asks[r].granted \cup {k} /\ d.used = before + i
    <3>1. Granted(k)' = Granted(k) \cup {r}
      BY <1>1, <2>5 DEF Granted
    <3>2. m <= n + 1
      <4>1. Cardinality(Granted(k) \cup {r}) =
              IF r \in Granted(k) THEN Cardinality(Granted(k)) ELSE Cardinality(Granted(k)) + 1
        BY GrantedFinite, FS_AddElement, Zenon
      <4>2. m = n \/ m = n + 1
        BY <2>2, <3>1, <4>1
      <4>3. QED
        BY <4>2
    <3>3. m * i <= (n + 1) * i /\ (n + 1) * i = n * i + i
      BY <3>2, Products, SMT, SMTT(30)
    <3>4. m * i \in Nat /\ n * i \in Nat
      BY Products
    <3>5. m * i <= before + i
      <4> DEFINE mi == m * i
                 ni == n * i
      <4>1. mi \in Nat /\ ni \in Nat /\ mi <= ni + i /\ ni <= before
        BY <2>3, <3>3, <3>4
      <4> HIDE DEF mi, ni
      <4>2. mi <= before + i
        BY <4>1, SMT, SMTT(30)
      <4>3. QED
        BY <4>2 DEF mi
    <3>6. QED
      BY <2>2, <2>5, <3>5, SMT, SMTT(30)
  <2>6. QED
    BY <2>2, <2>4, <2>5, Zenon
<1>7. \A t \in Requests : AskOK(asks[t])'
  BY AsksKept, Zenon
<1>8. QED
  BY <1>2, <1>3, <1>5, <1>6, <1>7 DEF LInv

(* Allow under the mutex.                                                  *)
LEMMA AllowStep ==
  ASSUME LInv, NEW r \in Requests, Limits!Allow(r)
  PROVE  LInv'
<1>1. PICK q \in Ask : /\ q = asks[r] /\ AskOK(q) /\ q.pc = "lock" /\ q.todo # <<>>
                       /\ ~Limits!Unlimited(Head(q.todo))
  BY Zenon DEF LInv, LimiterTypeOK, AskOK, Limits!Allow
<1>2. PICK k \in Limits!Keys : k = Head(q.todo)
  BY <1>1, AnsweredOK, ZenonT(30)
<1>3. ~Limits!Unlimited(k) /\ q.at \in Nat /\ q.at <= clock
  BY <1>1, <1>2 DEF Ask, AskOK
<1>4. PICK b \in Bucket, before \in Nat :
        /\ BucketOK(k, b) /\ Limits!Spend(r, k, b) /\ b.used = before
        /\ k \in tracked => before = bucket[k].used
        /\ k \notin tracked => before = 0
  <2>1. CASE k \in tracked
    <3>1. Limits!Spend(r, k, Limits!TopUp(k, q.at))
      BY <1>1, <1>2, <2>1 DEF Limits!Allow
    <3>2. QED
      BY <1>3, <2>1, <3>1, ToppedUp DEF Bucket
  <2>2. CASE k \notin tracked
    <3>1. Limits!Spend(r, k, Limits!NewBucket(k, q.at))
      BY <1>1, <1>2, <2>2 DEF Limits!Allow
    <3>2. QED
      BY <1>3, <2>2, <3>1, ToppedUp DEF Bucket
  <2>3. QED
    BY <2>1, <2>2
<1>5. /\ tracked' \subseteq tracked \cup {k} /\ k \in tracked'
      /\ tracked \ tracked' \subseteq forgotten' /\ forgotten \subseteq forgotten'
      /\ forgotten' \subseteq Limits!Keys /\ clock' = clock
  BY <1>1, <1>2 DEF Limits!Allow, LInv, LimiterTypeOK
<1>6. PICK d \in Bucket :
        /\ bucket' = [bucket EXCEPT ![k] = d] /\ BucketOK(k, d)
        /\ \/ Limits!Refuse(r) /\ d.used = before
           \/ Limits!Answer(r, k) /\ d.used = before + Limits!interval(k)
  BY <1>3, <1>4, SpendOK
<1>7. asks \in [Requests -> Ask]
  BY DEF LInv, LimiterTypeOK
<1>8. CASE Limits!Refuse(r) /\ d.used = before
  <2>1. PICK p \in Ask : p = [q EXCEPT !.pc = "refused", !.todo = <<>>]
    <3>1. <<>> \in Seq(Limits!Keys)
      OBVIOUS
    <3>2. QED
      BY <3>1, Zenon DEF Ask
  <2>2. /\ p.pc = "refused" /\ p.todo = <<>> /\ p.granted = q.granted /\ p.ip = q.ip
        /\ p.at = q.at
    BY <2>1 DEF Ask
  <2>3. asks' = [asks EXCEPT ![r] = p]
    BY <1>1, <1>7, <1>8, <2>1, Zenon DEF Limits!Refuse
  <2>4. AskOK(p)
    BY <1>1, <2>2 DEF AskOK, TodoOK, HostGranted
  <2>5. p.granted = asks[r].granted /\ d.used = before
    BY <1>1, <1>8, <2>2
  <2>6. QED
    BY <1>3, <1>4, <1>5, <1>6, <2>3, <2>4, <2>5, ChargeStep, Zenon
<1>9. CASE Limits!Answer(r, k) /\ d.used = before + Limits!interval(k)
  <2>1. PICK p \in Ask : /\ p = [q EXCEPT !.pc = "allow", !.todo = Tail(q.todo),
                                          !.granted = q.granted \cup {Head(q.todo)}]
                         /\ AskOK(p) /\ p.granted = q.granted \cup {Head(q.todo)}
    BY <1>1, AnsweredOK, Zenon
  <2>2. asks' = [asks EXCEPT ![r] = p]
    BY <1>1, <1>2, <1>7, <1>9, <2>1, Zenon DEF Limits!Answer
  <2>3. p.granted = asks[r].granted \cup {k} /\ d.used = before + Limits!interval(k)
    BY <1>1, <1>2, <1>9, <2>1
  <2>4. AskOK(p)
    BY <2>1
  <2>5. /\ bucket' = [bucket EXCEPT ![k] = d] /\ BucketOK(k, d)
        /\ k \in tracked => before = bucket[k].used
        /\ k \notin tracked => before = 0
    BY <1>4, <1>6
  <2>6. QED
    BY <1>3, <1>5, <2>2, <2>3, <2>4, <2>5, ChargeStep, Zenon
<1>10. QED
  BY <1>6, <1>8, <1>9


-----------------------------------------------------------------------------
(* Limiter: the invariant and the theorems.                                *)

(* Time passes.                                                            *)
LEMMA ClockStep ==
  ASSUME LInv, clock' \in Nat, clock <= clock', UNCHANGED limiterVars
  PROVE  LInv'
<1>1. /\ clock \in Nat /\ tracked' = tracked /\ bucket' = bucket /\ asks' = asks
      /\ forgotten' = forgotten
  BY DEF limiterVars, LInv, LimiterTypeOK
<1>2. LimiterTypeOK'
  BY <1>1 DEF LInv, LimiterTypeOK
<1>3. ASSUME NEW k \in tracked
      PROVE  BucketOK(k, bucket[k])'
  BY <1>1, <1>3 DEF LInv, LimiterTypeOK, Bucket, BucketOK
<1>4. \A k \in Limits!Keys : Charges(k)'
  <2>1. \A k \in Limits!Keys : Charges(k)
    BY Zenon DEF LInv
  <2>2. QED
    BY <1>1, <2>1, SMT, SMTT(30) DEF Charges, Granted
<1>5. ASSUME NEW r \in Requests
      PROVE  AskOK(asks[r])'
  <2>1. asks[r].at \in Nat /\ AskOK(asks[r])
    BY <1>5, SMTT(30) DEF LInv, LimiterTypeOK, Ask
  <2>2. asks[r].at <= clock'
    BY <1>1, <2>1, SMT, SMTT(30) DEF AskOK
  <2>3. QED
    BY <1>1, <2>1, <2>2 DEF AskOK, TodoOK, HostGranted
<1>6. QED
  BY <1>1, <1>2, <1>3, <1>4, <1>5 DEF LInv

(* No bucket, and no request.                                              *)
LEMMA LimiterInitOK == Limits!Init => LInv
<1> SUFFICES ASSUME Limits!Init
             PROVE  LInv
  OBVIOUS
<1>1. clock = 0 /\ tracked = {} /\ forgotten = {} /\ asks = [r \in Requests |-> Limits!Idle]
  BY DEF Limits!Init
<1>2. /\ Limits!Idle \in Ask /\ Limits!Idle.pc = "idle" /\ Limits!Idle.todo = <<>>
      /\ Limits!Idle.granted = {} /\ Limits!Idle.at = 0
  <2>1. <<>> \in Seq(Limits!Keys) /\ {} \in SUBSET Limits!Keys
    OBVIOUS
  <2>2. QED
    BY <2>1, Zenon DEF Limits!Idle, Ask
<1>3. bucket \in [Limits!Keys -> Bucket]
  <2>1. ASSUME NEW k \in Limits!Keys
        PROVE  Limits!NewBucket(k, 0) \in Bucket
    <3>1. PICK f \in Int : f = Limits!full(k)
      BY Budget
    <3>2. QED
      BY <3>1 DEF Limits!NewBucket, Bucket
  <2>2. QED
    BY <2>1 DEF Limits!Init
<1>4. LimiterTypeOK
  BY <1>1, <1>2, <1>3 DEF LimiterTypeOK
<1>5. \A k \in Limits!Keys : Charges(k)
  BY <1>1, <1>2 DEF Charges, Granted
<1>6. AskOK(Limits!Idle)
  BY <1>1, <1>2, SMT, SMTT(30) DEF AskOK, TodoOK
<1>7. QED
  BY <1>1, <1>4, <1>5, <1>6 DEF LInv

(* Every step of Access keeps the invariant of its limiter.                *)
LEMMA LimiterNextOK ==
  LInv /\ [Limited \/ WithSession]_<<signedIn, vars, limiterVars>> => LInv'
<1> SUFFICES ASSUME LInv, [Limited \/ WithSession]_<<signedIn, vars, limiterVars>>
             PROVE  LInv'
  OBVIOUS
<1>1. clock \in Nat
  BY DEF LInv, LimiterTypeOK
<1>2. CASE Limited
  <2>1. CASE Limits!Tick
    BY <1>1, <2>1, ClockStep DEF Limits!Tick, limiterVars
  <2>2. QED
    BY <1>2, <2>1, StartStep, ReadClockStep, AllowStep, FinishStep DEF Limited, Limits!Next
<1>3. CASE WithSession
  <2>1. clock' = clock \/ clock' = clock + 1
    BY <1>3, Zenon DEF WithSession, Next, Step, GetSessionByTokenHash, CheckExpiry, DeleteExpired,
         GetUserByID, TouchSession, Validated, Gate, ReAuthenticate, UpdateAuthenticatedAt,
         RefreshDelete, RefreshCheck, RefreshMint, RevokeSession, CleanExpired, SetStatus,
         revokeUserSessions, Tick
  <2>2. QED
    BY <1>1, <1>3, <2>1, ClockStep DEF WithSession
<1>4. CASE UNCHANGED <<signedIn, vars, limiterVars>>
  BY <1>1, <1>4, ClockStep DEF vars
<1>5. QED
  BY <1>2, <1>3, <1>4

(* The invariant holds of every limiter.                                   *)
LEMMA LimiterInvariant == AccessSpec => []LInv
<1>1. AccessInit => LInv
  BY LimiterInitOK DEF AccessInit
<1>2. QED
  BY <1>1, LimiterNextOK, PTL DEF AccessSpec

(* Allow: no bucket gives more than a burst and a token per interval,      *)
(* whatever the order in which callers enter with the times they read.     *)
THEOREM BucketsAreBounded == AccessSpec => []AdmissionBound
<1>1. LInv => AdmissionBound
  <2> SUFFICES ASSUME LInv, NEW k \in tracked
               PROVE  /\ bucket[k].used <= Limits!full(k) + (bucket[k].last - bucket[k].created)
                      /\ bucket[k].last <= clock /\ bucket[k].credit >= 0
    BY DEF AdmissionBound
  <2>1. PICK f \in Int : f = Limits!full(k)
    BY Budget DEF LInv, LimiterTypeOK
  <2>2. PICK b \in Bucket : b = bucket[k] /\ BucketOK(k, b)
    BY DEF LInv, LimiterTypeOK
  <2>3. b.credit \in Int /\ b.used \in Nat /\ b.last \in Nat /\ b.created \in Nat
    BY DEF Bucket
  <2>4. QED
    BY <2>1, <2>2, <2>3 DEF BucketOK
<1>2. QED
  BY <1>1, LimiterInvariant, PTL

(* allowIP comes first: one host takes from all accounts together no more  *)
(* than its own budget.                                                    *)
THEOREM HostsPayFirst == AccessSpec => []HostBudgetCapsAccounts
<1>1. LInv => HostBudgetCapsAccounts
  <2> SUFFICES ASSUME LInv, NEW s \in Scopes, NEW ip \in IPs,
                      IPKey(s, ip) \notin forgotten, ~Limits!Unlimited(IPKey(s, ip)),
                      Cardinality(Charged(s, ip)) > 0
               PROVE  Cardinality(Charged(s, ip)) * Limits!interval(IPKey(s, ip))
                        <= Limits!full(IPKey(s, ip)) + clock
    BY Zenon DEF HostBudgetCapsAccounts, IPKey, Scopes
  <2>1. PICK k \in Limits!Keys : k = IPKey(s, ip)
    BY KeyForms
  <2>2. Charged(s, ip) \subseteq Granted(k)
    <3> SUFFICES ASSUME NEW r \in Charged(s, ip)
                 PROVE  r \in Granted(k)
      OBVIOUS
    <3>1. PICK e \in Emails : r \in Requests /\ asks[r].ip = ip /\ <<s, e>> \in asks[r].granted
      BY DEF Charged
    <3>2. ip # Limits!NoIP
      BY LimiterAssumption, SMTT(30)
    <3>3. HostGranted(asks[r], <<s, e>>)
      BY <3>1 DEF LInv, AskOK
    <3>4. QED
      BY <2>1, <3>1, <3>2, <3>3 DEF HostGranted, Granted
  <2>3. PICK i \in Nat, f \in Nat : i = Limits!interval(k) /\ f = Limits!full(k)
    BY <2>1, Budget
  <2>4. PICK m \in Nat, n \in Nat :
          m = Cardinality(Charged(s, ip)) /\ n = Cardinality(Granted(k)) /\ m <= n
    BY <2>2, GrantedFinite, FS_Subset, FS_CardinalityType, SMTT(30)
  <2>5. k \in tracked
    <3>1. Granted(k) # {}
      BY <2>2, <2>4, FS_EmptySet
    <3>2. QED
      BY <2>1, <3>1 DEF LInv, Charges
  <2>6. PICK b \in Bucket : b = bucket[k] /\ BucketOK(k, b)
    BY <2>5, SMTT(30) DEF LInv, LimiterTypeOK
  <2>7. n * i <= b.used
    BY <2>1, <2>3, <2>4, <2>5, <2>6 DEF LInv, Charges
  <2>8. b.used <= f + clock
    <3>1. /\ b.credit \in Int /\ b.used \in Nat /\ b.last \in Nat /\ b.created \in Nat
          /\ clock \in Nat
      BY DEF Bucket, LInv, LimiterTypeOK
    <3>2. b.credit >= 0 /\ b.credit + b.used <= f + (b.last - b.created)
      BY <2>3, <2>6, Zenon DEF BucketOK
    <3>3. b.created <= b.last /\ b.last <= clock
      BY <2>6, Zenon DEF BucketOK
    <3>4. QED
      BY <3>1, <3>2, <3>3
  <2>9. m * i <= f + clock
    <3>1. m * i \in Nat /\ n * i \in Nat /\ m * i <= n * i
      BY <2>4, Products
    <3>2. b.used \in Nat /\ clock \in Nat
      BY DEF Bucket, LInv, LimiterTypeOK
    <3> DEFINE mi == m * i
               ni == n * i
    <3>3. mi \in Nat /\ ni \in Nat /\ mi <= ni /\ ni <= b.used
      BY <2>7, <3>1
    <3> HIDE DEF mi, ni
    <3>4. mi <= f + clock
      BY <2>8, <3>2, <3>3
    <3>5. QED
      BY <3>4 DEF mi
  <2>10. QED
    BY <2>1, <2>3, <2>4, <2>9
<1>2. QED
  BY <1>1, LimiterInvariant, PTL

=============================================================================
