----------------------------- MODULE TotpStore -----------------------------
(***************************************************************************)
(* The contract of totp.Store for one user, as the in-memory store         *)
(* (src/memstore/totp.go) fulfils it: what each method does to the rows    *)
(* and what it returns.  A secret is identified with its credential's id.  *)
(***************************************************************************)
EXTENDS Naturals

Active(rows) == {r \in rows : r.table = "totp_active"}

Pending(rows) == {r \in rows : r.table = "totp_pending"}

ActiveRow(id, last) ==
  [table |-> "totp_active", key |-> "u", id |-> id, last |-> last]

PendingRow(id) == [table |-> "totp_pending", key |-> "u", id |-> id]

Ret(rows, res) == [rows |-> rows, res |-> res]

GetActiveTOTP(rows) ==
  Ret(rows, IF Active(rows) = {} THEN <<"notEnrolled">>
            ELSE LET a == CHOOSE a \in Active(rows) : TRUE
                 IN  <<"ok", a.id, a.last>>)

GetPendingTOTP(rows) ==
  Ret(rows, IF Pending(rows) = {} THEN <<"notEnrolled">>
            ELSE <<"ok", (CHOOSE p \in Pending(rows) : TRUE).id>>)

setPendingLocked(rows, id) == (rows \ Pending(rows)) \cup {PendingRow(id)}

EnrollPending(rows, id) ==
  IF Active(rows) # {} THEN Ret(rows, <<"alreadyEnrolled">>)
  ELSE Ret(setPendingLocked(rows, id), <<"ok">>)

ReplacePending(rows, id) == Ret(setPendingLocked(rows, id), <<"ok">>)

(* The promoted credential keeps the higher of the two counters.           *)
MutHigherCounter(rows, counter) == counter

HigherCounter(rows, counter) ==
  IF \E a \in Active(rows) : a.last > counter
    THEN (CHOOSE a \in Active(rows) : TRUE).last
    ELSE counter

ConfirmEnrollment(rows, id, counter) ==
  LET last == HigherCounter(rows, counter) IN
  IF PendingRow(id) \notin rows THEN Ret(rows, <<"notEnrolled">>)
  ELSE Ret((rows \ (Active(rows) \cup Pending(rows))) \cup {ActiveRow(id, last)},
           <<"ok", id, last>>)

SaveTOTP(rows, id, counter) ==
  IF \A a \in Active(rows) : a.id # id THEN Ret(rows, <<"notEnrolled">>)
  ELSE IF \E a \in Active(rows) : counter <= a.last
    THEN Ret(rows, <<"replayed">>)
    ELSE Ret((rows \ Active(rows)) \cup {ActiveRow(id, counter)}, <<"ok">>)

DeleteTOTP(rows) == Ret(rows \ (Active(rows) \cup Pending(rows)), <<"ok">>)

Method(c, rows) ==
  CASE c.op = "GetActiveTOTP"     -> GetActiveTOTP(rows)
    [] c.op = "GetPendingTOTP"    -> GetPendingTOTP(rows)
    [] c.op = "EnrollPending"     -> EnrollPending(rows, c.id)
    [] c.op = "ReplacePending"    -> ReplacePending(rows, c.id)
    [] c.op = "ConfirmEnrollment" -> ConfirmEnrollment(rows, c.id, c.counter)
    [] c.op = "SaveTOTP"          -> SaveTOTP(rows, c.id, c.counter)
    [] c.op = "DeleteTOTP"        -> DeleteTOTP(rows)

=============================================================================
