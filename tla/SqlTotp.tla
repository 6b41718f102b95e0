------------------------------ MODULE SqlTotp ------------------------------
(***************************************************************************)
(* The TOTP stores of src/store/sql/postgres/totp.go and                   *)
(* src/store/sql/sqlite/totp.go, statement by statement, beside the        *)
(* in-memory one.  The active and the pending slot are two tables keyed by *)
(* the user.  Both dialects run the same statements; PostgreSQL's          *)
(* mutations take the user's advisory lock first.                          *)
(***************************************************************************)
EXTENDS Sql, TotpStore

CONSTANTS Ids,         \* credential ids
          MaxCounter   \* bound on time steps

Counters == 1 .. MaxCounter

Call == [op : {"GetActiveTOTP", "GetPendingTOTP", "DeleteTOTP"}]
        \cup [op : {"EnrollPending", "ReplacePending"}, id : Ids]
        \cup [op : {"ConfirmEnrollment", "SaveTOTP"}, id : Ids, counter : Counters]

-----------------------------------------------------------------------------
(* The programs.                                                           *)

PgGetActiveTOTP == <<"getActive">>
PgGetPendingTOTP == <<"getPending">>

(* lockedExec: the lock, one statement, the commit.  The statement of      *)
(* EnrollPending reads the other table first.                              *)
lockedExec(statement) == <<"lockUser", statement, "commit">>

PgEnrollPending == <<"lockUser", "noActive", "upsertPending", "commit">>
PgReplacePending == lockedExec("upsertPending")

MutPgConfirmEnrollment == <<"consume", "prior", "promote", "commit">>

PgConfirmEnrollment ==
  <<"lockUser", "consume", "prior", "promote", "commit">>

PgSaveTOTP == <<"lockUser", "raise", "commit">>

PgDeleteTOTP == <<"lockUser", "deleteActive", "deletePending", "commit">>

SqliteGetActiveTOTP == <<"connect", "getActive">>
SqliteGetPendingTOTP == <<"connect", "getPending">>
SqliteEnrollPending == <<"connect", "noActive", "upsertPending", "commit">>
SqliteReplacePending == <<"connect", "upsertPending", "commit">>
SqliteConfirmEnrollment ==
  <<"connect", "consume", "prior", "promote", "commit">>
SqliteSaveTOTP == <<"connect", "raise", "commit">>
SqliteDeleteTOTP == <<"connect", "deleteActive", "deletePending", "commit">>

Program(op) ==
  CASE impl = "memstore" -> <<"method">>
    [] impl = "postgres" ->
         (CASE op = "GetActiveTOTP"     -> PgGetActiveTOTP
            [] op = "GetPendingTOTP"    -> PgGetPendingTOTP
            [] op = "EnrollPending"     -> PgEnrollPending
            [] op = "ReplacePending"    -> PgReplacePending
            [] op = "ConfirmEnrollment" -> PgConfirmEnrollment
            [] op = "SaveTOTP"          -> PgSaveTOTP
            [] op = "DeleteTOTP"        -> PgDeleteTOTP)
    [] impl = "sqlite" ->
         (CASE op = "GetActiveTOTP"     -> SqliteGetActiveTOTP
            [] op = "GetPendingTOTP"    -> SqliteGetPendingTOTP
            [] op = "EnrollPending"     -> SqliteEnrollPending
            [] op = "ReplacePending"    -> SqliteReplacePending
            [] op = "ConfirmEnrollment" -> SqliteConfirmEnrollment
            [] op = "SaveTOTP"          -> SqliteSaveTOTP
            [] op = "DeleteTOTP"        -> SqliteDeleteTOTP)

-----------------------------------------------------------------------------
(* The statements.                                                         *)

method(t) ==
  /\ Running(t, "method")
  /\ LET m == Method(txn[t].call, db) IN End(t, m.rows, m.res)

lockUser(t) == Running(t, "lockUser") /\ Acquire(t, <<"totp", "u">>)

getActive(t) ==
  Running(t, "getActive") /\ Return(t, GetActiveTOTP(Seen(t)).res)

getPending(t) ==
  Running(t, "getPending") /\ Return(t, GetPendingTOTP(Seen(t)).res)

(* WHERE NOT EXISTS (SELECT 1 FROM totp_active ...)                        *)
noActive(t) ==
  /\ Running(t, "noActive")
  /\ IF Active(Seen(t)) # {} THEN Return(t, <<"alreadyEnrolled">>)
     ELSE Proceed(t, txn[t])

(* INSERT INTO totp_pending ... ON CONFLICT (user_id) DO UPDATE            *)
upsertPending(t) ==
  /\ Running(t, "upsertPending")
  /\ Pending(InDoubt(t)) = {}
  /\ Proceed(t, Rewrite(txn[t], Pending(Seen(t)), {PendingRow(txn[t].call.id)}))

(* DELETE FROM totp_pending WHERE user_id AND id RETURNING                 *)
consume(t) ==
  LET row == {PendingRow(txn[t].call.id)} \cap Seen(t) IN
  /\ Running(t, "consume")
  /\ ~AnyLocked(t, row)
  /\ IF row = {} THEN Return(t, <<"notEnrolled">>)
     ELSE Proceed(t, Rewrite(txn[t], row, {}))

(* SELECT last_used_counter; the higher of the two is taken in Go.         *)
prior(t) ==
  /\ Running(t, "prior")
  /\ Proceed(t, [txn[t] EXCEPT !.got = Active(Seen(t))])

(* INSERT INTO totp_active ... ON CONFLICT (user_id) DO UPDATE             *)
promote(t) ==
  LET c == txn[t].call
      new == ActiveRow(c.id, HigherCounter(txn[t].got, c.counter)) IN
  /\ Running(t, "promote")
  /\ Active(InDoubt(t)) = {}
  /\ Proceed(t, [Rewrite(txn[t], Active(Seen(t)), {new}) EXCEPT
                   !.res = <<"ok", new.id, new.last>>])

(* UPDATE totp_active SET last_used_counter WHERE id AND it rises; when    *)
(* nothing matches, refusedSaveError reads why.                            *)
raise(t) ==
  LET c == txn[t].call
      row == {a \in Active(Seen(t)) : a.id = c.id /\ a.last < c.counter} IN
  /\ Running(t, "raise")
  /\ ~AnyLocked(t, row)
  /\ IF row = {} THEN Proceed(t, [txn[t] EXCEPT !.pc = <<"raise", "refusedSave">>])
     ELSE Proceed(t, Rewrite(txn[t], row, {ActiveRow(c.id, c.counter)}))

refusedSaveError(t) ==
  /\ Running(t, "refusedSave")
  /\ Return(t, IF \E a \in Active(Seen(t)) : a.id = txn[t].call.id
                 THEN <<"replayed">> ELSE <<"notEnrolled">>)

deleteActive(t) ==
  /\ Running(t, "deleteActive")
  /\ ~AnyLocked(t, Active(Seen(t)))
  /\ Proceed(t, Rewrite(txn[t], Active(Seen(t)), {}))

deletePending(t) ==
  /\ Running(t, "deletePending")
  /\ ~AnyLocked(t, Pending(Seen(t)))
  /\ Proceed(t, Rewrite(txn[t], Pending(Seen(t)), {}))

Statement(t) ==
  \/ method(t) \/ connect(t) \/ lockUser(t) \/ getActive(t) \/ getPending(t)
  \/ noActive(t) \/ upsertPending(t) \/ consume(t) \/ prior(t) \/ promote(t)
  \/ raise(t) \/ refusedSaveError(t) \/ deleteActive(t) \/ deletePending(t)
  \/ commit(t)

-----------------------------------------------------------------------------

Databases ==
  {{}} \cup {{PendingRow(i)} : i \in Ids} \cup {{ActiveRow(i, 1)} : i \in Ids}
       \cup {{ActiveRow(i, 1), PendingRow(j)} : i, j \in Ids}

=============================================================================
