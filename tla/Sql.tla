-------------------------------- MODULE Sql --------------------------------
(***************************************************************************)
(* What the SQL stores take from their database, and what their callers    *)
(* see of it.  A store method is a program: a sequence of statements run   *)
(* in one transaction.                                                     *)
(*                                                                         *)
(* PostgreSQL, READ COMMITTED: a statement sees the committed rows and the *)
(* transaction's own writes.  A row another transaction has deleted or     *)
(* updated and not yet committed is locked: a statement that would write   *)
(* it waits, then works on the row as committed.  An INSERT waits for an   *)
(* uncommitted row with the same key.  A statement whose condition reads   *)
(* other rows is two entries of the program, the read and the write.       *)
(* pg_advisory_xact_lock is held until the transaction ends.               *)
(*                                                                         *)
(* SQLite: Open limits the pool to one connection, so a method holds the   *)
(* connection from its first statement to its end.                         *)
(*                                                                         *)
(* memstore: a method is one step under the store's mutex.                 *)
(***************************************************************************)
EXTENDS Naturals, Sequences, FiniteSets

CONSTANT Txns      \* calls of store methods

VARIABLES impl,    \* which implementation of the store is running
          db,      \* the committed rows of all tables; key is the primary key
          held,    \* locks: pairs of a transaction and a lock
          txn      \* the state of every transaction

sqlVars == <<impl, db, held, txn>>

Impls == {"memstore", "postgres", "sqlite"}

NoCall == [op |-> "none"]

(* pc is the rest of the program, del and ins the rows that the commit     *)
(* will remove and add, got what a SELECT has returned, visit the keys a   *)
(* DELETE has still to visit, res what the method will return.             *)
Idle == [call |-> NoCall, pc |-> <<>>, del |-> {}, ins |-> {}, got |-> {},
         visit |-> {}, res |-> <<"ok">>]

Put(t, x) == txn' = [txn EXCEPT ![t] = x]

Begin(t, c, program) ==
  /\ txn[t].call = NoCall
  /\ Put(t, [Idle EXCEPT !.call = c, !.pc = program])
  /\ UNCHANGED <<impl, db, held>>

Running(t, statement) == txn[t].pc # <<>> /\ Head(txn[t].pc) = statement

Done(t) == txn[t].call # NoCall /\ txn[t].pc = <<>>

Seen(t) == (db \ txn[t].del) \cup txn[t].ins

-----------------------------------------------------------------------------
(* The end of a statement or of a transaction.                             *)

(* The statement has written: old rows out, new rows in.                   *)
Rewrite(x, old, new) ==
  [x EXCEPT !.del = @ \cup (old \cap db), !.ins = (@ \ old) \cup new]

Proceed(t, x) ==
  /\ Put(t, [x EXCEPT !.pc = Tail(@)])
  /\ UNCHANGED <<impl, db, held>>

End(t, rows, res) ==
  /\ db' = rows
  /\ held' = {h \in held : h[1] # t}
  /\ Put(t, [Idle EXCEPT !.call = txn[t].call, !.res = res])
  /\ UNCHANGED impl

(* The method returns without writing: the deferred rollback ends the      *)
(* transaction and frees its locks.                                        *)
MutReturn(t, res) ==
  /\ Put(t, [Idle EXCEPT !.call = txn[t].call, !.res = res])
  /\ UNCHANGED <<impl, db, held>>

Return(t, res) == End(t, db, res)

commit(t) == Running(t, "commit") /\ End(t, Seen(t), txn[t].res)

(* A statement fails, the context is cancelled, the transaction is the     *)
(* victim of a lock cycle, or the answer to the commit is lost.            *)
Fail(t) ==
  /\ txn[t].pc # <<>>
  /\ \/ End(t, db, <<"err">>)
     \/ Running(t, "commit") /\ End(t, Seen(t), <<"err">>)

-----------------------------------------------------------------------------
(* Waiting.                                                                *)

Acquire(t, lock) ==
  /\ \A h \in held : h[2] # lock
  /\ held' = held \cup {<<t, lock>>}
  /\ Put(t, [txn[t] EXCEPT !.pc = Tail(@)])
  /\ UNCHANGED <<impl, db>>

connect(t) == Running(t, "connect") /\ Acquire(t, <<"conn">>)

RowLocked(t, row) == \E s \in Txns \ {t} : row \in txn[s].del

AnyLocked(t, rows) == \E row \in rows : RowLocked(t, row)

(* Uncommitted rows of others, and the versions they replace.              *)
InDoubt(t) == UNION {txn[s].del \cup txn[s].ins : s \in Txns \ {t}}

-----------------------------------------------------------------------------
(* DELETE of several rows: the rows its snapshot matches are visited one   *)
(* by one, in any order; a row that another transaction holds is waited    *)
(* for, and one that no longer matches is passed over.                     *)

Snapshot(t, matching) ==
  /\ Running(t, "snapshot")
  /\ Proceed(t, [txn[t] EXCEPT !.visit = {r.key : r \in matching}])

MutDeleteEach(t, matching) ==
  /\ Running(t, "deleteEach")
  /\ \/ \E k \in txn[t].visit :
          LET row == {r \in matching : r.key = k /\ ~RowLocked(t, r)} IN
          /\ Put(t, [Rewrite(txn[t], row, {}) EXCEPT !.visit = @ \ {k}])
          /\ UNCHANGED <<impl, db, held>>
     \/ txn[t].visit = {} /\ Proceed(t, txn[t])

DeleteEach(t, matching) ==
  /\ Running(t, "deleteEach")
  /\ \/ \E k \in txn[t].visit :
          LET row == {r \in matching : r.key = k} IN
          /\ ~AnyLocked(t, row)
          /\ Put(t, [Rewrite(txn[t], row, {}) EXCEPT !.visit = @ \ {k}])
          /\ UNCHANGED <<impl, db, held>>
     \/ txn[t].visit = {} /\ Proceed(t, txn[t])

-----------------------------------------------------------------------------
(* What the callers have seen, for the comparison with AtomicStore.        *)

Outcome == [t \in Txns |-> IF Done(t) THEN <<txn[t].call, txn[t].res>> ELSE <<>>]

=============================================================================
