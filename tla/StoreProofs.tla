---------------------------- MODULE StoreProofs ----------------------------
(***************************************************************************)
(* The TOTP stores implement the contract of totp.Store: for any number of *)
(* concurrent calls, credential ids and counters, on the in-memory store,  *)
(* PostgreSQL and SQLite.                                                  *)
(***************************************************************************)
EXTENDS SqlTotp, TLAPS

-----------------------------------------------------------------------------
(* The store under any number of calls, and what it is to implement.       *)

Rows == {ActiveRow(i, n) : i \in Ids, n \in Nat} \cup {PendingRow(i) : i \in Ids}

(* user_id is the primary key of either table.                             *)
WellFormed(rows) ==
  /\ rows \subseteq Rows
  /\ \A a, b \in Active(rows) : a = b
  /\ \A p, q \in Pending(rows) : p = q

Init ==
  /\ impl \in Impls /\ WellFormed(db)
  /\ held = {} /\ txn = [t \in Txns |-> Idle]

Next ==
  \E t \in Txns :
    \/ \E c \in Call : Begin(t, c, Program(c.op))
    \/ Statement(t)
    \/ Fail(t)

Spec == Init /\ [][Next]_sqlVars

Contract ==
  INSTANCE AtomicStore WITH Calls <- Call, rows <- db, out <- Outcome

-----------------------------------------------------------------------------
(* The inductive invariant.                                                *)

(* What excludes the others: the user's advisory lock, or SQLite's only    *)
(* connection.                                                             *)
Lock == IF impl = "sqlite" THEN <<"conn">> ELSE <<"totp", "u">>

Clean(x) == x.del = {} /\ x.ins = {} /\ x.res = <<"ok">>

(* Where a method may stand that has the lock, and what it has done and    *)
(* found out so far.                                                       *)
Reading(x) ==
  /\ Clean(x)
  /\ \/ x.call.op = "GetActiveTOTP" /\ x.pc = <<"getActive">>
     \/ x.call.op = "GetPendingTOTP" /\ x.pc = <<"getPending">>

Enrolling(x) ==
  /\ Clean(x)
  /\ \/ x.call.op = "EnrollPending" /\ x.pc = <<"noActive", "upsertPending", "commit">>
     \/ /\ x.call.op \in {"EnrollPending", "ReplacePending"}
        /\ x.pc = <<"upsertPending", "commit">>
        /\ x.call.op = "EnrollPending" => Active(db) = {}

Confirming(x) ==
  /\ x.call.op = "ConfirmEnrollment" /\ x.ins = {} /\ x.res = <<"ok">>
  /\ \/ x.pc = <<"consume", "prior", "promote", "commit">> /\ x.del = {}
     \/ /\ x.pc \in {<<"prior", "promote", "commit">>, <<"promote", "commit">>}
        /\ x.del = {PendingRow(x.call.id)} /\ PendingRow(x.call.id) \in db
        /\ x.pc = <<"promote", "commit">> => x.got = Active(db)

Saving(x) ==
  /\ x.call.op = "SaveTOTP" /\ Clean(x)
  /\ \/ x.pc = <<"raise", "commit">>
     \/ /\ x.pc = <<"refusedSave">>
        /\ \A a \in Active(db) : a.id = x.call.id => ~(a.last < x.call.counter)

Deleting(x) ==
  /\ x.call.op = "DeleteTOTP" /\ x.ins = {} /\ x.res = <<"ok">>
  /\ \/ x.pc = <<"deleteActive", "deletePending", "commit">> /\ x.del = {}
     \/ x.pc = <<"deletePending", "commit">> /\ x.del = Active(db)

(* About to commit: the rows and the result are what the contract makes of *)
(* the rows as they are.                                                   *)
Committing(x) ==
  /\ x.pc = <<"commit">>
  /\ Method(x.call, db) = Ret((db \ x.del) \cup x.ins, x.res)

Locked(x) ==
  Reading(x) \/ Enrolling(x) \/ Confirming(x) \/ Saving(x) \/ Deleting(x) \/ Committing(x)

Waiting(x) == Clean(x) /\ x.pc = Program(x.call.op)

Txn(t) ==
  \/ txn[t].pc = <<>>
  \/ txn[t].call \in Call /\ Waiting(txn[t])
  \/ /\ txn[t].call \in Call /\ Locked(txn[t])
     /\ impl # "memstore" /\ <<t, Lock>> \in held

State(call, pc, del, ins, got, visit, res) ==
  [call |-> call, pc |-> pc, del |-> del, ins |-> ins, got |-> got, visit |-> visit,
   res |-> res]

Shape(x) == x = State(x.call, x.pc, x.del, x.ins, x.got, x.visit, x.res)

Inv ==
  /\ impl \in Impls /\ WellFormed(db)
  /\ txn = [t \in Txns |-> txn[t]] /\ \A t \in Txns : Shape(txn[t])
  /\ \A h, g \in held : h = g
  /\ \A h \in held : h[2] = Lock
  /\ \A t \in Txns : Txn(t)

-----------------------------------------------------------------------------
(* The contract, method by method.                                         *)

(* What a call carries.                                                    *)
LEMMA CallFields ==
  ASSUME NEW c \in Call
  PROVE  /\ c # NoCall
         /\ c.op \in {"GetActiveTOTP", "GetPendingTOTP", "DeleteTOTP", "EnrollPending",
                      "ReplacePending", "ConfirmEnrollment", "SaveTOTP"}
         /\ c.op \in {"EnrollPending", "ReplacePending", "ConfirmEnrollment", "SaveTOTP"} => c.id \in Ids
         /\ c.op \in {"ConfirmEnrollment", "SaveTOTP"} => c.counter \in Nat
BY DEF Call, NoCall, Counters

(* Which method a call is of.                                              *)
LEMMA MethodOf ==
  ASSUME NEW c \in Call, NEW rows
  PROVE  /\ c.op = "GetActiveTOTP" => Method(c, rows) = GetActiveTOTP(rows)
         /\ c.op = "GetPendingTOTP" => Method(c, rows) = GetPendingTOTP(rows)
         /\ c.op = "EnrollPending" => Method(c, rows) = EnrollPending(rows, c.id)
         /\ c.op = "ReplacePending" => Method(c, rows) = ReplacePending(rows, c.id)
         /\ c.op = "ConfirmEnrollment" => Method(c, rows) = ConfirmEnrollment(rows, c.id, c.counter)
         /\ c.op = "SaveTOTP" => Method(c, rows) = SaveTOTP(rows, c.id, c.counter)
         /\ c.op = "DeleteTOTP" => Method(c, rows) = DeleteTOTP(rows)
BY DEF Method

(* What a method returns.                                                  *)
LEMMA RetFields ==
  \A rows, res : Ret(rows, res).rows = rows /\ Ret(rows, res).res = res
BY DEF Ret

(* The fields of the rows.                                                 *)
LEMMA RowFields ==
  ASSUME NEW i, NEW n
  PROVE  /\ ActiveRow(i, n).table = "totp_active" /\ ActiveRow(i, n).id = i
         /\ ActiveRow(i, n).last = n
         /\ PendingRow(i).table = "totp_pending" /\ PendingRow(i).id = i
BY DEF ActiveRow, PendingRow

(* A row of either table is what its fields say.                           *)
LEMMA RowIs ==
  ASSUME NEW r \in Rows
  PROVE  /\ r.table = "totp_active" => r.id \in Ids /\ r.last \in Nat /\ r = ActiveRow(r.id, r.last)
         /\ r.table = "totp_pending" => r.id \in Ids /\ r = PendingRow(r.id)
         /\ r.table \in {"totp_active", "totp_pending"}
<1>1. ASSUME NEW i \in Ids, NEW n \in Nat, r = ActiveRow(i, n)
      PROVE  r.table = "totp_active" /\ r.id = i /\ r.last = n
  BY <1>1 DEF ActiveRow
<1>2. ASSUME NEW i \in Ids, r = PendingRow(i)
      PROVE  r.table = "totp_pending" /\ r.id = i
  BY <1>2 DEF PendingRow
<1>3. (\E i \in Ids, n \in Nat : r = ActiveRow(i, n)) \/ (\E i \in Ids : r = PendingRow(i))
  BY DEF Rows
<1>4. QED
  BY <1>1, <1>2, <1>3

(* Every method keeps a row a table at most.                               *)
LEMMA MethodWellFormed ==
  ASSUME NEW c \in Call, NEW rows, WellFormed(rows)
  PROVE  WellFormed(Method(c, rows).rows)
<1>1. CASE c.op \in {"GetActiveTOTP", "GetPendingTOTP"}
  <2>1. GetActiveTOTP(rows).rows = rows /\ GetPendingTOTP(rows).rows = rows
    BY RetFields, Zenon DEF GetActiveTOTP, GetPendingTOTP
  <2>2. QED
    BY <1>1, <2>1, MethodOf
<1>2. CASE c.op \in {"EnrollPending", "ReplacePending"}
  <2>1. c.id \in Ids
    BY <1>2, CallFields
  <2>2. WellFormed(setPendingLocked(rows, c.id))
    BY <2>1, RowFields DEF WellFormed, setPendingLocked, Rows, Active, Pending
  <2>3. QED
    BY <1>2, <2>2, MethodOf DEF EnrollPending, ReplacePending, Ret
<1>3. CASE c.op = "ConfirmEnrollment"
  <2>1. c.id \in Ids /\ c.counter \in Nat
    BY <1>3, CallFields
  <2>2. HigherCounter(rows, c.counter) \in Nat
    BY <2>1, RowIs DEF HigherCounter, WellFormed, Active
  <2>3. PICK n \in Nat : n = HigherCounter(rows, c.counter)
    BY <2>2
  <2>4. WellFormed((rows \ (Active(rows) \cup Pending(rows))) \cup {ActiveRow(c.id, n)})
    BY <2>1, RowFields DEF WellFormed, Rows, Active, Pending
  <2>5. QED
    BY <1>3, <2>3, <2>4, MethodOf DEF ConfirmEnrollment, Ret
<1>4. CASE c.op = "SaveTOTP"
  <2>1. c.id \in Ids /\ c.counter \in Nat
    BY <1>4, CallFields
  <2>2. WellFormed((rows \ Active(rows)) \cup {ActiveRow(c.id, c.counter)})
    BY <2>1, RowFields DEF WellFormed, Rows, Active, Pending
  <2>3. QED
    BY <1>4, <2>2, MethodOf DEF SaveTOTP, Ret
<1>5. CASE c.op = "DeleteTOTP"
  BY <1>5, MethodOf DEF DeleteTOTP, Ret, WellFormed, Active, Pending
<1>6. QED
  BY <1>1, <1>2, <1>3, <1>4, <1>5, CallFields

-----------------------------------------------------------------------------
(* How a transaction moves.                                                *)

(* The programs.                                                           *)
LEMMA ProgramIs ==
  ASSUME NEW c \in Call, impl \in Impls
  PROVE  \/ impl = "memstore" /\ Program(c.op) = <<"method">>
         \/ impl = "postgres" /\ c.op = "GetActiveTOTP" /\ Program(c.op) = <<"getActive">>
         \/ impl = "postgres" /\ c.op = "GetPendingTOTP" /\ Program(c.op) = <<"getPending">>
         \/ /\ impl = "postgres"
            /\ \/ /\ c.op = "EnrollPending"
                  /\ Program(c.op) = <<"lockUser", "noActive", "upsertPending", "commit">>
               \/ c.op = "ReplacePending" /\ Program(c.op) = <<"lockUser", "upsertPending", "commit">>
               \/ /\ c.op = "ConfirmEnrollment"
                  /\ Program(c.op) = <<"lockUser", "consume", "prior", "promote", "commit">>
               \/ c.op = "SaveTOTP" /\ Program(c.op) = <<"lockUser", "raise", "commit">>
               \/ /\ c.op = "DeleteTOTP"
                  /\ Program(c.op) = <<"lockUser", "deleteActive", "deletePending", "commit">>
         \/ /\ impl = "sqlite"
            /\ \/ c.op = "GetActiveTOTP" /\ Program(c.op) = <<"connect", "getActive">>
               \/ c.op = "GetPendingTOTP" /\ Program(c.op) = <<"connect", "getPending">>
               \/ /\ c.op = "EnrollPending"
                  /\ Program(c.op) = <<"connect", "noActive", "upsertPending", "commit">>
               \/ c.op = "ReplacePending" /\ Program(c.op) = <<"connect", "upsertPending", "commit">>
               \/ /\ c.op = "ConfirmEnrollment"
                  /\ Program(c.op) = <<"connect", "consume", "prior", "promote", "commit">>
               \/ c.op = "SaveTOTP" /\ Program(c.op) = <<"connect", "raise", "commit">>
               \/ /\ c.op = "DeleteTOTP"
                  /\ Program(c.op) = <<"connect", "deleteActive", "deletePending", "commit">>
<1>1. CASE impl = "memstore"
  BY <1>1 DEF Program
<1>2. CASE impl = "postgres"
  BY <1>2, CallFields DEF Program, PgGetActiveTOTP, PgGetPendingTOTP, PgEnrollPending,
     PgReplacePending, PgConfirmEnrollment, PgSaveTOTP, PgDeleteTOTP, lockedExec
<1>3. CASE impl = "sqlite"
  BY <1>3, CallFields DEF Program, SqliteGetActiveTOTP, SqliteGetPendingTOTP,
     SqliteEnrollPending, SqliteReplacePending, SqliteConfirmEnrollment, SqliteSaveTOTP,
     SqliteDeleteTOTP
<1>4. QED
  BY <1>1, <1>2, <1>3 DEF Impls

(* No program is empty, and it begins with the lock, the one statement of  *)
(* a method that reads, or the one step of the in-memory store.            *)
LEMMA ProgramHead ==
  ASSUME NEW c \in Call, impl \in Impls
  PROVE  /\ Program(c.op) # <<>>
         /\ Head(Program(c.op)) \in {"method", "getActive", "getPending", "lockUser", "connect"}
         /\ Head(Program(c.op)) = "method" <=> impl = "memstore"
         /\ Head(Program(c.op)) = "connect" <=> impl = "sqlite"
         /\ Head(Program(c.op)) = "getActive" => c.op = "GetActiveTOTP"
         /\ Head(Program(c.op)) = "getPending" => c.op = "GetPendingTOTP"
BY ProgramIs

(* A transaction at a statement that is not the first of its program has   *)
(* the lock.                                                               *)
LEMMA HasLock ==
  ASSUME Inv, NEW t \in Txns, NEW s, Running(t, s),
         s \notin {"method", "getActive", "getPending", "lockUser", "connect"}
  PROVE  /\ txn[t].call \in Call /\ Locked(txn[t])
         /\ impl # "memstore" /\ <<t, Lock>> \in held
<1>1. txn[t].call \in Call => ~Waiting(txn[t])
  BY ProgramHead, Zenon DEF Inv, Waiting, Running
<1>2. QED
  BY <1>1 DEF Inv, Txn, Running

(* The updates of a transaction's state, one by one.                       *)
LEMMA StateFields ==
  ASSUME NEW c, NEW p, NEW d, NEW i, NEW g, NEW v, NEW r, NEW x, x = State(c, p, d, i, g, v, r)
  PROVE  /\ x.call = c /\ x.pc = p /\ x.del = d /\ x.ins = i /\ x.got = g /\ x.visit = v
         /\ x.res = r /\ Shape(x)
BY DEF State, Shape

(* A field of a transaction assigned alone leaves the others as they were. *)
LEMMA SetField ==
  ASSUME NEW x, Shape(x), NEW y
  PROVE  /\ [x EXCEPT !.call = y] = State(y, x.pc, x.del, x.ins, x.got, x.visit, x.res)
         /\ [x EXCEPT !.pc = y] = State(x.call, y, x.del, x.ins, x.got, x.visit, x.res)
         /\ [x EXCEPT !.del = y] = State(x.call, x.pc, y, x.ins, x.got, x.visit, x.res)
         /\ [x EXCEPT !.ins = y] = State(x.call, x.pc, x.del, y, x.got, x.visit, x.res)
         /\ [x EXCEPT !.got = y] = State(x.call, x.pc, x.del, x.ins, y, x.visit, x.res)
         /\ [x EXCEPT !.res = y] = State(x.call, x.pc, x.del, x.ins, x.got, x.visit, y)
<1>1. PICK c, p, d, i, g, v, r : x = State(c, p, d, i, g, v, r)
  BY DEF Shape
<1>2. x.call = c /\ x.pc = p /\ x.del = d /\ x.ins = i /\ x.got = g /\ x.visit = v /\ x.res = r
  BY <1>1 DEF State
<1>3. [x EXCEPT !.call = y] = State(y, p, d, i, g, v, r)
  BY <1>1 DEF State
<1>4. [x EXCEPT !.pc = y] = State(c, y, d, i, g, v, r)
  BY <1>1 DEF State
<1>5. [x EXCEPT !.del = y] = State(c, p, y, i, g, v, r)
  BY <1>1 DEF State
<1>6. [x EXCEPT !.ins = y] = State(c, p, d, y, g, v, r)
  BY <1>1 DEF State
<1>7. [x EXCEPT !.got = y] = State(c, p, d, i, y, v, r)
  BY <1>1 DEF State
<1>8. [x EXCEPT !.res = y] = State(c, p, d, i, g, v, y)
  BY <1>1 DEF State
<1>9. QED
  BY <1>2, <1>3, <1>4, <1>5, <1>6, <1>7, <1>8, Zenon

(* A transaction that begins, and one that has ended.                      *)
LEMMA FromIdle ==
  ASSUME NEW c, NEW y
  PROVE  /\ [Idle EXCEPT !.call = c, !.pc = y] = State(c, y, {}, {}, {}, {}, <<"ok">>)
         /\ [Idle EXCEPT !.call = c, !.res = y] = State(c, <<>>, {}, {}, {}, {}, y)
<1>1. PICK e, o, k : e = {} /\ o = <<>> /\ k = <<"ok">>
  BY Zenon
<1>2. Idle = State(NoCall, o, e, e, e, e, k)
  BY <1>1, Zenon DEF Idle, State
<1>3. PICK x : x = [Idle EXCEPT !.call = c]
  BY Zenon
<1>4. x = State(c, o, e, e, e, e, k)
  BY <1>2, <1>3 DEF State
<1>5. [x EXCEPT !.pc = y] = State(c, y, e, e, e, e, k)
  BY <1>4 DEF State
<1>6. [x EXCEPT !.res = y] = State(c, o, e, e, e, e, y)
  BY <1>4 DEF State
<1>7. QED
  BY <1>1, <1>3, <1>5, <1>6, Zenon

(* What a statement that writes leaves for the commit.                     *)
LEMMA Rewritten ==
  ASSUME NEW x, Shape(x), NEW old, NEW new
  PROVE  Rewrite(x, old, new) =
           State(x.call, x.pc, x.del \cup (old \cap db), (x.ins \ old) \cup new, x.got, x.visit,
                 x.res)
<1>1. PICK d : d = x.del \cup (old \cap db)
  BY Zenon
<1>2. PICK i : i = (x.ins \ old) \cup new
  BY Zenon
<1>3. Rewrite(x, old, new) = [[x EXCEPT !.del = d] EXCEPT !.ins = i]
  BY <1>1, <1>2 DEF State, Rewrite, Shape
<1>4. PICK y : y = [x EXCEPT !.del = d]
  BY Zenon
<1>5. y = State(x.call, x.pc, d, x.ins, x.got, x.visit, x.res)
  BY <1>4, SetField, Zenon
<1>6. [y EXCEPT !.ins = i] = State(x.call, x.pc, d, i, x.got, x.visit, x.res)
  BY <1>5 DEF State
<1>7. QED
  BY <1>1, <1>2, <1>3, <1>4, <1>6, Zenon

(* A transaction that stands somewhere under the lock stands there as long *)
(* as the rows stay what they are.                                         *)
LEMMA LockedStays ==
  ASSUME NEW s \in Txns, NEW x, Locked(x), txn'[s] = x, db' = db
  PROVE  Locked(txn[s])'
<1>1. CASE Reading(x)
  BY <1>1, Zenon DEF Locked, Reading, Clean
<1>2. CASE Enrolling(x)
  BY <1>2, Zenon DEF Locked, Enrolling, Clean
<1>3. CASE Confirming(x)
  BY <1>3, Zenon DEF Locked, Confirming
<1>4. CASE Saving(x)
  BY <1>4, Zenon DEF Locked, Saving, Clean
<1>5. CASE Deleting(x)
  BY <1>5, Zenon DEF Locked, Deleting
<1>6. CASE Committing(x)
  BY <1>6, Zenon DEF Locked, Committing
<1>7. QED
  BY <1>1, <1>2, <1>3, <1>4, <1>5, <1>6, Zenon DEF Locked

(* A step of t leaves every other transaction as it stands: it changes the *)
(* rows only under the lock, which the other does not have then.           *)
LEMMA OthersStay ==
  ASSUME Inv, NEW t \in Txns, NEW s \in Txns, s # t, txn'[s] = txn[s], impl' = impl,
         <<s, Lock>> \in held => <<s, Lock>> \in held',
         db' = db \/ impl = "memstore" \/ <<t, Lock>> \in held
  PROVE  Txn(s)'
<1>1. Lock' = Lock /\ \A op : Program(op)' = Program(op)
  BY DEF Lock, Program
<1>2. CASE txn[s].pc = <<>>
  BY <1>2 DEF Txn
<1>3. CASE txn[s].call \in Call /\ Waiting(txn[s])
  BY <1>1, <1>3 DEF Txn, Waiting
<1>4. CASE /\ txn[s].call \in Call /\ Locked(txn[s])
           /\ impl # "memstore" /\ <<s, Lock>> \in held
  <2>1. db' = db
    BY <1>4 DEF Inv
  <2>2. Locked(txn[s])'
    <3>1. PICK x : x = txn[s]
      BY Zenon
    <3>2. Locked(x) /\ txn'[s] = x
      BY <1>4, <3>1, Zenon
    <3>3. QED
      BY <2>1, <3>2, LockedStays, Zenon
  <2>3. QED
    BY <1>1, <1>4, <2>2 DEF Txn
<1>5. QED
  BY <1>2, <1>3, <1>4 DEF Inv, Txn

(* So the invariant survives a step if t is fine after it.                 *)
LEMMA MoveStep ==
  ASSUME Inv, NEW t \in Txns, NEW z, Put(t, z), Shape(z), impl' = impl, WellFormed(db'),
         \A s \in Txns \ {t} : <<s, Lock>> \in held => <<s, Lock>> \in held',
         \A h, g \in held' : h = g, \A h \in held' : h[2] = Lock,
         db' = db \/ impl = "memstore" \/ <<t, Lock>> \in held,
         Txn(t)'
  PROVE  Inv'
<1>1. txn' = [s \in Txns |-> IF s = t THEN z ELSE txn[s]]
  BY DEF Inv, Put
<1>2. \A s \in Txns : Shape(txn'[s])
  BY <1>1 DEF Inv
<1>3. ASSUME NEW s \in Txns
      PROVE  Txn(s)'
  <2>1. CASE s = t
    BY <2>1
  <2>2. CASE s # t
    BY <1>1, <2>2, OthersStay, Zenon
  <2>3. QED
    BY <2>1, <2>2
<1>4. txn' = [s \in Txns |-> txn'[s]]
  BY <1>1
<1>5. (\A s \in Txns : Shape(txn[s]))'
  BY <1>2 DEF Shape
<1>6. Lock' = Lock
  BY DEF Lock
<1>7. QED
  BY <1>3, <1>4, <1>5, <1>6 DEF Inv

(* What the callers see changes when a call returns, and not before.       *)
LEMMA Unseen ==
  ASSUME Inv, NEW t \in Txns, NEW z, Put(t, z), ~Done(t), z.pc # <<>>
  PROVE  Outcome' = Outcome
<1>1. txn' = [s \in Txns |-> IF s = t THEN z ELSE txn[s]]
  BY DEF Inv, Put
<1>2. \A s \in Txns : Outcome'[s] = Outcome[s]
  BY <1>1 DEF Outcome, Done
<1>3. QED
  BY <1>2 DEF Outcome, Done

(* t has taken a statement and stands at the next one.                     *)
LEMMA ProceedStep ==
  ASSUME Inv, NEW t \in Txns, txn[t].pc # <<>>, impl # "memstore", <<t, Lock>> \in held,
         NEW y, Proceed(t, y), Shape(y), y.call \in Call, NEW z,
         z = State(y.call, Tail(y.pc), y.del, y.ins, y.got, y.visit, y.res),
         z.pc # <<>>, Locked(z)
  PROVE  Inv' /\ UNCHANGED <<db, Outcome>>
<1>1. Put(t, z) /\ impl' = impl /\ db' = db /\ held' = held
  BY SetField, Zenon DEF Proceed
<1>2. txn'[t] = z /\ Shape(z) /\ z.call \in Call
  BY <1>1, StateFields DEF Put, Inv
<1>3. Lock' = Lock
  BY <1>1 DEF Lock
<1>4. Locked(txn[t])'
  BY <1>1, <1>2, LockedStays, Zenon
<1>5. Txn(t)'
  BY <1>1, <1>2, <1>3, <1>4 DEF Txn
<1>6. Inv'
  BY <1>1, <1>2, <1>5, MoveStep DEF Inv
<1>7. QED
  BY <1>1, <1>6, Unseen, Zenon DEF Done

(* t returns, having done what the contract asks for at this moment, or an *)
(* error of the database and perhaps nothing else.                         *)
LEMMA EndStep ==
  ASSUME Inv, NEW t \in Txns, txn[t].call \in Call, txn[t].pc # <<>>,
         NEW rows, NEW res, End(t, rows, res),
         rows = db \/ impl = "memstore" \/ <<t, Lock>> \in held,
         LET m == Method(txn[t].call, db) IN
           \/ rows = m.rows /\ res = m.res
           \/ rows \in {db, m.rows} /\ res = <<"err">>
  PROVE  Inv' /\ Contract!Next
<1> DEFINE c == txn[t].call
           z == [Idle EXCEPT !.call = c, !.res = res]
<1>1. Put(t, z) /\ impl' = impl /\ db' = rows /\ held' = {h \in held : h[1] # t}
  BY DEF End
<1>2. z = State(c, <<>>, {}, {}, {}, {}, res)
  BY FromIdle, Zenon
<1>3. Shape(z) /\ z.pc = <<>> /\ z.call = c /\ z.res = res
  BY <1>2, Zenon DEF State, Shape
<1> HIDE DEF z, c
<1>4. txn'[t] = z
  BY <1>1 DEF Put, Inv
<1>5. Inv'
  <2>1. WellFormed(db')
    BY <1>1, MethodWellFormed DEF Inv
  <2>2. Txn(t)'
    BY <1>3, <1>4 DEF Txn
  <2>3. QED
    BY <1>1, <1>3, <2>1, <2>2, MoveStep DEF Inv
<1>6. c \in Call /\ c # NoCall
  BY CallFields DEF c
<1>7. Outcome' = [Outcome EXCEPT ![t] = <<c, res>>] /\ Outcome[t] = <<>>
  <2>1. txn' = [s \in Txns |-> IF s = t THEN z ELSE txn[s]]
    BY <1>1 DEF Inv, Put
  <2>2. QED
    BY <1>3, <1>6, <2>1, Zenon DEF Outcome, Done
<1>8. Outcome'[t] = <<c, res>> /\ Outcome'[t] # <<>> /\ Outcome'[t][1] = c
  BY <1>7 DEF Outcome, Done
<1>9. Contract!Perform(t, c) \/ Contract!Lose(t, c)
  BY <1>1, <1>7, Zenon DEF Contract!Perform, Contract!Lose, Contract!Err, c
<1>10. Contract!Next
  BY <1>6, <1>7, <1>8, <1>9, Zenon DEF Contract!Next
<1>11. QED
  BY <1>5, <1>10

-----------------------------------------------------------------------------
(* One statement after the other.                                          *)

(* What a transaction that has the lock has done before each statement.    *)
LEMMA Stands ==
  ASSUME NEW x, Locked(x), x.pc # <<>>
  PROVE  /\ Head(x.pc) = "noActive" =>
              /\ Clean(x) /\ x.call.op = "EnrollPending"
              /\ x.pc = <<"noActive", "upsertPending", "commit">>
         /\ Head(x.pc) = "upsertPending" =>
              /\ Clean(x) /\ x.call.op \in {"EnrollPending", "ReplacePending"}
              /\ x.pc = <<"upsertPending", "commit">>
              /\ x.call.op = "EnrollPending" => Active(db) = {}
         /\ Head(x.pc) \in {"consume", "prior", "promote"} => Confirming(x)
         /\ Head(x.pc) \in {"raise", "refusedSave"} => Saving(x)
         /\ Head(x.pc) \in {"deleteActive", "deletePending"} => Deleting(x)
         /\ Head(x.pc) = "commit" => Committing(x)
         /\ Head(x.pc) \in {"getActive", "getPending"} => Reading(x)
         /\ Head(x.pc) \notin {"method", "lockUser", "connect"}
<1>1. CASE Reading(x)
  BY <1>1 DEF Reading
<1>2. CASE Enrolling(x)
  BY <1>2 DEF Enrolling
<1>3. CASE Confirming(x)
  BY <1>3 DEF Confirming
<1>4. CASE Saving(x)
  BY <1>4 DEF Saving
<1>5. CASE Deleting(x)
  BY <1>5 DEF Deleting
<1>6. CASE Committing(x)
  BY <1>6 DEF Committing
<1>7. QED
  BY <1>1, <1>2, <1>3, <1>4, <1>5, <1>6 DEF Locked

(* What t sees before it has written anything.                             *)
LEMMA CleanSeen ==
  ASSUME NEW t \in Txns, Clean(txn[t])
  PROVE  Seen(t) = db
BY DEF Clean, Seen

(* A method begins: its caller sees nothing of it.                         *)
LEMMA BeginStep ==
  ASSUME Inv, NEW t \in Txns, NEW c \in Call, Begin(t, c, Program(c.op))
  PROVE  Inv' /\ UNCHANGED <<db, Outcome>>
<1>1. PICK p : p = Program(c.op)
  BY Zenon
<1>2. PICK z : z = State(c, p, {}, {}, {}, {}, <<"ok">>)
  BY Zenon
<1>3. Put(t, z) /\ impl' = impl /\ db' = db /\ held' = held /\ txn[t].call = NoCall
  BY <1>1, <1>2, FromIdle, Zenon DEF Begin
<1>4. z.call = c /\ z.pc = p /\ Clean(z) /\ Shape(z)
  BY <1>2 DEF State, Shape, Clean
<1>5. p # <<>>
  BY <1>1, ProgramHead DEF Inv
<1>6. Program(c.op)' = Program(c.op)
  BY <1>3 DEF Program
<1>7. txn'[t] = z
  BY <1>3 DEF Put, Inv
<1>8. Txn(t)'
  BY <1>1, <1>4, <1>6, <1>7 DEF Txn, Waiting
<1>9. Inv'
  BY <1>3, <1>4, <1>8, MoveStep DEF Inv
<1>10. QED
  BY <1>3, <1>4, <1>5, <1>9, Unseen, Zenon DEF Done

(* The in-memory store: the method is one step.                            *)
LEMMA MethodStep ==
  ASSUME Inv, NEW t \in Txns, method(t)
  PROVE  Inv' /\ Contract!Next
<1>1. txn[t].pc # <<>> /\ Head(txn[t].pc) = "method"
  BY DEF method, Running
<1>2. txn[t].call \in Call /\ Waiting(txn[t])
  BY <1>1, Stands, Zenon DEF Inv, Txn
<1>3. impl = "memstore"
  BY <1>1, <1>2, ProgramHead DEF Inv, Waiting
<1>4. PICK rows, res : rows = Method(txn[t].call, db).rows /\ res = Method(txn[t].call, db).res
  BY Zenon
<1>5. End(t, rows, res)
  BY <1>4, Zenon DEF method
<1>6. QED
  BY <1>1, <1>2, <1>3, <1>4, <1>5, EndStep

(* Taking the first statement off a program.                               *)
LEMMA Tails ==
  ASSUME NEW f
  PROVE  /\ Head(<<"getActive">>) = "getActive" /\ Head(<<"getPending">>) = "getPending"
         /\ Tail(<<f, "getActive">>) = <<"getActive">>
         /\ Tail(<<f, "getPending">>) = <<"getPending">>
         /\ Tail(<<f, "noActive", "upsertPending", "commit">>) = <<"noActive", "upsertPending", "commit">>
         /\ Tail(<<f, "upsertPending", "commit">>) = <<"upsertPending", "commit">>
         /\ Tail(<<f, "consume", "prior", "promote", "commit">>) = <<"consume", "prior", "promote", "commit">>
         /\ Tail(<<f, "raise", "commit">>) = <<"raise", "commit">>
         /\ Tail(<<f, "deleteActive", "deletePending", "commit">>) = <<"deleteActive", "deletePending", "commit">>
OBVIOUS

(* What is left of the programs once the lock is taken.                    *)
LEMMA ProgramTail ==
  ASSUME NEW c \in Call, impl \in Impls, Head(Program(c.op)) \in {"lockUser", "connect"}
  PROVE  \/ c.op = "GetActiveTOTP" /\ Tail(Program(c.op)) = <<"getActive">>
         \/ c.op = "GetPendingTOTP" /\ Tail(Program(c.op)) = <<"getPending">>
         \/ c.op = "EnrollPending" /\ Tail(Program(c.op)) = <<"noActive", "upsertPending", "commit">>
         \/ c.op = "ReplacePending" /\ Tail(Program(c.op)) = <<"upsertPending", "commit">>
         \/ /\ c.op = "ConfirmEnrollment"
            /\ Tail(Program(c.op)) = <<"consume", "prior", "promote", "commit">>
         \/ c.op = "SaveTOTP" /\ Tail(Program(c.op)) = <<"raise", "commit">>
         \/ c.op = "DeleteTOTP" /\ Tail(Program(c.op)) = <<"deleteActive", "deletePending", "commit">>
<1>1. PICK p : p = Program(c.op)
  BY Zenon
<1>2. Head(p) \in {"lockUser", "connect"}
  BY <1>1, Zenon
<1>3. CASE c.op = "GetActiveTOTP"
  <2>1. p = <<"getActive">> \/ p = <<"lockUser", "getActive">> \/ p = <<"connect", "getActive">>
    BY <1>1, <1>3, ProgramIs
  <2>2. Tail(p) = <<"getActive">>
    BY <1>2, <2>1, Tails, Zenon
  <2>3. QED
    BY <1>1, <1>3, <2>2, Zenon
<1>4. CASE c.op = "GetPendingTOTP"
  <2>1. p = <<"getPending">> \/ p = <<"lockUser", "getPending">> \/ p = <<"connect", "getPending">>
    BY <1>1, <1>4, ProgramIs
  <2>2. Tail(p) = <<"getPending">>
    BY <1>2, <2>1, Tails, Zenon
  <2>3. QED
    BY <1>1, <1>4, <2>2, Zenon
<1>5. CASE c.op = "EnrollPending"
  <2>1. p = <<"lockUser", "noActive", "upsertPending", "commit">> \/ p = <<"connect", "noActive", "upsertPending", "commit">>
    BY <1>1, <1>5, ProgramIs
  <2>2. Tail(p) = <<"noActive", "upsertPending", "commit">>
    BY <2>1, Tails, Zenon
  <2>3. QED
    BY <1>1, <1>5, <2>2, Zenon
<1>6. CASE c.op = "ReplacePending"
  <2>1. p = <<"lockUser", "upsertPending", "commit">> \/ p = <<"connect", "upsertPending", "commit">>
    BY <1>1, <1>6, ProgramIs
  <2>2. Tail(p) = <<"upsertPending", "commit">>
    BY <2>1, Tails, Zenon
  <2>3. QED
    BY <1>1, <1>6, <2>2, Zenon
<1>7. CASE c.op = "ConfirmEnrollment"
  <2>1. p = <<"lockUser", "consume", "prior", "promote", "commit">> \/ p = <<"connect", "consume", "prior", "promote", "commit">>
    BY <1>1, <1>7, ProgramIs
  <2>2. Tail(p) = <<"consume", "prior", "promote", "commit">>
    BY <2>1, Tails, Zenon
  <2>3. QED
    BY <1>1, <1>7, <2>2, Zenon
<1>8. CASE c.op = "SaveTOTP"
  <2>1. p = <<"lockUser", "raise", "commit">> \/ p = <<"connect", "raise", "commit">>
    BY <1>1, <1>8, ProgramIs
  <2>2. Tail(p) = <<"raise", "commit">>
    BY <2>1, Tails, Zenon
  <2>3. QED
    BY <1>1, <1>8, <2>2, Zenon
<1>9. CASE c.op = "DeleteTOTP"
  <2>1. p = <<"lockUser", "deleteActive", "deletePending", "commit">> \/ p = <<"connect", "deleteActive", "deletePending", "commit">>
    BY <1>1, <1>9, ProgramIs
  <2>2. Tail(p) = <<"deleteActive", "deletePending", "commit">>
    BY <2>1, Tails, Zenon
  <2>3. QED
    BY <1>1, <1>9, <2>2, Zenon
<1>10. QED
  BY <1>3, <1>4, <1>5, <1>6, <1>7, <1>8, <1>9, CallFields, Zenon

(* Then the transaction is where the invariant wants it.                   *)
LEMMA Entered ==
  ASSUME NEW z, Clean(z),
         \/ z.call.op = "GetActiveTOTP" /\ z.pc = <<"getActive">>
         \/ z.call.op = "GetPendingTOTP" /\ z.pc = <<"getPending">>
         \/ z.call.op = "EnrollPending" /\ z.pc = <<"noActive", "upsertPending", "commit">>
         \/ z.call.op = "ReplacePending" /\ z.pc = <<"upsertPending", "commit">>
         \/ z.call.op = "ConfirmEnrollment" /\ z.pc = <<"consume", "prior", "promote", "commit">>
         \/ z.call.op = "SaveTOTP" /\ z.pc = <<"raise", "commit">>
         \/ z.call.op = "DeleteTOTP" /\ z.pc = <<"deleteActive", "deletePending", "commit">>
  PROVE  Locked(z) /\ z.pc # <<>>
BY DEF Locked, Reading, Enrolling, Confirming, Saving, Deleting, Clean

(* The connection, or the user's lock: whoever has it is alone with it.    *)
LEMMA AcquireStep ==
  ASSUME Inv, NEW t \in Txns, connect(t) \/ lockUser(t)
  PROVE  Inv' /\ UNCHANGED <<db, Outcome>>
<1> DEFINE x == txn[t]
<1>1. x.pc # <<>> /\ Head(x.pc) \in {"connect", "lockUser"}
  BY DEF connect, lockUser, Running
<1>2. x.call \in Call /\ Waiting(x)
  BY <1>1, Stands, Zenon DEF Inv, Txn
<1>3. x.pc = Program(x.call.op) /\ Clean(x) /\ impl \in Impls /\ Shape(x)
  BY <1>2 DEF Waiting, Inv
<1>4. impl = "sqlite" <=> Head(x.pc) = "connect"
  BY <1>2, <1>3, ProgramHead
<1>5. impl # "memstore"
  BY <1>1, <1>2, <1>3, ProgramHead
<1>6. Acquire(t, Lock)
  BY <1>4 DEF connect, lockUser, Running, Lock
<1>7. PICK z : z = State(x.call, Tail(x.pc), {}, {}, x.got, x.visit, <<"ok">>)
  BY Zenon
<1>8. /\ Put(t, z) /\ impl' = impl /\ db' = db /\ held' = held \cup {<<t, Lock>>}
      /\ \A h \in held : h[2] # Lock
  <2>1. [txn[t] EXCEPT !.pc = Tail(@)] =
          State(x.call, Tail(x.pc), x.del, x.ins, x.got, x.visit, x.res)
    BY <1>3, SetField, Zenon
  <2>2. x.del = {} /\ x.ins = {} /\ x.res = <<"ok">>
    BY <1>3 DEF Clean
  <2>3. [txn[t] EXCEPT !.pc = Tail(@)] = z
    BY <1>7, <2>1, <2>2, Zenon
  <2>4. QED
    BY <1>6, <2>3, Zenon DEF Acquire
<1>9. held' = {<<t, Lock>>}
  BY <1>8 DEF Inv
<1>10. Locked(z) /\ z.pc # <<>> /\ z.call = x.call /\ Shape(z)
  <2>1. z.call = x.call /\ z.pc = Tail(x.pc) /\ Clean(z) /\ Shape(z)
    BY <1>7 DEF State, Shape, Clean
  <2>2. QED
    BY <1>1, <1>2, <1>3, <2>1, ProgramTail, Entered, Zenon
<1>11. txn'[t] = z /\ Lock' = Lock
  BY <1>8 DEF Put, Inv, Lock
<1>12. Locked(txn[t])'
  BY <1>8, <1>10, <1>11, LockedStays, Zenon
<1>13. Txn(t)'
  BY <1>2, <1>5, <1>8, <1>9, <1>10, <1>11, <1>12 DEF Txn
<1>14. Inv'
  BY <1>8, <1>9, <1>10, <1>13, MoveStep DEF Inv
<1>15. QED
  BY <1>1, <1>8, <1>10, <1>14, Unseen, Zenon DEF Done

(* A refusal, or a read: the contract leaves the rows alone, too.          *)
LEMMA ReturnStep ==
  ASSUME Inv, NEW t \in Txns, txn[t].call \in Call, txn[t].pc # <<>>, NEW res,
         Return(t, res), Method(txn[t].call, db) = Ret(db, res)
  PROVE  Inv' /\ Contract!Next
<1>1. Method(txn[t].call, db).rows = db /\ Method(txn[t].call, db).res = res
  <2>1. PICK m, rows : m = Method(txn[t].call, db) /\ rows = db
    BY Zenon
  <2>2. m = Ret(rows, res)
    BY <2>1, Zenon
  <2>3. m.rows = rows /\ m.res = res
    BY ONLY <2>2, RetFields, Zenon
  <2>4. QED
    BY <2>1, <2>3, Zenon
<1>2. End(t, db, res)
  BY Zenon DEF Return
<1>3. QED
  BY <1>1, <1>2, EndStep, Zenon

(* A statement under the lock that writes.                                 *)
LEMMA WriteStep ==
  ASSUME Inv, NEW t \in Txns, txn[t].pc # <<>>, impl # "memstore", <<t, Lock>> \in held,
         txn[t].call \in Call, NEW old, NEW new, Proceed(t, Rewrite(txn[t], old, new)), NEW z,
         z = State(txn[t].call, Tail(txn[t].pc), txn[t].del \cup (old \cap db),
                   (txn[t].ins \ old) \cup new, txn[t].got, txn[t].visit, txn[t].res),
         z.pc # <<>>, Locked(z)
  PROVE  Inv' /\ UNCHANGED <<db, Outcome>>
<1>1. PICK y : y = Rewrite(txn[t], old, new)
  BY Zenon
<1>2. y = State(txn[t].call, txn[t].pc, txn[t].del \cup (old \cap db),
                (txn[t].ins \ old) \cup new, txn[t].got, txn[t].visit, txn[t].res)
  BY <1>1, Rewritten, Zenon DEF Inv
<1>3. /\ Shape(y) /\ y.call = txn[t].call /\ y.pc = txn[t].pc
      /\ y.del = txn[t].del \cup (old \cap db) /\ y.ins = (txn[t].ins \ old) \cup new
      /\ y.got = txn[t].got /\ y.visit = txn[t].visit /\ y.res = txn[t].res
  BY <1>2 DEF State, Shape
<1>4. Proceed(t, y) /\ z = State(y.call, Tail(y.pc), y.del, y.ins, y.got, y.visit, y.res)
  BY <1>1, <1>3, Zenon
<1>5. QED
  BY <1>3, <1>4, ProceedStep, Zenon

(* SELECT the active or the pending credential.                            *)
LEMMA ReadStep ==
  ASSUME Inv, NEW t \in Txns, getActive(t) \/ getPending(t)
  PROVE  Inv' /\ Contract!Next
<1>1. txn[t].pc # <<>> /\ Head(txn[t].pc) \in {"getActive", "getPending"}
  BY DEF getActive, getPending, Running
<1>2. /\ txn[t].call \in Call /\ Clean(txn[t])
      /\ Head(txn[t].pc) = "getActive" => txn[t].call.op = "GetActiveTOTP"
      /\ Head(txn[t].pc) = "getPending" => txn[t].call.op = "GetPendingTOTP"
  <2>1. CASE txn[t].call \in Call /\ Waiting(txn[t])
    BY <1>1, <2>1, ProgramHead DEF Inv, Waiting
  <2>2. CASE txn[t].call \in Call /\ Locked(txn[t])
    BY <1>1, <2>2, Stands DEF Reading
  <2>3. QED
    BY <1>1, <2>1, <2>2, Zenon DEF Inv, Txn
<1>3. Seen(t) = db
  BY <1>2, CleanSeen
<1>4. CASE getActive(t)
  <2>1. PICK res : res = GetActiveTOTP(db).res
    BY Zenon
  <2>2. Return(t, res) /\ txn[t].call.op = "GetActiveTOTP"
    BY <1>2, <1>3, <1>4, <2>1, Zenon DEF getActive, Running
  <2>3. Method(txn[t].call, db) = Ret(db, res)
    BY <1>2, <2>1, <2>2, MethodOf, RetFields DEF GetActiveTOTP
  <2>4. QED
    BY <1>1, <1>2, <2>2, <2>3, ReturnStep
<1>5. CASE getPending(t)
  <2>1. PICK res : res = GetPendingTOTP(db).res
    BY Zenon
  <2>2. Return(t, res) /\ txn[t].call.op = "GetPendingTOTP"
    BY <1>2, <1>3, <1>5, <2>1, Zenon DEF getPending, Running
  <2>3. Method(txn[t].call, db) = Ret(db, res)
    BY <1>2, <2>1, <2>2, MethodOf, RetFields DEF GetPendingTOTP
  <2>4. QED
    BY <1>1, <1>2, <2>2, <2>3, ReturnStep
<1>6. QED
  BY <1>4, <1>5

(* EnrollPending's condition: refused, or nothing is active.               *)
LEMMA NoActiveStep ==
  ASSUME Inv, NEW t \in Txns, noActive(t)
  PROVE  Inv' /\ (Contract!Next \/ UNCHANGED <<db, Outcome>>)
<1> DEFINE x == txn[t]
<1>1. Running(t, "noActive") /\ x.pc # <<>> /\ Head(x.pc) = "noActive"
  BY DEF noActive, Running
<1>2. x.call \in Call /\ Locked(x) /\ impl # "memstore" /\ <<t, Lock>> \in held
  BY <1>1, HasLock
<1>3. Clean(x) /\ x.call.op = "EnrollPending" /\ x.pc = <<"noActive", "upsertPending", "commit">>
  BY <1>1, <1>2, Stands
<1>4. Seen(t) = db
  BY <1>3, CleanSeen
<1>5. CASE Active(db) # {}
  <2>1. Return(t, <<"alreadyEnrolled">>)
    BY <1>4, <1>5, Zenon DEF noActive
  <2>2. Method(x.call, db) = Ret(db, <<"alreadyEnrolled">>)
    BY <1>2, <1>3, <1>5, MethodOf DEF EnrollPending
  <2>3. QED
    BY <1>1, <1>2, <2>1, <2>2, ReturnStep
<1>6. CASE Active(db) = {}
  <2>1. Proceed(t, x) /\ Shape(x)
    BY <1>4, <1>6, Zenon DEF noActive, Inv
  <2>2. PICK z : z = State(x.call, Tail(x.pc), x.del, x.ins, x.got, x.visit, x.res)
    BY Zenon
  <2>3. z.call = x.call /\ z.pc = <<"upsertPending", "commit">> /\ Clean(z)
    BY <1>3, <2>2 DEF State, Clean
  <2>4. Locked(z) /\ z.pc # <<>>
    BY <1>3, <1>6, <2>3 DEF Locked, Enrolling
  <2>5. QED
    BY <1>1, <1>2, <2>1, <2>2, <2>4, ProceedStep
<1>7. QED
  BY <1>5, <1>6

(* The pending credential is written, or written over.                     *)
LEMMA UpsertPendingStep ==
  ASSUME Inv, NEW t \in Txns, upsertPending(t)
  PROVE  Inv' /\ UNCHANGED <<db, Outcome>>
<1> DEFINE x == txn[t]
<1>1. Running(t, "upsertPending") /\ x.pc # <<>> /\ Head(x.pc) = "upsertPending"
  BY DEF upsertPending, Running
<1>2. x.call \in Call /\ Locked(x) /\ impl # "memstore" /\ <<t, Lock>> \in held
  BY <1>1, HasLock
<1>3. /\ Clean(x) /\ x.call.op \in {"EnrollPending", "ReplacePending"}
      /\ x.pc = <<"upsertPending", "commit">>
      /\ x.call.op = "EnrollPending" => Active(db) = {}
  BY <1>1, <1>2, Stands
<1>4. Seen(t) = db
  BY <1>3, CleanSeen
<1>5. PICK old, new : old = Pending(db) /\ new = {PendingRow(x.call.id)}
  BY Zenon
<1>6. Proceed(t, Rewrite(x, old, new))
  BY <1>4, <1>5, Zenon DEF upsertPending
<1>7. PICK z : z = State(x.call, Tail(x.pc), x.del \cup (old \cap db), (x.ins \ old) \cup new,
                         x.got, x.visit, x.res)
  BY Zenon
<1>8. /\ z.call = x.call /\ z.pc = <<"commit">> /\ z.res = <<"ok">>
      /\ z.del = x.del \cup (old \cap db) /\ z.ins = (x.ins \ old) \cup new
  BY <1>3, <1>7 DEF State, Clean
<1>9. (db \ z.del) \cup z.ins = setPendingLocked(db, x.call.id)
  BY <1>3, <1>5, <1>8 DEF Clean, setPendingLocked, Pending
<1>10. Method(x.call, db) = Ret(setPendingLocked(db, x.call.id), <<"ok">>)
  BY <1>2, <1>3, MethodOf DEF EnrollPending, ReplacePending
<1>11. Committing(z) /\ z.pc # <<>>
  BY <1>8, <1>9, <1>10, SMT, SMTT(30) DEF Committing
<1>12. Locked(z)
  BY <1>11 DEF Locked
<1>13. QED
  BY <1>1, <1>2, <1>6, <1>7, <1>11, <1>12, WriteStep, Zenon

(* ConfirmEnrollment deletes the pending credential it was asked for.      *)
LEMMA ConsumeStep ==
  ASSUME Inv, NEW t \in Txns, consume(t)
  PROVE  Inv' /\ (Contract!Next \/ UNCHANGED <<db, Outcome>>)
<1> DEFINE x == txn[t]
<1>1. Running(t, "consume") /\ x.pc # <<>> /\ Head(x.pc) = "consume"
  BY DEF consume, Running
<1>2. x.call \in Call /\ Locked(x) /\ impl # "memstore" /\ <<t, Lock>> \in held
  BY <1>1, HasLock
<1>3. /\ x.call.op = "ConfirmEnrollment" /\ Clean(x)
      /\ x.pc = <<"consume", "prior", "promote", "commit">>
  BY <1>1, <1>2, Stands DEF Confirming, Clean
<1>4. Seen(t) = db
  BY <1>3, CleanSeen
<1>5. CASE PendingRow(x.call.id) \notin db
  <2>1. Return(t, <<"notEnrolled">>)
    BY <1>4, <1>5 DEF consume
  <2>2. Method(x.call, db) = Ret(db, <<"notEnrolled">>)
    BY <1>2, <1>3, <1>5, MethodOf, Zenon DEF ConfirmEnrollment
  <2>3. QED
    BY <1>1, <1>2, <2>1, <2>2, ReturnStep
<1>6. CASE PendingRow(x.call.id) \in db
  <2>1. PICK old, new : old = {PendingRow(x.call.id)} /\ new = {}
    BY Zenon
  <2>2. Proceed(t, Rewrite(x, old, new))
    BY <1>4, <1>6, <2>1 DEF consume
  <2>3. PICK z : z = State(x.call, Tail(x.pc), x.del \cup (old \cap db), (x.ins \ old) \cup new,
                           x.got, x.visit, x.res)
    BY Zenon
  <2>4. /\ z.call = x.call /\ z.pc = <<"prior", "promote", "commit">> /\ z.res = <<"ok">>
        /\ z.del = x.del \cup (old \cap db) /\ z.ins = (x.ins \ old) \cup new
    BY <1>3, <2>3 DEF State, Clean
  <2>5. z.del = {PendingRow(z.call.id)} /\ z.ins = {}
    BY <1>3, <1>6, <2>1, <2>4 DEF Clean
  <2>6. Confirming(z) /\ z.pc # <<>>
    BY <1>3, <1>6, <2>4, <2>5 DEF Confirming
  <2>7. Locked(z)
    BY <2>6 DEF Locked
  <2>8. QED
    BY <1>1, <1>2, <2>2, <2>3, <2>6, <2>7, WriteStep, Zenon
<1>7. QED
  BY <1>5, <1>6

(* What ConfirmEnrollment sees of the active credential once the pending   *)
(* one is deleted.                                                         *)
LEMMA ConfirmingSees ==
  ASSUME NEW t \in Txns, txn[t].del = {PendingRow(txn[t].call.id)}, txn[t].ins = {}
  PROVE  Active(Seen(t)) = Active(db)
<1>1. PendingRow(txn[t].call.id).table = "totp_pending"
  BY RowFields
<1>2. QED
  BY <1>1 DEF Seen, Active

(* It reads the counter of the active credential.                          *)
LEMMA PriorStep ==
  ASSUME Inv, NEW t \in Txns, prior(t)
  PROVE  Inv' /\ UNCHANGED <<db, Outcome>>
<1> DEFINE x == txn[t]
<1>1. Running(t, "prior") /\ x.pc # <<>> /\ Head(x.pc) = "prior"
  BY DEF prior, Running
<1>2. x.call \in Call /\ Locked(x) /\ impl # "memstore" /\ <<t, Lock>> \in held
  BY <1>1, HasLock
<1>3. /\ x.call.op = "ConfirmEnrollment" /\ x.ins = {} /\ x.res = <<"ok">>
      /\ x.pc = <<"prior", "promote", "commit">>
      /\ x.del = {PendingRow(x.call.id)} /\ PendingRow(x.call.id) \in db
  BY <1>1, <1>2, Stands DEF Confirming
<1>4. PICK y : y = [x EXCEPT !.got = Active(db)]
  BY Zenon
<1>5. Proceed(t, y)
  BY <1>3, <1>4, ConfirmingSees, Zenon DEF prior
<1>6. y = State(x.call, x.pc, x.del, x.ins, Active(db), x.visit, x.res)
  BY <1>4, SetField, Zenon DEF Inv
<1>7. /\ Shape(y) /\ y.call = x.call /\ y.pc = x.pc /\ y.del = x.del /\ y.ins = x.ins
      /\ y.got = Active(db) /\ y.res = x.res
  BY <1>6 DEF State, Shape
<1>8. PICK z : z = State(y.call, Tail(y.pc), y.del, y.ins, y.got, y.visit, y.res)
  BY Zenon
<1>9. /\ z.call = x.call /\ z.pc = <<"promote", "commit">> /\ z.del = x.del /\ z.ins = {}
      /\ z.got = Active(db) /\ z.res = <<"ok">>
  BY <1>3, <1>7, <1>8 DEF State
<1>10. Confirming(z) /\ z.pc # <<>>
  BY <1>3, <1>9 DEF Confirming
<1>11. Locked(z)
  BY <1>10 DEF Locked
<1>12. QED
  BY <1>1, <1>2, <1>5, <1>7, <1>8, <1>10, <1>11, ProceedStep

(* It promotes it: the new active credential keeps the higher counter.     *)
LEMMA PromoteStep ==
  ASSUME Inv, NEW t \in Txns, promote(t)
  PROVE  Inv' /\ UNCHANGED <<db, Outcome>>
<1> DEFINE x == txn[t]
<1>1. Running(t, "promote") /\ x.pc # <<>> /\ Head(x.pc) = "promote"
  BY DEF promote, Running
<1>2. x.call \in Call /\ Locked(x) /\ impl # "memstore" /\ <<t, Lock>> \in held
  BY <1>1, HasLock
<1>3. /\ x.call.op = "ConfirmEnrollment" /\ x.ins = {} /\ x.pc = <<"promote", "commit">>
      /\ x.del = {PendingRow(x.call.id)} /\ PendingRow(x.call.id) \in db
      /\ x.got = Active(db)
  BY <1>1, <1>2, Stands DEF Confirming
<1>4. PICK id, last : id = x.call.id /\ last = HigherCounter(db, x.call.counter)
  BY Zenon
<1>5. HigherCounter(x.got, x.call.counter) = last
  <2>1. Active(x.got) = Active(db)
    BY <1>3 DEF Active
  <2>2. QED
    BY <1>4, <2>1 DEF HigherCounter
<1>6. PICK old, new : old = Active(db) /\ new = ActiveRow(id, last)
  BY Zenon
<1>7. new.id = id /\ new.last = last
  BY <1>6, RowFields
<1>8. PICK y : y = [Rewrite(x, old, {new}) EXCEPT !.res = <<"ok", id, last>>]
  BY Zenon
<1>9. Proceed(t, y)
  BY <1>3, <1>4, <1>5, <1>6, <1>7, <1>8, ConfirmingSees, Zenon DEF promote
<1>10. y = State(x.call, x.pc, x.del \cup (old \cap db), (x.ins \ old) \cup {new}, x.got, x.visit,
                 <<"ok", id, last>>)
  <2>1. PICK w : w = Rewrite(x, old, {new})
    BY Zenon
  <2>2. w = State(x.call, x.pc, x.del \cup (old \cap db), (x.ins \ old) \cup {new}, x.got, x.visit,
                  x.res)
    BY <2>1, Rewritten, Zenon DEF Inv
  <2>3. /\ Shape(w) /\ w.call = x.call /\ w.pc = x.pc /\ w.del = x.del \cup (old \cap db)
        /\ w.ins = (x.ins \ old) \cup {new} /\ w.got = x.got /\ w.visit = x.visit
    BY <2>2 DEF State, Shape
  <2>4. y = State(w.call, w.pc, w.del, w.ins, w.got, w.visit, <<"ok", id, last>>)
    <3>1. PICK r : r = <<"ok", id, last>>
      BY Zenon
    <3>2. [w EXCEPT !.res = r] = State(w.call, w.pc, w.del, w.ins, w.got, w.visit, r)
      <4>1. Shape(w)
        BY <2>3
      <4>2. QED
        BY ONLY <4>1, SetField, Zenon
    <3>3. QED
      BY <1>8, <2>1, <3>1, <3>2, Zenon
  <2>5. QED
    BY <2>3, <2>4, Zenon
<1>11. /\ Shape(y) /\ y.call = x.call /\ y.pc = x.pc /\ y.res = <<"ok", id, last>>
       /\ y.del = x.del \cup (old \cap db) /\ y.ins = (x.ins \ old) \cup {new}
  BY <1>10 DEF State, Shape
<1>12. PICK z : z = State(y.call, Tail(y.pc), y.del, y.ins, y.got, y.visit, y.res)
  BY Zenon
<1>13. /\ z.call = x.call /\ z.pc = <<"commit">> /\ z.res = <<"ok", id, last>>
       /\ z.del = x.del \cup (old \cap db) /\ z.ins = (x.ins \ old) \cup {new}
  BY <1>3, <1>11, <1>12 DEF State
<1>14. Pending(db) = {PendingRow(id)}
  BY <1>3, <1>4, RowFields DEF Inv, WellFormed, Pending
<1>15. (db \ z.del) \cup z.ins = (db \ (Active(db) \cup Pending(db))) \cup {ActiveRow(id, last)}
  BY <1>3, <1>4, <1>6, <1>13, <1>14 DEF Active
<1>16. Method(x.call, db) =
         Ret((db \ (Active(db) \cup Pending(db))) \cup {ActiveRow(id, last)}, <<"ok", id, last>>)
  BY <1>2, <1>3, <1>4, MethodOf DEF ConfirmEnrollment
<1>17. Committing(z) /\ z.pc # <<>>
  <2>1. Committing(z)
    BY <1>13, <1>15, <1>16, Zenon DEF Committing
  <2>2. QED
    BY <1>13, <2>1
<1>18. Locked(z)
  BY <1>17 DEF Locked
<1>19. QED
  BY <1>1, <1>2, <1>9, <1>11, <1>12, <1>17, <1>18, ProceedStep, Zenon

(* SaveTOTP raises the counter of the active credential, or finds none     *)
(* to raise.                                                               *)
LEMMA RaiseStep ==
  ASSUME Inv, NEW t \in Txns, raise(t)
  PROVE  Inv' /\ UNCHANGED <<db, Outcome>>
<1> DEFINE x == txn[t]
<1>1. Running(t, "raise") /\ x.pc # <<>> /\ Head(x.pc) = "raise"
  BY DEF raise, Running
<1>2. x.call \in Call /\ Locked(x) /\ impl # "memstore" /\ <<t, Lock>> \in held
  BY <1>1, HasLock
<1>3. x.call.op = "SaveTOTP" /\ Clean(x) /\ x.pc = <<"raise", "commit">>
  BY <1>1, <1>2, Stands DEF Saving
<1>4. Seen(t) = db
  BY <1>3, CleanSeen
<1>5. PICK old : old = {a \in Active(db) : a.id = x.call.id /\ a.last < x.call.counter}
  BY Zenon
<1>6. CASE old = {}
  <2>1. PICK y : y = [x EXCEPT !.pc = <<"raise", "refusedSave">>]
    BY Zenon
  <2>2. Proceed(t, y)
    BY <1>4, <1>5, <1>6, <2>1, Zenon DEF raise
  <2>3. y = State(x.call, <<"raise", "refusedSave">>, x.del, x.ins, x.got, x.visit, x.res)
    BY <2>1, SetField, Zenon DEF Inv
  <2>4. /\ Shape(y) /\ y.call = x.call /\ y.pc = <<"raise", "refusedSave">> /\ y.del = x.del
        /\ y.ins = x.ins /\ y.res = x.res
    BY <2>3 DEF State, Shape
  <2>5. PICK z : z = State(y.call, Tail(y.pc), y.del, y.ins, y.got, y.visit, y.res)
    BY Zenon
  <2>6. z.call = x.call /\ z.pc = <<"refusedSave">> /\ Clean(z)
    BY <1>3, <2>4, <2>5 DEF State, Clean
  <2>7. Saving(z) /\ z.pc # <<>>
    BY <1>3, <1>5, <1>6, <2>6 DEF Saving
  <2>8. Locked(z)
    BY <2>7 DEF Locked
  <2>9. QED
    BY <1>1, <1>2, <2>2, <2>4, <2>5, <2>7, <2>8, ProceedStep, Zenon
<1>7. CASE old # {}
  <2>1. PICK id, n, new : id = x.call.id /\ n = x.call.counter /\ new = {ActiveRow(id, n)}
    BY Zenon
  <2>2. Proceed(t, Rewrite(x, old, new))
    BY <1>4, <1>5, <1>7, <2>1, Zenon DEF raise
  <2>3. PICK z : z = State(x.call, Tail(x.pc), x.del \cup (old \cap db), (x.ins \ old) \cup new,
                           x.got, x.visit, x.res)
    BY Zenon
  <2>4. /\ z.call = x.call /\ z.pc = <<"commit">> /\ z.res = <<"ok">>
        /\ z.del = x.del \cup (old \cap db) /\ z.ins = (x.ins \ old) \cup new
    BY <1>3, <2>3 DEF State, Clean
  <2>5. PICK a \in Active(db) : a.id = id /\ a.last < n /\ Active(db) = {a} /\ old = {a}
    BY <1>5, <1>7, <2>1 DEF Inv, WellFormed
  <2>6. (db \ z.del) \cup z.ins = (db \ Active(db)) \cup {ActiveRow(id, n)}
    BY <1>3, <2>1, <2>4, <2>5 DEF Clean, Active
  <2>7. n \in Nat /\ a.last \in Nat
    BY <1>2, <1>3, <2>1, <2>5, CallFields, RowIs DEF Inv, WellFormed, Active
  <2>8. ~(n <= a.last)
    BY <2>5, <2>7
  <2>9. Method(x.call, db) = SaveTOTP(db, id, n)
    BY <1>2, <1>3, <2>1, MethodOf
  <2>10. SaveTOTP(db, id, n) = Ret((db \ Active(db)) \cup {ActiveRow(id, n)}, <<"ok">>)
    BY <2>5, <2>8 DEF SaveTOTP
  <2>11. Committing(z) /\ z.pc # <<>>
    BY <2>4, <2>6, <2>9, <2>10 DEF Committing
  <2>12. Locked(z)
    BY <2>11 DEF Locked
  <2>13. QED
    BY <1>1, <1>2, <2>2, <2>3, <2>11, <2>12, WriteStep, Zenon
<1>8. QED
  BY <1>6, <1>7

(* It explains a refusal: the query comes after the update, and nothing    *)
(* has changed in between.                                                 *)
LEMMA RefusedSaveStep ==
  ASSUME Inv, NEW t \in Txns, refusedSaveError(t)
  PROVE  Inv' /\ Contract!Next
<1> DEFINE x == txn[t]
<1>1. Running(t, "refusedSave") /\ x.pc # <<>> /\ Head(x.pc) = "refusedSave"
  BY DEF refusedSaveError, Running
<1>2. x.call \in Call /\ Locked(x) /\ impl # "memstore" /\ <<t, Lock>> \in held
  BY <1>1, HasLock
<1>3. /\ x.call.op = "SaveTOTP" /\ Clean(x)
      /\ \A a \in Active(db) : a.id = x.call.id => ~(a.last < x.call.counter)
  BY <1>1, <1>2, Stands DEF Saving
<1>4. Seen(t) = db
  BY <1>3, CleanSeen
<1>5. Method(x.call, db) = SaveTOTP(db, x.call.id, x.call.counter) /\ x.call.counter \in Nat
  BY <1>2, <1>3, MethodOf, CallFields
<1>6. CASE \E a \in Active(db) : a.id = x.call.id
  <2>1. PICK a \in Active(db) : a.id = x.call.id
    BY <1>6
  <2>2. a.last \in Nat
    BY RowIs DEF Inv, WellFormed, Active
  <2>3. x.call.counter <= a.last
    BY <1>3, <1>5, <2>1, <2>2, SMT, SMTT(30)
  <2>4. SaveTOTP(db, x.call.id, x.call.counter) = Ret(db, <<"replayed">>)
    BY <2>1, <2>3 DEF SaveTOTP
  <2>5. Return(t, <<"replayed">>)
    BY <1>4, <1>6, Zenon DEF refusedSaveError
  <2>6. QED
    BY <1>1, <1>2, <1>5, <2>4, <2>5, ReturnStep
<1>7. CASE ~\E a \in Active(db) : a.id = x.call.id
  <2>1. SaveTOTP(db, x.call.id, x.call.counter) = Ret(db, <<"notEnrolled">>)
    BY <1>7 DEF SaveTOTP
  <2>2. Return(t, <<"notEnrolled">>)
    BY <1>4, <1>7, Zenon DEF refusedSaveError
  <2>3. QED
    BY <1>1, <1>2, <1>5, <2>1, <2>2, ReturnStep
<1>8. QED
  BY <1>6, <1>7

(* DeleteTOTP clears one table,                                            *)
LEMMA DeleteActiveStep ==
  ASSUME Inv, NEW t \in Txns, deleteActive(t)
  PROVE  Inv' /\ UNCHANGED <<db, Outcome>>
<1> DEFINE x == txn[t]
<1>1. Running(t, "deleteActive") /\ x.pc # <<>> /\ Head(x.pc) = "deleteActive"
  BY DEF deleteActive, Running
<1>2. x.call \in Call /\ Locked(x) /\ impl # "memstore" /\ <<t, Lock>> \in held
  BY <1>1, HasLock
<1>3. /\ x.call.op = "DeleteTOTP" /\ Clean(x)
      /\ x.pc = <<"deleteActive", "deletePending", "commit">>
  BY <1>1, <1>2, Stands DEF Deleting, Clean
<1>4. Seen(t) = db
  BY <1>3, CleanSeen
<1>5. PICK old, new : old = Active(db) /\ new = {}
  BY Zenon
<1>6. Proceed(t, Rewrite(x, old, new))
  BY <1>4, <1>5, Zenon DEF deleteActive
<1>7. PICK z : z = State(x.call, Tail(x.pc), x.del \cup (old \cap db), (x.ins \ old) \cup new,
                         x.got, x.visit, x.res)
  BY Zenon
<1>8. /\ z.call = x.call /\ z.pc = <<"deletePending", "commit">> /\ z.res = <<"ok">>
      /\ z.del = x.del \cup (old \cap db) /\ z.ins = (x.ins \ old) \cup new
  BY <1>3, <1>7 DEF State, Clean
<1>9. z.del = Active(db) /\ z.ins = {}
  BY <1>3, <1>5, <1>8 DEF Clean, Active
<1>10. Deleting(z) /\ z.pc # <<>>
  BY <1>3, <1>8, <1>9 DEF Deleting
<1>11. Locked(z)
  BY <1>10 DEF Locked
<1>12. QED
  BY <1>1, <1>2, <1>6, <1>7, <1>10, <1>11, WriteStep, Zenon

(* then the other.                                                         *)
LEMMA DeletePendingStep ==
  ASSUME Inv, NEW t \in Txns, deletePending(t)
  PROVE  Inv' /\ UNCHANGED <<db, Outcome>>
<1> DEFINE x == txn[t]
<1>1. Running(t, "deletePending") /\ x.pc # <<>> /\ Head(x.pc) = "deletePending"
  BY DEF deletePending, Running
<1>2. x.call \in Call /\ Locked(x) /\ impl # "memstore" /\ <<t, Lock>> \in held
  BY <1>1, HasLock
<1>3. /\ x.call.op = "DeleteTOTP" /\ x.ins = {} /\ x.res = <<"ok">>
      /\ x.pc = <<"deletePending", "commit">> /\ x.del = Active(db)
  BY <1>1, <1>2, Stands DEF Deleting
<1>4. Pending(Seen(t)) = Pending(db)
  BY <1>3 DEF Seen, Pending, Active
<1>5. PICK old, new : old = Pending(db) /\ new = {}
  BY Zenon
<1>6. Proceed(t, Rewrite(x, old, new))
  BY <1>4, <1>5, Zenon DEF deletePending
<1>7. PICK z : z = State(x.call, Tail(x.pc), x.del \cup (old \cap db), (x.ins \ old) \cup new,
                         x.got, x.visit, x.res)
  BY Zenon
<1>8. /\ z.call = x.call /\ z.pc = <<"commit">> /\ z.res = <<"ok">>
      /\ z.del = x.del \cup (old \cap db) /\ z.ins = (x.ins \ old) \cup new
  BY <1>3, <1>7 DEF State
<1>9. (db \ z.del) \cup z.ins = db \ (Active(db) \cup Pending(db))
  BY <1>3, <1>5, <1>8 DEF Pending
<1>10. Method(x.call, db) = Ret(db \ (Active(db) \cup Pending(db)), <<"ok">>)
  BY <1>2, <1>3, MethodOf DEF DeleteTOTP
<1>11. Committing(z) /\ z.pc # <<>>
  <2>1. Committing(z)
    BY <1>8, <1>9, <1>10, Zenon DEF Committing
  <2>2. QED
    BY <1>8, <2>1
<1>12. Locked(z)
  BY <1>11 DEF Locked
<1>13. QED
  BY <1>1, <1>2, <1>6, <1>7, <1>11, <1>12, WriteStep, Zenon

(* What a transaction at its commit is about to do.                        *)
LEMMA AtCommit ==
  ASSUME Inv, NEW t \in Txns, Running(t, "commit")
  PROVE  /\ txn[t].call \in Call /\ txn[t].pc # <<>> /\ <<t, Lock>> \in held
         /\ Method(txn[t].call, db) = Ret(Seen(t), txn[t].res)
<1>1. txn[t].pc # <<>> /\ Head(txn[t].pc) = "commit"
  BY DEF Running
<1>2. txn[t].call \in Call /\ Locked(txn[t]) /\ <<t, Lock>> \in held
  BY HasLock
<1>3. Committing(txn[t])
  BY <1>1, <1>2, Stands
<1>4. QED
  BY <1>1, <1>2, <1>3, Zenon DEF Committing, Seen

(* The commit is the moment at which the call takes effect.                *)
LEMMA CommitStep ==
  ASSUME Inv, NEW t \in Txns, commit(t)
  PROVE  Inv' /\ Contract!Next
<1>1. Running(t, "commit")
  BY DEF commit
<1>2. PICK rows, res : rows = Seen(t) /\ res = txn[t].res
  BY Zenon
<1>3. End(t, rows, res)
  BY <1>2, Zenon DEF commit
<1>4. Method(txn[t].call, db) = Ret(rows, res)
  BY <1>1, <1>2, AtCommit, Zenon
<1>5. Method(txn[t].call, db).rows = rows /\ Method(txn[t].call, db).res = res
  BY <1>4, RetFields, Zenon
<1>6. QED
  BY <1>1, <1>3, <1>5, AtCommit, EndStep, Zenon

(* A statement fails and nothing is written, or the commit is done and its *)
(* answer lost.                                                            *)
LEMMA FailStep ==
  ASSUME Inv, NEW t \in Txns, Fail(t)
  PROVE  Inv' /\ Contract!Next
<1>1. txn[t].pc # <<>> /\ txn[t].call \in Call
  BY Zenon DEF Fail, Inv, Txn
<1>2. PICK res : res = <<"err">>
  BY Zenon
<1>3. CASE End(t, db, <<"err">>)
  <2>1. End(t, db, res)
    BY <1>2, <1>3, Zenon
  <2>2. QED
    BY <1>1, <1>2, <2>1, EndStep, Zenon
<1>4. CASE Running(t, "commit") /\ End(t, Seen(t), <<"err">>)
  <2>1. PICK rows : rows = Seen(t)
    BY Zenon
  <2>2. End(t, rows, res)
    BY <1>2, <1>4, <2>1, Zenon
  <2>3. Method(txn[t].call, db).rows = rows
    <3>1. PICK m, out : m = Method(txn[t].call, db) /\ out = txn[t].res
      BY Zenon
    <3>2. m = Ret(rows, out)
      BY <1>4, <2>1, <3>1, AtCommit, Zenon
    <3>3. m.rows = rows
      BY ONLY <3>2, RetFields, Zenon
    <3>4. QED
      BY <3>1, <3>3, Zenon
  <2>4. QED
    BY <1>1, <1>2, <1>4, <2>2, <2>3, AtCommit, EndStep, Zenon
<1>5. QED
  BY <1>3, <1>4 DEF Fail

-----------------------------------------------------------------------------
(* The store implements its contract.                                      *)

(* The invariant holds at first, and the contract starts with no answers.  *)
LEMMA InitInv == Init => Inv /\ Contract!Init
<1> SUFFICES ASSUME Init PROVE Inv /\ Contract!Init
  OBVIOUS
<1>1. txn = [t \in Txns |-> Idle] /\ impl \in Impls /\ WellFormed(db) /\ held = {}
  BY DEF Init
<1>2. Idle.pc = <<>> /\ Idle.call = NoCall /\ Shape(Idle)
  BY DEF Idle, Shape, State
<1> HIDE DEF Idle
<1>3. Inv
  BY <1>1, <1>2 DEF Inv, Txn
<1>4. Contract!Init
  BY <1>1, <1>2 DEF Contract!Init, Outcome, Done
<1>5. QED
  BY <1>3, <1>4

(* Every step keeps the invariant and is a step of the contract, or none.  *)
LEMMA NextInv ==
  Inv /\ [Next]_sqlVars => Inv' /\ [Contract!Next]_<<db, Outcome>>
<1> SUFFICES ASSUME Inv, [Next]_sqlVars
             PROVE  Inv' /\ (Contract!Next \/ UNCHANGED <<db, Outcome>>)
  OBVIOUS
<1>1. ASSUME NEW t \in Txns, Statement(t)
      PROVE  Inv' /\ (Contract!Next \/ UNCHANGED <<db, Outcome>>)
  BY <1>1, MethodStep, AcquireStep, ReadStep, NoActiveStep, UpsertPendingStep, ConsumeStep,
     PriorStep, PromoteStep, RaiseStep, RefusedSaveStep, DeleteActiveStep, DeletePendingStep,
     CommitStep, Zenon DEF Statement
<1>2. CASE UNCHANGED sqlVars
  <2>1. UNCHANGED <<impl, db, held, txn>>
    BY <1>2 DEF sqlVars
  <2>2. Inv'
    <3>1. Lock' = Lock /\ \A op : Program(op)' = Program(op)
      BY <2>1 DEF Lock, Program
    <3>2. ASSUME NEW t \in Txns
          PROVE  Txn(t)'
      <4>1. Waiting(txn[t]) => Waiting(txn[t])'
        BY <2>1, <3>1 DEF Waiting
      <4>2. Locked(txn[t]) => Locked(txn[t])'
        BY <2>1, Zenon DEF Locked, Reading, Enrolling, Confirming, Saving, Deleting, Committing
      <4>3. QED
        BY <2>1, <3>1, <4>1, <4>2 DEF Inv, Txn
    <3>3. WellFormed(db)' /\ (\A t \in Txns : Shape(txn[t]))'
      BY <2>1 DEF Inv, WellFormed, Shape
    <3>4. QED
      BY <2>1, <3>1, <3>2, <3>3 DEF Inv
  <2>3. UNCHANGED <<db, Outcome>>
    BY <2>1 DEF Outcome, Done
  <2>4. QED
    BY <2>2, <2>3
<1>3. CASE Next
  BY <1>1, <1>3, BeginStep, FailStep, Zenon DEF Next
<1>4. QED
  BY <1>2, <1>3

(* Every implementation of totp.Store does what the contract says: however *)
(* many calls interleave and fail, each takes effect at one moment and     *)
(* returns what the contract gives then.  Two confirmations cannot both    *)
(* promote, a counter is never lowered, and refusedSaveError's explanation *)
(* is the right one.                                                       *)
THEOREM TotpStoreIsAtomic == Spec => Contract!Spec
<1>1. Inv /\ [Next]_sqlVars => Inv'
  BY NextInv
<1>2. Inv /\ [Next]_sqlVars => [Contract!Next]_<<db, Outcome>>
  BY NextInv
<1>3. QED
  BY <1>1, <1>2, InitInv, PTL DEF Spec, Contract!Spec

(* At any time a user has at most one active and one pending credential,   *)
(* although SQL holds them in tables of their own.                         *)
THEOREM OneRowATable == Spec => []WellFormed(db)
<1>1. Inv => WellFormed(db)
  BY DEF Inv
<1>2. Inv /\ [Next]_sqlVars => Inv'
  BY NextInv
<1>3. QED
  BY <1>1, <1>2, InitInv, PTL DEF Spec

-----------------------------------------------------------------------------
(* The same for Stores, which calls one store of the library: when it is   *)
(* the TOTP store, ImplementsContract holds.                               *)

CONSTANTS Families, BulkChoices,
          PasskeyUsers, PasskeyIds, Names, Keys, Data, ChallengeClock, TTL,
          Users, Emails, Sessions, Tokens, Purposes, Clock, Expiries,
          Generations, FirstCodes

VARIABLES family, bulk

All == INSTANCE Stores WITH TotpIds <- Ids

(* Stores takes the programs and the statements from SqlTotp.              *)
LEMMA SamePrograms ==
  ASSUME NEW op
  PROVE  All!Totp!Program(op) = Program(op)
BY Zenon DEF All!Totp!PgGetActiveTOTP, PgGetActiveTOTP, All!Totp!PgGetPendingTOTP, PgGetPendingTOTP,
   All!Totp!lockedExec, lockedExec, All!Totp!PgEnrollPending, PgEnrollPending,
   All!Totp!PgReplacePending, PgReplacePending, All!Totp!PgConfirmEnrollment,
   PgConfirmEnrollment, All!Totp!PgSaveTOTP, PgSaveTOTP, All!Totp!PgDeleteTOTP,
   PgDeleteTOTP, All!Totp!SqliteGetActiveTOTP, SqliteGetActiveTOTP,
   All!Totp!SqliteGetPendingTOTP, SqliteGetPendingTOTP, All!Totp!SqliteEnrollPending,
   SqliteEnrollPending, All!Totp!SqliteReplacePending, SqliteReplacePending,
   All!Totp!SqliteConfirmEnrollment, SqliteConfirmEnrollment, All!Totp!SqliteSaveTOTP,
   SqliteSaveTOTP, All!Totp!SqliteDeleteTOTP, SqliteDeleteTOTP, All!Totp!Program, Program

(* A statement of the TOTP store inside Stores is a statement of SqlTotp.  *)
LEMMA SameStatements ==
  ASSUME NEW t, All!Totp!Statement(t)
  PROVE  Statement(t)
<1> USE DEF All!Totp!Running, Running, All!Totp!End, End, All!Totp!Put, Put, All!Totp!Idle, Idle,
          All!Totp!NoCall, NoCall, All!Totp!Return, Return, All!Totp!Seen, Seen,
          All!Totp!Proceed, Proceed, All!Totp!Rewrite, Rewrite, All!Totp!Acquire, Acquire,
          All!Totp!RowLocked, RowLocked, All!Totp!AnyLocked, AnyLocked, All!Totp!InDoubt,
          InDoubt, All!Totp!Active, Active, All!Totp!Pending, Pending, All!Totp!ActiveRow,
          ActiveRow, All!Totp!PendingRow, PendingRow, All!Totp!Ret, Ret,
          All!Totp!GetActiveTOTP, GetActiveTOTP, All!Totp!GetPendingTOTP, GetPendingTOTP,
          All!Totp!setPendingLocked, setPendingLocked, All!Totp!EnrollPending,
          EnrollPending, All!Totp!ReplacePending, ReplacePending, All!Totp!HigherCounter,
          HigherCounter, All!Totp!ConfirmEnrollment, ConfirmEnrollment, All!Totp!SaveTOTP,
          SaveTOTP, All!Totp!DeleteTOTP, DeleteTOTP, All!Totp!Method, Method
<1>1. All!Totp!method(t) => method(t)
  BY Zenon DEF All!Totp!method, method
<1>2. All!Totp!connect(t) => connect(t)
  BY Zenon DEF All!Totp!connect, connect
<1>3. All!Totp!lockUser(t) => lockUser(t)
  BY Zenon DEF All!Totp!lockUser, lockUser
<1>4. All!Totp!getActive(t) => getActive(t)
  BY Zenon DEF All!Totp!getActive, getActive
<1>5. All!Totp!getPending(t) => getPending(t)
  BY Zenon DEF All!Totp!getPending, getPending
<1>6. All!Totp!noActive(t) => noActive(t)
  BY Zenon DEF All!Totp!noActive, noActive
<1>7. All!Totp!upsertPending(t) => upsertPending(t)
  BY Zenon DEF All!Totp!upsertPending, upsertPending
<1>8. All!Totp!consume(t) => consume(t)
  BY Zenon DEF All!Totp!consume, consume
<1>9. All!Totp!prior(t) => prior(t)
  BY Zenon DEF All!Totp!prior, prior
<1>10. All!Totp!promote(t) => promote(t)
  BY Zenon DEF All!Totp!promote, promote
<1>11. All!Totp!raise(t) => raise(t)
  BY Zenon DEF All!Totp!raise, raise
<1>12. All!Totp!refusedSaveError(t) => refusedSaveError(t)
  BY Zenon DEF All!Totp!refusedSaveError, refusedSaveError
<1>13. All!Totp!deleteActive(t) => deleteActive(t)
  BY Zenon DEF All!Totp!deleteActive, deleteActive
<1>14. All!Totp!deletePending(t) => deletePending(t)
  BY Zenon DEF All!Totp!deletePending, deletePending
<1>15. All!Totp!commit(t) => commit(t)
  BY Zenon DEF All!Totp!commit, commit
<1>16. QED
  BY <1>1, <1>2, <1>3, <1>4, <1>5, <1>6, <1>7, <1>8, <1>9, <1>10, <1>11, <1>12, <1>13, <1>14, <1>15,
     Zenon DEF All!Totp!Statement, Statement

(* The rows Stores starts with.                                            *)
LEMMA SeededWellFormed ==
  ASSUME NEW rows \in All!Totp!Databases
  PROVE  WellFormed(rows)
<1>1. \/ rows = {}
      \/ \E i \in Ids : rows = {PendingRow(i)}
      \/ \E i \in Ids : rows = {ActiveRow(i, 1)}
      \/ \E i, j \in Ids : rows = {ActiveRow(i, 1), PendingRow(j)}
  <2>1. \A i : All!Totp!ActiveRow(i, 1) = ActiveRow(i, 1) /\ All!Totp!PendingRow(i) = PendingRow(i)
    BY Zenon DEF All!Totp!ActiveRow, ActiveRow, All!Totp!PendingRow, PendingRow
  <2>2. QED
    BY <2>1 DEF All!Totp!Databases
<1>2. CASE rows = {}
  BY <1>2 DEF WellFormed, Active, Pending
<1>3. ASSUME NEW i \in Ids, rows = {PendingRow(i)}
      PROVE  WellFormed(rows)
  BY <1>3, RowFields DEF WellFormed, Active, Pending, Rows
<1>4. ASSUME NEW i \in Ids, rows = {ActiveRow(i, 1)}
      PROVE  WellFormed(rows)
  BY <1>4, RowFields DEF WellFormed, Active, Pending, Rows
<1>5. ASSUME NEW i \in Ids, NEW j \in Ids, rows = {ActiveRow(i, 1), PendingRow(j)}
      PROVE  WellFormed(rows)
  BY <1>5, RowFields DEF WellFormed, Active, Pending, Rows
<1>6. QED
  BY <1>1, <1>2, <1>3, <1>4, <1>5

(* No call of another store has the name of a TOTP call: the contract of   *)
(* a TOTP call is totp.Store's.                                            *)
LEMMA TotpContract ==
  ASSUME NEW c \in Call, NEW rows
  PROVE  c \in All!ContractCalls /\ All!ContractMethod(c, rows) = Method(c, rows)
<1>1. All!TotpCalls = Call
  BY Zenon DEF All!TotpCalls, All!Totp!Call, Call, All!Totp!Counters, Counters
<1>2. All!Totp!Method(c, rows) = Method(c, rows)
  BY Zenon DEF All!Totp!Active, Active, All!Totp!Pending, Pending, All!Totp!ActiveRow, ActiveRow,
     All!Totp!PendingRow, PendingRow, All!Totp!Ret, Ret, All!Totp!GetActiveTOTP,
     GetActiveTOTP, All!Totp!GetPendingTOTP, GetPendingTOTP, All!Totp!setPendingLocked,
     setPendingLocked, All!Totp!EnrollPending, EnrollPending, All!Totp!ReplacePending,
     ReplacePending, All!Totp!HigherCounter, HigherCounter, All!Totp!ConfirmEnrollment,
     ConfirmEnrollment, All!Totp!SaveTOTP, SaveTOTP, All!Totp!DeleteTOTP, DeleteTOTP,
     All!Totp!Method, Method
<1>3. c \notin All!PasskeyCalls
  BY CallFields, Zenon DEF All!PasskeyCalls, All!Passkey!SingleCall, All!Passkey!ChallengeCall
<1>4. c \notin All!AccountCalls
  BY CallFields DEF All!AccountCalls, All!Accounts!UserCall, All!Accounts!SessionCall,
     All!Accounts!TokenCall
<1>5. c \notin All!RecoveryCalls
  BY CallFields DEF All!RecoveryCalls, All!Recovery!CodeCall, All!Recovery!Generate,
     All!Recovery!Consume, All!Recovery!Remaining
<1>6. All!ContractMethod(c, rows) = All!Totp!Method(c, rows)
  BY <1>1, <1>3, <1>4, <1>5 DEF All!ContractMethod
<1>7. QED
  BY <1>1, <1>2, <1>6 DEF All!ContractCalls


(* Stores calls the TOTP store, and that store's invariant holds.          *)
HInv == family = "totp" /\ ~bulk /\ Inv

(* What the calls of Stores are told is what the TOTP store tells them.    *)
LEMMA TotpAnswers ==
  ASSUME family = "totp", ~bulk
  PROVE  All!Answers = Outcome /\ (IF bulk THEN {} ELSE db) = db
BY DEF All!Answers, All!Outcome, Outcome, All!Done, Done, All!NoCall, NoCall

(* Stores starts with a database the TOTP store can hold, and no call.     *)
LEMMA InitHInv ==
  All!Init /\ family = "totp" => HInv /\ All!Contract!Init
<1> SUFFICES ASSUME All!Init, family = "totp"
             PROVE  HInv /\ All!Contract!Init
  OBVIOUS
<1>1. /\ impl \in Impls /\ ~bulk /\ db \in All!Totp!Databases /\ held = {}
      /\ txn = [t \in Txns |-> Idle]
  BY DEF All!Init, All!Impls, Impls, All!Idle, Idle, All!NoCall, NoCall, All!Databases
<1>2. Inv /\ Contract!Init
  BY <1>1, SeededWellFormed, InitInv DEF Init
<1>3. QED
  BY <1>1, <1>2, TotpAnswers DEF HInv, All!Contract!Init, Contract!Init

(* A step of Stores is a step of the TOTP store.                           *)
LEMMA TotpStep ==
  ASSUME family = "totp", ~bulk, All!Next
  PROVE  Next /\ UNCHANGED <<family, bulk>>
<1>1. PICK t \in Txns : All!Start(t) \/ All!StartBulk(t) \/ All!Statement(t) \/ All!StatementFails(t)
  BY Zenon DEF All!Next
<1>2. CASE All!Start(t)
  <2>1. PICK c \in All!TotpCalls : All!Begin(t, c, All!Totp!Program(c.op))
    BY <1>2 DEF All!Start
  <2>2. c \in Call /\ All!Begin(t, c, Program(c.op))
    BY <2>1, SamePrograms, Zenon DEF All!TotpCalls, All!Totp!Call, Call, All!Totp!Counters, Counters
  <2>3. Begin(t, c, Program(c.op))
    BY <2>2, Zenon DEF All!Begin, Begin, All!Put, Put, All!Idle, Idle, All!NoCall, NoCall
  <2>4. QED
    BY <1>2, <2>2, <2>3 DEF Next, All!Start
<1>3. CASE All!StartBulk(t)
  BY <1>3 DEF All!StartBulk
<1>4. CASE All!Statement(t)
  BY <1>4, SameStatements DEF All!Statement, Next
<1>5. CASE All!StatementFails(t)
  <2>1. Fail(t)
    BY <1>5, Zenon DEF All!StatementFails, All!Fail, Fail, All!End, End, All!Put, Put, All!Idle, Idle,
       All!NoCall, NoCall, All!Running, Running, All!Seen, Seen
  <2>2. QED
    BY <1>5, <2>1 DEF Next, All!StatementFails
<1>6. QED
  BY <1>1, <1>2, <1>3, <1>4, <1>5

(* Every step of Stores is a step of the atomic store, or none of it.      *)
LEMMA NextHInv ==
  HInv /\ [All!Next]_(All!vars) =>
    HInv' /\ [All!Contract!Next]_<<IF bulk THEN {} ELSE db, All!Answers>>
<1> SUFFICES ASSUME HInv, [All!Next]_(All!vars)
             PROVE  /\ HInv'
                    /\ \/ All!Contract!Next
                       \/ UNCHANGED <<IF bulk THEN {} ELSE db, All!Answers>>
  OBVIOUS
<1>1. [Next]_sqlVars /\ UNCHANGED <<family, bulk>>
  BY TotpStep DEF HInv, All!vars, sqlVars
<1>2. Inv' /\ (Contract!Next \/ UNCHANGED <<db, Outcome>>)
  BY <1>1, NextInv DEF HInv
<1>3. HInv'
  BY <1>1, <1>2 DEF HInv
<1>4. All!Answers = Outcome /\ (IF bulk THEN {} ELSE db) = db
  BY TotpAnswers DEF HInv
<1>5. All!Answers' = Outcome' /\ (IF bulk' THEN {} ELSE db') = db'
  BY <1>3 DEF HInv, All!Answers, All!Outcome, Outcome, All!Done, Done, All!NoCall, NoCall
<1>6. CASE Contract!Next
  <2>0. PICK t \in Txns : \E x :
          /\ Outcome'[t] # <<>> /\ Outcome'[t] # Outcome[t] /\ x = Outcome'[t][1] /\ x \in Call
          /\ Contract!Perform(t, x) \/ Contract!Lose(t, x) \/ Contract!Reply(t, x)
    BY <1>6, Zenon DEF Contract!Next
  <2>1. PICK c :
          /\ Outcome'[t] # <<>> /\ Outcome'[t] # Outcome[t] /\ c = Outcome'[t][1] /\ c \in Call
          /\ Contract!Perform(t, c) \/ Contract!Lose(t, c) \/ Contract!Reply(t, c)
    BY <2>0, Zenon
  <2>2. c \in All!ContractCalls /\ All!ContractMethod(c, db) = Method(c, db)
    BY <2>1, TotpContract
  <2>3. Contract!Perform(t, c) => All!Contract!Perform(t, c)
    BY <1>4, <1>5, <2>2, Zenon DEF Contract!Perform, All!Contract!Perform
  <2>4. Contract!Lose(t, c) => All!Contract!Lose(t, c)
    BY <1>4, <1>5, <2>2 DEF Contract!Lose, All!Contract!Lose, Contract!Err, All!Contract!Err
  <2>5. Contract!Reply(t, c) => All!Contract!Reply(t, c)
    BY <1>4, <1>5, Zenon DEF Contract!Reply, All!Contract!Reply, Contract!Err, All!Contract!Err
  <2>6. All!Contract!Next
    BY <1>4, <1>5, <2>1, <2>2, <2>3, <2>4, <2>5 DEF All!Contract!Next
  <2>7. QED
    BY <1>3, <2>6
<1>7. CASE UNCHANGED <<db, Outcome>>
  BY <1>3, <1>4, <1>5, <1>7
<1>8. QED
  BY <1>2, <1>6, <1>7

(* However its statements interleave and fail, a TOTP call of Stores takes *)
(* effect at one moment and returns what an atomic store would have        *)
(* returned then: two confirmations cannot both promote, no write lowers a *)
(* counter, and refusedSaveError explains a refusal rightly.               *)
THEOREM TotpImplementsContract == All!Spec /\ family = "totp" => All!ImplementsContract
<1>1. HInv /\ [All!Next]_(All!vars) => HInv'
  BY NextHInv
<1>2. HInv /\ [All!Next]_(All!vars) =>
        [All!Contract!Next]_<<IF bulk THEN {} ELSE db, All!Answers>>
  BY NextHInv
<1>3. QED
  BY <1>1, <1>2, InitHInv, PTL DEF All!Spec, All!ImplementsContract, All!Contract!Spec

=============================================================================
