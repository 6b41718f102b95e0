---------------------------- MODULE SqlRecovery ----------------------------
(***************************************************************************)
(* The recovery-code stores of src/memstore, src/store/sql/postgres and    *)
(* src/store/sql/sqlite, statement by statement.  Of PostgreSQL's methods  *)
(* only ConsumeCode takes the user's advisory lock.                        *)
(***************************************************************************)
EXTENDS Sql

CONSTANTS Generations,   \* sets of code hashes, one per call of Generate
          FirstCodes     \* the generation the user may start with

(* Codes are random: a code of one generation is never one of another.     *)
HashesOf == UNION Generations \cup FirstCodes

(* What recovery.Service asks of its store.  The rate limiter refuses a    *)
(* Consume before the store is reached.                                    *)
Generate == [op : {"ReplaceCodes"}, user : {"u"}, hashes : Generations]
Consume == [op : {"ConsumeCode"}, user : {"u"}, hash : HashesOf]
Remaining == [op : {"CountCodes"}, user : {"u"}]
Disable == [op : {"DeleteCodes"}, user : {"u"}]

CodeCall == Generate \cup Consume \cup Remaining

BulkCall == Disable

CodeRow(user, hash) == [key |-> <<user, hash>>, user |-> user]

Codes(rows, user) == {r \in rows : r.user = user}

Ret(rows, res) == [rows |-> rows, res |-> res]

CodeNotFound == <<"codeNotFound">>

ReplaceCodes(rows, user, hashes) ==
  Ret((rows \ Codes(rows, user)) \cup {CodeRow(user, h) : h \in hashes}, <<"ok">>)

ConsumeCode(rows, user, hash) ==
  LET left == rows \ {CodeRow(user, hash)} IN
  IF CodeRow(user, hash) \in rows
    THEN Ret(left, <<"ok", Cardinality(Codes(left, user))>>)
    ELSE Ret(rows, CodeNotFound)

CountCodes(rows, user) == Ret(rows, <<"ok", Cardinality(Codes(rows, user))>>)

DeleteCodes(rows, user) == Ret(rows \ Codes(rows, user), <<"ok">>)

Method(c, rows) ==
  CASE c.op = "ReplaceCodes" -> ReplaceCodes(rows, c.user, c.hashes)
    [] c.op = "ConsumeCode"  -> ConsumeCode(rows, c.user, c.hash)
    [] c.op = "CountCodes"   -> CountCodes(rows, c.user)
    [] c.op = "DeleteCodes"  -> DeleteCodes(rows, c.user)

-----------------------------------------------------------------------------

PgReplaceCodes == <<"snapshot", "deleteEach", "insert", "commit">>

MutPgConsumeCode == <<"deleteCode", "count", "commit">>

PgConsumeCode == <<"lockUser", "deleteCode", "count", "commit">>
PgCountCodes == <<"select">>
PgDeleteCodes == <<"snapshot", "deleteEach", "commit">>
SqliteReplaceCodes == <<"connect", "snapshot", "deleteEach", "insert", "commit">>
SqliteConsumeCode == <<"connect", "deleteCode", "count", "commit">>
SqliteCountCodes == <<"connect", "select">>
SqliteDeleteCodes == <<"connect", "snapshot", "deleteEach", "commit">>

Program(op) ==
  CASE impl = "memstore" -> <<"method">>
    [] impl = "postgres" ->
         [ReplaceCodes |-> PgReplaceCodes, ConsumeCode |-> PgConsumeCode,
          CountCodes |-> PgCountCodes, DeleteCodes |-> PgDeleteCodes][op]
    [] impl = "sqlite" ->
         [ReplaceCodes |-> SqliteReplaceCodes, ConsumeCode |-> SqliteConsumeCode,
          CountCodes |-> SqliteCountCodes, DeleteCodes |-> SqliteDeleteCodes][op]

method(t) ==
  /\ Running(t, "method")
  /\ LET m == Method(txn[t].call, db) IN End(t, m.rows, m.res)

lockUser(t) ==
  Running(t, "lockUser") /\ Acquire(t, <<"recovery", txn[t].call.user>>)

select(t) ==
  Running(t, "select") /\ Return(t, Method(txn[t].call, Seen(t)).res)

deleteAll(t) ==
  /\ Running(t, "snapshot") \/ Running(t, "deleteEach")
  /\ \/ Snapshot(t, Codes(Seen(t), txn[t].call.user))
     \/ DeleteEach(t, Codes(Seen(t), txn[t].call.user))

insert(t) ==
  LET c == txn[t].call IN
  /\ Running(t, "insert")
  /\ Proceed(t, Rewrite(txn[t], {}, {CodeRow(c.user, h) : h \in c.hashes}))

deleteCode(t) ==
  LET row == {CodeRow(txn[t].call.user, txn[t].call.hash)} \cap Seen(t) IN
  /\ Running(t, "deleteCode")
  /\ ~AnyLocked(t, row)
  /\ IF row = {} THEN Return(t, CodeNotFound)
     ELSE Proceed(t, Rewrite(txn[t], row, {}))

count(t) ==
  /\ Running(t, "count")
  /\ Proceed(t, [txn[t] EXCEPT !.res = CountCodes(Seen(t), txn[t].call.user).res])

Statement(t) ==
  \/ method(t) \/ connect(t) \/ lockUser(t) \/ select(t) \/ deleteAll(t)
  \/ insert(t) \/ deleteCode(t) \/ count(t) \/ commit(t)

-----------------------------------------------------------------------------

Databases == {{}, {CodeRow("u", h) : h \in FirstCodes}}

Calling == {txn[s].call : s \in Txns} \ {NoCall}

(* A generation is stored once.                                            *)
Allowed(c) ==
  c.op = "ReplaceCodes" =>
    \A d \in Calling : d.op = "ReplaceCodes" => d.hashes # c.hashes

Matching(rows, c) == Codes(rows, c.user)

=============================================================================
