--------------------------------- MODULE Mvcc ---------------------------------
(***************************************************************************)
(* Transactions: TransactionManager, VersionStore, LogManager and          *)
(* RecoveryManager, driven by Sessions that execute INSERT, DELETE,        *)
(* UPDATE, BEGIN, COMMIT and ROLLBACK.                                     *)
(*                                                                         *)
(* Each of those classes locks itself per method, and Session calls them   *)
(* one after the other without a lock of its own, so an action is one      *)
(* method call and sessions interleave between the calls.  A crash can     *)
(* come between any two of them.                                           *)
(*                                                                         *)
(* A row is a table and a RID.  RIDs count from 0 in every table: the      *)
(* version store is keyed by the RID alone.                                *)
(***************************************************************************)
EXTENDS Integers, FiniteSets, Sequences

CONSTANTS
  Sessions,    \* sessions, one thread each
  Tables,
  MaxTxns,     \* bound: transactions begun
  MaxRows,     \* bound: rows inserted per table
  MaxDeletes,  \* bound: deletes of a transaction
  Preloaded,   \* rows committed before the sessions start
  NoMeta, NoTxn, NoRow, NoStmt   \* sentinels

ASSUME MvccAssumption ==
  /\ MaxTxns \in Nat /\ MaxRows \in Nat /\ MaxDeletes \in Nat
  /\ Preloaded \in 0 .. MaxTxns /\ Preloaded <= MaxRows
  /\ Tables # {} /\ Sessions # {}
  /\ NoTxn \notin Int /\ NoRow \notin Tables \X Nat
  /\ NoMeta \notin [bTxn : Int, bTs : Int, eTxn : Int, eTs : Int]
  /\ NoStmt \notin [kind : {"insert", "delete", "update"}, table : Tables,
                    auto : BOOLEAN, upto : Nat]

TxnIds == 1 .. MaxTxns
Rids == 0 .. MaxRows - 1
Rows == Tables \X Rids

Invalid == -1     \* INVALID_TXN_ID and INVALID_TS

VARIABLES
  nextTxn, nextCommitTs, lastCommitTs,  \* the counters of TransactionManager
  readTs, commitTs, state,              \* Transaction, by its id
  inserts, deletes,                     \* its insert_set_ and delete_set_
  store,       \* VersionStore::store_, RID to VersionMeta
  log,         \* the records of the log file
  flushed,     \* how many of them are on disk for certain
  rowCount,    \* rows each table's pages hold
  current,     \* Session::current_txn_
  explicit,    \* Session::in_explicit_txn_
  pc,          \* what the session's thread does next
  stmt,        \* its statement: whether it commits by itself, where its scan ends
  target,      \* the row it works on
  todo,        \* the RIDs FinalizeCommit or AbortTxn has not come to yet
  up           \* is the process running?

txnVars == <<nextTxn, nextCommitTs, lastCommitTs, readTs, commitTs, state>>
sets == <<inserts, deletes>>
walVars == <<log, flushed>>
sessionVars == <<current, explicit, pc, stmt, target, todo>>
vars == <<txnVars, sets, store, walVars, rowCount, sessionVars, up>>

-----------------------------------------------------------------------------
\* VersionStore.

FreshMeta(t) == [bTxn |-> t, bTs |-> Invalid, eTxn |-> Invalid, eTs |-> Invalid]

OnInsert(rid, t) == store' = [store EXCEPT ![rid] = FreshMeta(t)]

\* The methods that do nothing for a RID without metadata.
IfKnown(rid, new) == store' = IF store[rid] = NoMeta THEN store
                              ELSE [store EXCEPT ![rid] = new]

OnDelete(rid, t) == IfKnown(rid, [store[rid] EXCEPT !.eTxn = t, !.eTs = Invalid])
CommitInsert(rid, ts) == IfKnown(rid, [store[rid] EXCEPT !.bTs = ts])
CommitDelete(rid, ts) == IfKnown(rid, [store[rid] EXCEPT !.eTs = ts])

\* Mutant of AbortDelete: the mark is reset to zero, not to INVALID_TXN_ID.
AbortDeleteToZero(rid) == IfKnown(rid, [store[rid] EXCEPT !.eTxn = 0, !.eTs = Invalid])
AbortDelete(rid) == IfKnown(rid, [store[rid] EXCEPT !.eTxn = Invalid, !.eTs = Invalid])

\* Mutant of AbortInsert: the entry is erased.
AbortInsertErases(rid) == store' = [store EXCEPT ![rid] = NoMeta]

\* The entry stays, as one that nobody created.
AbortInsert(rid) == store' = [store EXCEPT ![rid] = FreshMeta(Invalid)]

\* IsVisible to a transaction with this id and snapshot.
BeginVisible(m, self, snapshot) ==
  m.bTxn = self \/ (m.bTs # Invalid /\ m.bTs <= snapshot)

EndEffective(m, self, snapshot) ==
  m.eTxn # Invalid /\ (m.eTxn = self \/ (m.eTs # Invalid /\ m.eTs <= snapshot))

IsVisible(rid, self, snapshot) ==
  store[rid] # NoMeta => /\ BeginVisible(store[rid], self, snapshot)
                         /\ ~EndEffective(store[rid], self, snapshot)

\* What a scan of transaction t returns of row x.
Sees(t, x) == /\ x[2] < rowCount[x[1]]
              /\ IsVisible(x[2], t, readTs[t])

-----------------------------------------------------------------------------
\* LogManager.

Record(type, t, x, ts) == [type |-> type, txn |-> t, row |-> x, ts |-> ts]
AppendLog(rec) == log' = Append(log, rec) /\ UNCHANGED flushed
FlushLog == flushed' = Len(log) /\ UNCHANGED log

-----------------------------------------------------------------------------
\* Session: statements.

Txn(s) == current[s]
At(s, where) == up /\ pc[s] = where
Goto(s, where) == pc' = [pc EXCEPT ![s] = where]

\* TransactionManager::Begin and the BEGIN record.
BeginTxn(s) ==
  /\ nextTxn <= MaxTxns
  /\ current' = [current EXCEPT ![s] = nextTxn]
  /\ readTs' = [readTs EXCEPT ![nextTxn] = lastCommitTs]
  /\ state' = [state EXCEPT ![nextTxn] = "running"]
  /\ nextTxn' = nextTxn + 1
  /\ AppendLog(Record("BEGIN", nextTxn, NoRow, Invalid))
  /\ UNCHANGED <<nextCommitTs, lastCommitTs, commitTs, sets>>

\* BEGIN.  A transaction a failed statement left behind is dropped, unfinished.
Begin(s) ==
  /\ At(s, "idle") /\ ~explicit[s]
  /\ BeginTxn(s)
  /\ explicit' = [explicit EXCEPT ![s] = TRUE]
  /\ UNCHANGED <<pc, stmt, target, todo, store, rowCount, up>>

\* A statement begins: without an explicit transaction it commits by itself.
Start(s, kind, t) ==
  /\ At(s, "idle")
  /\ IF current[s] = NoTxn THEN BeginTxn(s) ELSE UNCHANGED <<txnVars, sets, walVars, current>>
  /\ stmt' = [stmt EXCEPT ![s] = [kind |-> kind, table |-> t, auto |-> ~explicit[s], upto |-> 0]]
  /\ Goto(s, IF kind = "insert" THEN "page" ELSE "open")
  /\ target' = [target EXCEPT ![s] = NoRow]
  /\ UNCHANGED <<explicit, todo, store, rowCount, up>>

\* The binder or the executor throws before the statement has written: the
\* exception leaves the transaction to the session.
Fail(s) ==
  /\ up /\ pc[s] \in {"page", "open"} /\ target[s] = NoRow
  /\ Goto(s, "idle") /\ stmt' = [stmt EXCEPT ![s] = NoStmt]
  /\ UNCHANGED <<txnVars, sets, store, walVars, rowCount, current, explicit,
                 target, todo, up>>

\* The last step of a statement.
Finish(s) == /\ Goto(s, IF stmt[s].auto THEN "stamp" ELSE "idle")
             /\ stmt' = [stmt EXCEPT ![s] = NoStmt]
             /\ target' = [target EXCEPT ![s] = NoRow]

-----------------------------------------------------------------------------
\* ExecuteInsert, one row; and the second half of ExecuteUpdate.

\* NewPage, BuildFromColumns, UnpinPage: the row is there for every scan.
WritePage(s) ==
  LET t == stmt[s].table
      x == <<t, rowCount[t]>>
  IN  /\ At(s, "page") /\ rowCount[t] < MaxRows
      /\ rowCount' = [rowCount EXCEPT ![t] = @ + 1]
      /\ target' = [target EXCEPT ![s] = x]
      /\ Goto(s, "logInsert")
      /\ UNCHANGED <<txnVars, sets, store, walVars, current, explicit, stmt, todo, up>>

LogInsert(s) ==
  /\ At(s, "logInsert")
  /\ AppendLog(Record("INSERT", Txn(s), target[s], Invalid))
  /\ Goto(s, "regInsert")
  /\ UNCHANGED <<txnVars, sets, store, rowCount, current, explicit, stmt, target, todo,
                 up>>

\* VersionStore::OnInsert and the transaction's own insert_set_.
RegisterInsert(s) ==
  /\ At(s, "regInsert")
  /\ OnInsert(target[s][2], Txn(s))
  /\ inserts' = [inserts EXCEPT ![Txn(s)] = Append(@, target[s])]
  /\ Goto(s, "flushInsert")
  /\ UNCHANGED <<txnVars, deletes, walVars, rowCount, current, explicit, stmt, target,
                 todo, up>>

FlushInsert(s) ==
  /\ At(s, "flushInsert")
  /\ FlushLog /\ Finish(s)
  /\ UNCHANGED <<txnVars, sets, store, rowCount, current, explicit, todo, up>>

-----------------------------------------------------------------------------
\* ExecuteDelete, and the first half of ExecuteUpdate.

\* GetPageCount: later pages are not scanned.  Of an empty table page 0 is.
OpenScan(s) ==
  /\ At(s, "open")
  /\ LET n == rowCount[stmt[s].table]
     IN  stmt' = [stmt EXCEPT ![s].upto = IF n > 0 THEN n ELSE 1]
  /\ Goto(s, "scan")
  /\ UNCHANGED <<txnVars, sets, store, walVars, rowCount, current, explicit, target, todo,
                 up>>

\* The scan comes to a row that the transaction sees and the predicate selects.
Scan(s, x) ==
  /\ At(s, "scan") /\ x[1] = stmt[s].table /\ x[2] < stmt[s].upto
  /\ Sees(Txn(s), x) /\ Len(deletes[Txn(s)]) < MaxDeletes
  /\ target[s] # NoRow => target[s][2] < x[2]
  /\ target' = [target EXCEPT ![s] = x]
  /\ Goto(s, "logDelete")
  /\ UNCHANGED <<txnVars, sets, store, walVars, rowCount, current, explicit, stmt, todo,
                 up>>

LogDelete(s) ==
  /\ At(s, "logDelete")
  /\ AppendLog(Record("DELETE", Txn(s), target[s], Invalid))
  /\ Goto(s, "regDelete")
  /\ UNCHANGED <<txnVars, sets, store, rowCount, current, explicit, stmt, target, todo,
                 up>>

\* VersionStore::OnDelete and the transaction's own delete_set_.
RegisterDelete(s) ==
  /\ At(s, "regDelete")
  /\ OnDelete(target[s][2], Txn(s))
  /\ deletes' = [deletes EXCEPT ![Txn(s)] = Append(@, target[s])]
  /\ Goto(s, IF stmt[s].kind = "update" THEN "page" ELSE "scan")
  /\ UNCHANGED <<txnVars, inserts, walVars, rowCount, current, explicit, stmt, target,
                 todo, up>>

\* The scan has come to its end.  ExecuteUpdate flushes the log in any case.
EndScan(s) ==
  /\ At(s, "scan")
  /\ IF stmt[s].kind = "delete" THEN Finish(s)
     ELSE Goto(s, "flushInsert") /\ UNCHANGED <<stmt, target>>
  /\ UNCHANGED <<txnVars, sets, store, walVars, rowCount, current, explicit, todo,
                 up>>

-----------------------------------------------------------------------------
\* Session::CommitTxn: TransactionManager::Commit, then FinalizeCommit.

Commit(s) == /\ At(s, "idle") /\ current[s] # NoTxn
             /\ Goto(s, "stamp")
             /\ UNCHANGED <<txnVars, sets, store, walVars, rowCount, current, explicit,
                            stmt, target, todo, up>>

Stamp(s) ==
  /\ At(s, "stamp")
  /\ commitTs' = [commitTs EXCEPT ![Txn(s)] = nextCommitTs]
  /\ nextCommitTs' = nextCommitTs + 1
  /\ state' = [state EXCEPT ![Txn(s)] = "committed"]
  /\ Goto(s, "publish")
  /\ UNCHANGED <<nextTxn, lastCommitTs, readTs, sets, store, walVars, rowCount, current,
                 explicit, stmt, target, todo, up>>

\* Mutant of Publish: the last one to come sets the timestamp.
PublishLast(s) ==
  /\ At(s, "publish")
  /\ lastCommitTs' = commitTs[Txn(s)]
  /\ Goto(s, "logCommit")
  /\ UNCHANGED <<nextTxn, nextCommitTs, readTs, commitTs, state, sets, store, walVars,
                 rowCount, current, explicit, stmt, target, todo, up>>

\* The compare-exchange loop: last_commit_ts_ only grows.
Publish(s) ==
  /\ At(s, "publish")
  /\ lastCommitTs' = IF lastCommitTs < commitTs[Txn(s)] THEN commitTs[Txn(s)] ELSE lastCommitTs
  /\ Goto(s, "logCommit")
  /\ UNCHANGED <<nextTxn, nextCommitTs, readTs, commitTs, state, sets, store, walVars,
                 rowCount, current, explicit, stmt, target, todo, up>>

LogCommit(s) ==
  /\ At(s, "logCommit")
  /\ AppendLog(Record("COMMIT", Txn(s), NoRow, commitTs[Txn(s)]))
  /\ Goto(s, "flushCommit")
  /\ UNCHANGED <<txnVars, sets, store, rowCount, current, explicit, stmt, target, todo,
                 up>>

\* What is left to finish: the transaction's own writes.
Writes(s) == [ins |-> inserts[Txn(s)], del |-> deletes[Txn(s)]]

\* Mutant of FlushCommit: the back-fill does not wait for the disk.
FlushCommitLater(s) ==
  /\ At(s, "flushCommit")
  /\ todo' = [todo EXCEPT ![s] = Writes(s)]
  /\ Goto(s, "backfill")
  /\ UNCHANGED <<txnVars, sets, store, walVars, rowCount, current, explicit, stmt, target,
                 up>>

FlushCommit(s) ==
  /\ At(s, "flushCommit")
  /\ FlushLog
  /\ todo' = [todo EXCEPT ![s] = Writes(s)]
  /\ Goto(s, "backfill")
  /\ UNCHANGED <<txnVars, sets, store, rowCount, current, explicit, stmt, target,
                 up>>

\* current_txn_ = nullptr, in_explicit_txn_ = false.
EndTxn(s) == /\ current' = [current EXCEPT ![s] = NoTxn]
             /\ explicit' = [explicit EXCEPT ![s] = FALSE]
             /\ Goto(s, "idle")

\* The next of the writes comes off the list, inserts first.
NextInsert(s) == /\ todo[s].ins # <<>>
                 /\ todo' = [todo EXCEPT ![s].ins = Tail(@)]
NextDelete(s) == /\ todo[s].ins = <<>> /\ todo[s].del # <<>>
                 /\ todo' = [todo EXCEPT ![s].del = Tail(@)]

Done(s) == todo[s].ins = <<>> /\ todo[s].del = <<>>

Backfill(s) ==
  /\ At(s, "backfill")
  /\ \/ NextInsert(s) /\ CommitInsert(Head(todo[s].ins)[2], commitTs[Txn(s)])
     \/ NextDelete(s) /\ CommitDelete(Head(todo[s].del)[2], commitTs[Txn(s)])
  /\ UNCHANGED <<txnVars, sets, walVars, rowCount, current, explicit, pc, stmt, target,
                 up>>

EndCommit(s) ==
  /\ At(s, "backfill") /\ Done(s)
  /\ EndTxn(s)
  /\ UNCHANGED <<txnVars, sets, store, walVars, rowCount, stmt, target, todo, up>>

-----------------------------------------------------------------------------
\* Session::AbortTxn.

Rollback(s) ==
  /\ At(s, "idle") /\ current[s] # NoTxn
  /\ AppendLog(Record("ABORT", Txn(s), NoRow, Invalid))
  /\ Goto(s, "flushAbort")
  /\ UNCHANGED <<txnVars, sets, store, rowCount, current, explicit, stmt, target, todo,
                 up>>

FlushAbort(s) ==
  /\ At(s, "flushAbort")
  /\ FlushLog
  /\ todo' = [todo EXCEPT ![s] = Writes(s)]
  /\ Goto(s, "undo")
  /\ UNCHANGED <<txnVars, sets, store, rowCount, current, explicit, stmt, target,
                 up>>

Undo(s) ==
  /\ At(s, "undo")
  /\ \/ NextInsert(s) /\ AbortInsert(Head(todo[s].ins)[2])
     \/ NextDelete(s) /\ AbortDelete(Head(todo[s].del)[2])
  /\ UNCHANGED <<txnVars, sets, walVars, rowCount, current, explicit, pc, stmt, target,
                 up>>

EndAbort(s) ==
  /\ At(s, "undo") /\ Done(s)
  /\ state' = [state EXCEPT ![Txn(s)] = "aborted"]
  /\ EndTxn(s)
  /\ UNCHANGED <<nextTxn, nextCommitTs, lastCommitTs, readTs, commitTs, sets, store, walVars,
                 rowCount, stmt, target, todo, up>>

-----------------------------------------------------------------------------
\* Crash and RecoveryManager::Recover.

\* What the process has in memory when it starts.
FreshMemory ==
  [nextTxn |-> 1, nextCommitTs |-> 1, lastCommitTs |-> 0,
   readTs |-> [t \in TxnIds |-> 0], commitTs |-> [t \in TxnIds |-> Invalid],
   state |-> [t \in TxnIds |-> "none"], writes |-> [t \in TxnIds |-> <<>>],
   store |-> [r \in Rids |-> NoMeta]]

\* Power fails and memory is lost.  The flushed records of the log are there, of
\* the others any prefix.  Which pages are in their files is left open.
Crash ==
  /\ up /\ up' = FALSE
  /\ \E n \in flushed .. Len(log) : log' = SubSeq(log, 1, n) /\ flushed' = n
  /\ nextTxn' = FreshMemory.nextTxn /\ nextCommitTs' = FreshMemory.nextCommitTs
  /\ lastCommitTs' = FreshMemory.lastCommitTs /\ readTs' = FreshMemory.readTs
  /\ commitTs' = FreshMemory.commitTs /\ state' = FreshMemory.state
  /\ inserts' = FreshMemory.writes /\ deletes' = FreshMemory.writes
  /\ store' = FreshMemory.store
  /\ current' = [s \in Sessions |-> NoTxn]
  /\ explicit' = [s \in Sessions |-> FALSE]
  /\ pc' = [s \in Sessions |-> "down"]
  /\ todo' = [s \in Sessions |-> [ins |-> <<>>, del |-> <<>>]]
  /\ stmt' = [s \in Sessions |-> NoStmt]
  /\ target' = [s \in Sessions |-> NoRow]
  /\ UNCHANGED rowCount

Committed == {log[i].txn : i \in {j \in 1 .. Len(log) : log[j].type = "COMMIT"}}

CommitRecord(t) == CHOOSE i \in 1 .. Len(log) :
                     /\ log[i].type = "COMMIT" /\ log[i].txn = t
                     /\ \A j \in i + 1 .. Len(log) : log[j].type = "COMMIT" => log[j].txn # t

\* The records of that type for this RID that the second pass replays.
Replayed(type, rid) == {i \in 1 .. Len(log) : /\ log[i].type = type
                                              /\ log[i].row[2] = rid
                                              /\ log[i].txn \in Committed}

LastOf(S) == CHOOSE i \in S : \A j \in S : j <= i

\* Mutant of RecoveredMeta: the second pass skips the DELETE records.
RecoveredInsert(rid) ==
  IF Replayed("INSERT", rid) = {} THEN NoMeta
  ELSE LET t == log[LastOf(Replayed("INSERT", rid))].txn
       IN  [FreshMeta(t) EXCEPT !.bTs = log[CommitRecord(t)].ts]

\* The metadata the second pass leaves for a RID: the last INSERT and the last
\* DELETE of committed transactions, each with its transaction's timestamp.
RecoveredMeta(rid) ==
  LET last(type) == IF Replayed(type, rid) = {} THEN Invalid
                    ELSE log[LastOf(Replayed(type, rid))].txn
      ts(t) == IF t = Invalid THEN Invalid ELSE log[CommitRecord(t)].ts
  IN  IF Replayed("INSERT", rid) \cup Replayed("DELETE", rid) = {} THEN NoMeta
      ELSE [bTxn |-> last("INSERT"), bTs |-> ts(last("INSERT")),
            eTxn |-> last("DELETE"), eTs |-> ts(last("DELETE"))]

MaxOf(S, least) == CHOOSE n \in S \cup {least} : \A m \in S \cup {least} : m <= n

Recover ==
  /\ ~up /\ \A s \in Sessions : pc[s] = "down"
  /\ store' = [r \in Rids |-> RecoveredMeta(r)]
  /\ nextTxn' = MaxOf({log[i].txn : i \in 1 .. Len(log)}, 0) + 1
  /\ lastCommitTs' = MaxOf({log[i].ts : i \in 1 .. Len(log)}, 0)
  /\ nextCommitTs' = lastCommitTs' + 1
  /\ pc' = [s \in Sessions |-> "recovered"]
  /\ UNCHANGED <<readTs, commitTs, state, sets, walVars, rowCount, current, explicit, stmt,
                 target, todo, up>>

\* Nothing more is looked at after a recovery.
Rest == (\A s \in Sessions : pc[s] = "recovered") /\ UNCHANGED vars

-----------------------------------------------------------------------------
\* The process has started, with the rows 0 .. Preloaded - 1 in the first table,
\* each inserted by a transaction of its own that has committed.
Init ==
  LET loaded == 1 .. Preloaded
      t0 == CHOOSE t \in Tables : TRUE
      records(i) == <<Record("BEGIN", i, NoRow, Invalid),
                      Record("INSERT", i, <<t0, i - 1>>, Invalid),
                      Record("COMMIT", i, NoRow, i)>>
  IN
  /\ nextTxn = Preloaded + 1 /\ nextCommitTs = Preloaded + 1 /\ lastCommitTs = Preloaded
  /\ readTs = [t \in TxnIds |-> IF t \in loaded THEN t - 1 ELSE 0]
  /\ commitTs = [t \in TxnIds |-> IF t \in loaded THEN t ELSE Invalid]
  /\ state = [t \in TxnIds |-> IF t \in loaded THEN "committed" ELSE "none"]
  /\ inserts = [t \in TxnIds |-> IF t \in loaded THEN <<<<t0, t - 1>>>> ELSE <<>>]
  /\ deletes = [t \in TxnIds |-> <<>>]
  /\ store = [r \in Rids |-> IF r < Preloaded THEN [FreshMeta(r + 1) EXCEPT !.bTs = r + 1]
                             ELSE NoMeta]
  /\ log = [k \in 1 .. 3 * Preloaded |-> records((k + 2) \div 3)[((k - 1) % 3) + 1]]
  /\ flushed = 3 * Preloaded
  /\ rowCount = [t \in Tables |-> IF t = t0 THEN Preloaded ELSE 0]
  /\ current = [s \in Sessions |-> NoTxn]
  /\ explicit = [s \in Sessions |-> FALSE]
  /\ pc = [s \in Sessions |-> "idle"]
  /\ stmt = [s \in Sessions |-> NoStmt]
  /\ target = [s \in Sessions |-> NoRow]
  /\ todo = [s \in Sessions |-> [ins |-> <<>>, del |-> <<>>]]
  /\ up = TRUE

Kinds == {"insert", "delete", "update"}

\* A client's choice of what to do next.
Command(s) == \/ Begin(s) \/ Commit(s) \/ Rollback(s)
              \/ \E kind \in Kinds, t \in Tables : Start(s, kind, t)

\* A thread inside a command: it runs on until the command is done.
Step(s) == \/ Fail(s) \/ EndScan(s) \/ (\E x \in Rows : Scan(s, x))
           \/ WritePage(s) \/ LogInsert(s) \/ RegisterInsert(s) \/ FlushInsert(s)
           \/ OpenScan(s) \/ LogDelete(s) \/ RegisterDelete(s)
           \/ Stamp(s) \/ Publish(s) \/ LogCommit(s) \/ FlushCommit(s)
           \/ Backfill(s) \/ EndCommit(s)
           \/ FlushAbort(s) \/ Undo(s) \/ EndAbort(s)

Next == (\E s \in Sessions : Command(s) \/ Step(s)) \/ Crash \/ Recover \/ Rest

Spec == Init /\ [][Next]_vars
-----------------------------------------------------------------------------
\* Properties.

Stages == {"idle", "page", "logInsert", "regInsert", "flushInsert", "open", "scan",
           "logDelete", "regDelete", "stamp", "publish", "logCommit", "flushCommit",
           "backfill", "flushAbort", "undo", "down", "recovered"}

MaybeTxn == TxnIds \cup {Invalid}
MaybeTs == TxnIds \cup {Invalid}
Metas == [bTxn : MaybeTxn, bTs : MaybeTs, eTxn : MaybeTxn, eTs : MaybeTs]
Records == [type : {"BEGIN", "INSERT", "DELETE", "COMMIT", "ABORT"},
            txn : TxnIds, row : Rows \cup {NoRow}, ts : MaybeTs]
Stmts == [kind : Kinds, table : Tables, auto : BOOLEAN, upto : Nat]

TypeOK ==
  /\ nextTxn \in 1 .. MaxTxns + 1 /\ nextCommitTs \in 1 .. MaxTxns + 1
  /\ lastCommitTs \in 0 .. MaxTxns
  /\ readTs \in [TxnIds -> 0 .. MaxTxns] /\ commitTs \in [TxnIds -> MaybeTs]
  /\ state \in [TxnIds -> {"none", "running", "committed", "aborted"}]
  /\ inserts \in [TxnIds -> Seq(Rows)] /\ deletes \in [TxnIds -> Seq(Rows)]
  /\ store \in [Rids -> Metas \cup {NoMeta}]
  /\ log \in Seq(Records)
  /\ flushed \in 0 .. Len(log)
  /\ rowCount \in [Tables -> 0 .. MaxRows]
  /\ current \in [Sessions -> TxnIds \cup {NoTxn}] /\ explicit \in [Sessions -> BOOLEAN]
  /\ pc \in [Sessions -> Stages] /\ target \in [Sessions -> Rows \cup {NoRow}]
  /\ stmt \in [Sessions -> Stmts \cup {NoStmt}]
  /\ todo \in [Sessions -> [ins : Seq(Rows), del : Seq(Rows)]]
  /\ up \in BOOLEAN

Has(seq, x) == \E i \in 1 .. Len(seq) : seq[i] = x
Inserted(x) == {t \in TxnIds : Has(inserts[t], x)}
Deleters(x) == {t \in TxnIds : Has(deletes[t], x)}

\* Two transactions have deleted the row: nothing in the code stops them.
Contested(x) == \E w1, w2 \in Deleters(x) : w1 # w2

\* A session brings a commit to its end.
Ending(t) == \E s \in Sessions :
               current[s] = t /\ pc[s] \in {"publish", "logCommit", "flushCommit", "backfill"}
Finished(t) == state[t] = "committed" /\ ~Ending(t)

\* A session that reads, and all that commits within its snapshot has done so.
Reading(s) == /\ up /\ current[s] # NoTxn
              /\ pc[s] \notin {"publish", "logCommit", "flushCommit", "backfill",
                              "flushAbort", "undo"}
Settled(s) == \A t \in TxnIds : Ending(t) => readTs[current[s]] < commitTs[t]

\* Transaction t has deleted a row that was its own or committed before it began:
\* it did not come upon the row before RegisterInsert, when everybody sees it.
Entitled(t, x) == \E w \in Inserted(x) :
                    w = t \/ (commitTs[w] # Invalid /\ commitTs[w] <= readTs[t])

\* What snapshot isolation promises transaction t of row x.
Counts(w, t) == w = t \/ (Finished(w) /\ commitTs[w] <= readTs[t])
Promised(t, x) == /\ \E w \in Inserted(x) : Counts(w, t)
                  /\ \A w \in Deleters(x) : ~Counts(w, t)

\* A session sees exactly the rows snapshot isolation promises it, of those the
\* version store knows, two transactions have not both deleted and nobody has
\* deleted before the version store knew them: its own writes, nothing of a
\* transaction still running or rolled back, everything committed within its
\* snapshot (VersionStore::IsVisible).
SnapshotExact ==
  \A s \in Sessions : Reading(s) /\ Settled(s) =>
    \A x \in Rows :
      Inserted(x) # {} /\ ~Contested(x) /\ (\A w \in Deleters(x) : Entitled(w, x)) =>
      (Sees(current[s], x) <=> Promised(current[s], x))

\* A transaction that begins has in its snapshot all that was committed before:
\* however the compare-exchange loops of two commits interleave.
LatestSnapshot == \A t \in TxnIds : up /\ Finished(t) => commitTs[t] <= lastCommitTs

\* No timestamp is in the version store, to be seen by others, before its COMMIT
\* record is on disk (Session::FinalizeCommit).
CommittedIsLogged ==
  up => \A r \in Rids : store[r] # NoMeta =>
          \A ts \in {store[r].bTs, store[r].eTs} \ {Invalid} :
            \E i \in 1 .. flushed : log[i].type = "COMMIT" /\ log[i].ts = ts

\* The transactions that have a record of that type for the row.
Writers(type, x) == {log[i].txn : i \in {j \in 1 .. Len(log) : /\ log[j].type = type
                                                            /\ log[j].row = x}}

OnPages == {x \in Rows : x[2] < rowCount[x[1]]}
FirstSees(x) == IsVisible(x[2], nextTxn, lastCommitTs)
Recovered == \A s \in Sessions : pc[s] = "recovered"

\* After recovery the first transaction sees a row that was committed, if its page
\* is there, unless its delete was committed too.
RecoveryExact ==
  Recovered => \A x \in OnPages : Writers("INSERT", x) \cap Committed # {} =>
    (FirstSees(x) <=> Writers("DELETE", x) \cap Committed = {})

\* A committed delete of a row in the transaction's snapshot stays: no later
\* snapshot has the row (version_store.h: a row is not visible once its delete is
\* committed within the snapshot).
DeleteSticks ==
  \A x \in Rows, t \in TxnIds :
    /\ up /\ t \in Deleters(x) /\ Finished(t)
    /\ \E w \in Inserted(x) : Counts(w, t)
    => ~IsVisible(x[2], MaxTxns + 1, lastCommitTs)
=============================================================================
