----------------------------- MODULE MvccProofs -----------------------------
(***************************************************************************)
(* The commit protocol of Mvcc, for every number of sessions,              *)
(* transactions, tables and rows: types, LatestSnapshot,                   *)
(* CommittedIsLogged and RecoveryExact.                                    *)
(***************************************************************************)
EXTENDS Mvcc, TLAPS, FiniteSetTheorems, SequenceTheorems

-----------------------------------------------------------------------------
\* The inductive invariant.

Committing == {"publish", "logCommit", "flushCommit", "backfill"}
Writing == {"page", "open", "scan", "logInsert", "regInsert", "flushInsert", "logDelete",
            "regDelete"}
OnARow == {"logInsert", "regInsert", "logDelete", "regDelete"}
Running == Stages \ {"down", "recovered"}

\* No two sessions share a transaction.
Apart == \A s1, s2 \in Sessions : current[s1] # NoTxn /\ current[s1] = current[s2] => s1 = s2

\* A thread inside a command has a transaction.
Engaged == \A s \in Sessions : pc[s] \in Running /\ (pc[s] # "idle" => current[s] # NoTxn)

\* That transaction has begun and is as far as its session.
Underway == \A s \in Sessions : current[s] # NoTxn =>
              /\ current[s] < nextTxn
              /\ state[current[s]] = IF pc[s] \in Committing THEN "committed" ELSE "running"

InStatement == \A s \in Sessions : pc[s] \in Writing => stmt[s] # NoStmt
OnTarget == \A s \in Sessions : pc[s] \in OnARow => target[s] # NoRow

\* Ids from nextTxn on are untouched.
Unused == \A t \in TxnIds : t >= nextTxn => /\ state[t] = "none"
                                            /\ inserts[t] = <<>> /\ deletes[t] = <<>>

\* The timestamps drawn are those of the committed transactions.
Stamped == \A t \in TxnIds : IF state[t] = "committed" THEN commitTs[t] \in 1 .. nextCommitTs - 1
                             ELSE commitTs[t] = Invalid
CommittedTxns == {t \in TxnIds : state[t] = "committed"}
Counted == Cardinality(CommittedTxns) = nextCommitTs - 1

\* No snapshot reaches beyond them.
Past == lastCommitTs < nextCommitTs /\ \A t \in TxnIds : readTs[t] < nextCommitTs

\* Who has not published is about to.
Published == \A t \in TxnIds : state[t] = "committed" =>
               \/ commitTs[t] <= lastCommitTs
               \/ \E s \in Sessions : current[s] = t /\ pc[s] = "publish"

\* The COMMIT record comes before the back-fill, in the log and on disk.
LoggedBy(ts, n) == \E i \in 1 .. n : log[i].type = "COMMIT" /\ log[i].ts = ts
CommitLogged == \A s \in Sessions :
                  /\ pc[s] = "flushCommit" => LoggedBy(commitTs[current[s]], Len(log))
                  /\ pc[s] = "backfill" => LoggedBy(commitTs[current[s]], flushed)
StoreLogged == \A r \in Rids, ts \in TxnIds :
                 store[r] # NoMeta /\ (store[r].bTs = ts \/ store[r].eTs = ts)
                 => LoggedBy(ts, flushed)

RunParts == /\ Apart /\ Engaged /\ Underway /\ InStatement /\ OnTarget /\ Unused
            /\ Stamped /\ Counted /\ Past /\ Published /\ CommitLogged /\ StoreLogged

\* What the log holds, whether the process runs or not.
RecordsSound == \A i \in 1 .. Len(log) :
                  /\ log[i].type \in {"INSERT", "DELETE"} => log[i].row # NoRow
                  /\ log[i].type = "COMMIT" => log[i].ts # Invalid

\* What Recover leaves.
Stopped == \A s \in Sessions : pc[s] \in {"down", "recovered"}
Replay == Recovered => /\ store = [r \in Rids |-> RecoveredMeta(r)]
                       /\ \A i \in 1 .. Len(log) : log[i].txn < nextTxn /\ log[i].ts <= lastCommitTs

MvccInv == TypeOK /\ RecordsSound /\ (IF up THEN RunParts ELSE Stopped /\ Replay)

-----------------------------------------------------------------------------
\* The log, and the numbers read off it.

LogGrows == /\ Len(log) <= Len(log') /\ flushed <= flushed'
            /\ \A i \in 1 .. Len(log) : log'[i] = log[i]

LEMMA Sentinels ==
  /\ NoTxn \notin TxnIds /\ NoTxn \notin Int /\ NoRow \notin Rows
  /\ NoMeta \notin Metas /\ NoStmt \notin Stmts
<1>1. NoTxn \notin TxnIds /\ NoTxn \notin Int
  BY MvccAssumption DEF TxnIds
<1>2. NoRow \notin Rows
  BY MvccAssumption DEF Rows, Rids
<1>3. Metas \subseteq [bTxn : Int, bTs : Int, eTxn : Int, eTs : Int]
  BY MvccAssumption DEF Metas, MaybeTxn, MaybeTs, TxnIds, Invalid
<1>4. NoStmt \notin Stmts
  BY MvccAssumption DEF Stmts, Kinds
<1> QED
  BY <1>1, <1>2, <1>3, <1>4, MvccAssumption

LEMMA Appended ==
  ASSUME TypeOK, RecordsSound, NEW rec \in Records, AppendLog(rec),
         rec.type \in {"INSERT", "DELETE"} => rec.row # NoRow,
         rec.type = "COMMIT" => rec.ts # Invalid
  PROVE  /\ log' \in Seq(Records) /\ flushed' \in 0 .. Len(log') /\ LogGrows /\ RecordsSound'
         /\ Len(log') = Len(log) + 1 /\ log'[Len(log')] = rec
<1>1. log \in Seq(Records) /\ Len(log) \in Nat /\ flushed \in 0 .. Len(log)
  BY DEF TypeOK
<1>2. log' = Append(log, rec) /\ flushed' = flushed
  BY DEF AppendLog
<1>3. /\ log' \in Seq(Records) /\ Len(log') = Len(log) + 1
      /\ \A i \in 1 .. Len(log) : log'[i] = log[i]
      /\ log'[Len(log')] = rec
  BY <1>1, <1>2
<1>4. RecordsSound'
  BY <1>1, <1>3 DEF RecordsSound
<1> QED
  BY <1>1, <1>2, <1>3, <1>4 DEF LogGrows

LEMMA Flushed ==
  ASSUME TypeOK, RecordsSound, FlushLog
  PROVE  /\ log' \in Seq(Records) /\ flushed' \in 0 .. Len(log') /\ LogGrows /\ RecordsSound'
         /\ log' = log /\ flushed' = Len(log)
<1>1. log \in Seq(Records) /\ Len(log) \in Nat /\ flushed \in 0 .. Len(log)
  BY DEF TypeOK
<1>2. log' = log /\ flushed' = Len(log)
  BY DEF FlushLog
<1> QED
  BY <1>1, <1>2 DEF LogGrows, RecordsSound

LEMMA LogStays ==
  ASSUME TypeOK, RecordsSound, UNCHANGED walVars
  PROVE  log' \in Seq(Records) /\ flushed' \in 0 .. Len(log') /\ LogGrows /\ RecordsSound'
<1>1. log \in Seq(Records) /\ Len(log) \in Nat /\ flushed \in 0 .. Len(log)
  BY DEF TypeOK
<1>2. log' = log /\ flushed' = flushed
  BY DEF walVars
<1>3. LogGrows
  BY <1>1, <1>2 DEF LogGrows
<1>4. RecordsSound'
  BY <1>2 DEF RecordsSound
<1> QED
  BY <1>1, <1>2, <1>3, <1>4

LEMMA LoggedGrows ==
  ASSUME TypeOK, TypeOK', LogGrows, NEW ts
  PROVE  /\ LoggedBy(ts, Len(log)) => (\E i \in 1 .. Len(log') : log'[i].type = "COMMIT" /\ log'[i].ts = ts)
         /\ LoggedBy(ts, flushed) => (\E i \in 1 .. flushed' : log'[i].type = "COMMIT" /\ log'[i].ts = ts)
<1>1. Len(log) \in Nat /\ Len(log') \in Nat /\ flushed \in 0 .. Len(log) /\ flushed' \in Nat
  BY DEF TypeOK
<1>2. /\ \A i \in 1 .. Len(log) : i \in 1 .. Len(log') /\ log'[i] = log[i]
      /\ \A i \in 1 .. flushed : i \in 1 .. Len(log) /\ i \in 1 .. flushed'
  BY <1>1 DEF LogGrows
<1> QED
  BY <1>2 DEF LoggedBy

\* A bounded set of numbers has a greatest: were there none, one more than each
\* number up to a member would again be one, and that is an injection of a finite
\* set into itself that misses 0.
LEMMA Greatest ==
  ASSUME NEW S \in SUBSET Nat, S # {}, NEW b \in Nat, \A n \in S : n <= b
  PROVE  \E m \in S : \A n \in S : n <= m
<1> SUFFICES ASSUME \A m \in S : \E n \in S : n > m
             PROVE  FALSE
  OBVIOUS
<1> DEFINE D == {i \in 0 .. b : \E n \in S : i <= n}
           f == [i \in D |-> i + 1]
<1>1. IsFiniteSet(D)
  <2>1. IsFiniteSet(0 .. b)
    BY FS_Interval
  <2>2. D \in SUBSET (0 .. b)
    OBVIOUS
  <2> HIDE DEF D
  <2> QED
    BY <2>1, <2>2, FS_Subset
<1>2. \A i \in D : i + 1 \in D \ {0}
  OBVIOUS
<1>3. f \in Injection(D, D \ {0})
  BY <1>2 DEF Injection, IsInjective
<1>4. 0 \in D
  <2>1. PICK n \in S : n \in Nat
    OBVIOUS
  <2>2. 0 \in 0 .. b /\ 0 <= n
    BY <2>1
  <2> QED
    BY <2>1, <2>2
<1>5. Cardinality(D \ {0}) = Cardinality(D) - 1 /\ IsFiniteSet(D \ {0})
  BY <1>1, <1>4, FS_RemoveElement
<1>6. Cardinality(D) <= Cardinality(D \ {0}) /\ Cardinality(D) \in Nat
  BY <1>1, <1>3, <1>5, FS_Injection, FS_CardinalityType
<1> QED
  BY <1>5, <1>6

LEMMA MaxIsGreatest ==
  ASSUME NEW S, NEW b \in Nat, \A n \in S : n \in -1 .. b
  PROVE  MaxOf(S, 0) \in 0 .. b /\ \A n \in S : n <= MaxOf(S, 0)
<1> DEFINE P == {n \in S \cup {0} : n >= 0}
<1>1. P \in SUBSET Nat /\ 0 \in P /\ \A n \in P : n <= b
  OBVIOUS
<1>2. PICK m \in P : \A n \in P : n <= m
  BY <1>1, Greatest
<1>3. m \in S \cup {0} /\ \A n \in S \cup {0} : n <= m
  BY <1>1, <1>2
<1>4. MaxOf(S, 0) \in S \cup {0} /\ \A n \in S \cup {0} : n <= MaxOf(S, 0)
  BY <1>3 DEF MaxOf
<1> QED
  BY <1>4

-----------------------------------------------------------------------------
\* Steps that touch no counter and no commit.

\* What they leave alone.
QuietStep(s) ==
  /\ UNCHANGED <<txnVars, current, up>>
  /\ current[s] # NoTxn
  /\ pc' = [pc EXCEPT ![s] = pc'[s]]
  /\ pc[s] \notin Committing /\ pc'[s] \in Running \ Committing
  /\ LogGrows
  /\ \A t \in TxnIds : t # current[s] => inserts'[t] = inserts[t] /\ deletes'[t] = deletes[t]

LEMMA QuietKeeps ==
  ASSUME TypeOK, TypeOK', RunParts, NEW s \in Sessions, QuietStep(s)
  PROVE  (Apart /\ Engaged /\ Underway /\ Unused /\ Stamped /\ Counted /\ Past /\ Published
          /\ CommitLogged)'
<1>1. /\ \A u \in Sessions : u # s => pc'[u] = pc[u]
      /\ current' = current /\ nextTxn' = nextTxn /\ state' = state /\ commitTs' = commitTs
      /\ nextCommitTs' = nextCommitTs /\ lastCommitTs' = lastCommitTs /\ readTs' = readTs
      /\ pc[s] \notin Committing /\ pc'[s] \notin Committing /\ pc'[s] \in Running
      /\ current[s] # NoTxn
  BY DEF QuietStep, txnVars, TypeOK
<1>2. Apart' /\ Engaged'
  BY <1>1 DEF RunParts, Apart, Engaged
<1>3. Underway'
  BY <1>1 DEF RunParts, Underway
<1>4. \A t \in TxnIds : t >= nextTxn => t # current[s]
  BY <1>1, Sentinels DEF RunParts, Underway, TypeOK, TxnIds
<1>5. Unused'
  BY <1>1, <1>4 DEF QuietStep, RunParts, Unused
<1>6. Stamped' /\ Past'
  BY <1>1 DEF RunParts, Stamped, Past
<1>7. CommittedTxns' = CommittedTxns
  BY <1>1 DEF CommittedTxns
<1>8. Counted'
  BY <1>1, <1>7 DEF RunParts, Counted
<1>9. Published'
  BY <1>1 DEF RunParts, Published, Committing
<1>10. CommitLogged'
  <2> SUFFICES ASSUME NEW u \in Sessions
               PROVE  /\ pc'[u] = "flushCommit" => LoggedBy(commitTs[current[u]], Len(log))'
                      /\ pc'[u] = "backfill" => LoggedBy(commitTs[current[u]], flushed)'
    BY DEF CommitLogged
  <2>1. CASE u = s
    BY <1>1, <2>1 DEF Committing
  <2>2. CASE u # s
    <3>1. /\ pc'[u] = pc[u] /\ LogGrows
          /\ pc[u] = "flushCommit" => LoggedBy(commitTs[current[u]], Len(log))
          /\ pc[u] = "backfill" => LoggedBy(commitTs[current[u]], flushed)
      BY <1>1, <2>2 DEF QuietStep, RunParts, CommitLogged
    <3>2. PICK ts : ts = commitTs[current[u]]
      OBVIOUS
    <3>3. (commitTs[current[u]])' = ts
      BY <1>1, <3>2
    <3>4. /\ LoggedBy(ts, Len(log)) => LoggedBy(ts, Len(log))'
          /\ LoggedBy(ts, flushed) => LoggedBy(ts, flushed)'
      BY <3>1, LoggedGrows DEF LoggedBy
    <3> QED
      BY <3>1, <3>2, <3>3, <3>4 DEF LoggedBy
  <2> QED
    BY <2>1, <2>2
<1> QED
  BY <1>2, <1>3, <1>5, <1>6, <1>8, <1>9, <1>10

LEMMA StoreUntouched ==
  ASSUME TypeOK, TypeOK', LogGrows, StoreLogged, store' = store
  PROVE  StoreLogged'
BY LoggedGrows DEF StoreLogged, LoggedBy

\* What each of these steps does besides.
Quiet(s) == TypeOK' /\ RecordsSound' /\ QuietStep(s) /\ InStatement' /\ OnTarget' /\ StoreLogged'

LEMMA QuietIsEnough ==
  ASSUME TypeOK, RunParts, NEW s \in Sessions, up, Quiet(s)
  PROVE  MvccInv'
<1>1. RunParts'
  BY QuietKeeps DEF Quiet, RunParts
<1>2. up'
  BY DEF Quiet, QuietStep
<1> QED
  BY <1>1, <1>2 DEF Quiet, MvccInv

LEMMA FailQuiet ==
  ASSUME TypeOK, RecordsSound, RunParts, NEW s \in Sessions, Fail(s)
  PROVE  Quiet(s)
<1>1. /\ pc[s] \in {"page", "open"} /\ pc' = [pc EXCEPT ![s] = "idle"]
      /\ stmt' = [stmt EXCEPT ![s] = NoStmt]
      /\ current[s] # NoTxn
  BY DEF Fail, Goto, RunParts, Engaged
<1>2. log' \in Seq(Records) /\ flushed' \in 0 .. Len(log') /\ LogGrows /\ RecordsSound'
  BY LogStays DEF Fail
<1>3. TypeOK'
  BY <1>1, <1>2 DEF Fail, TypeOK, Stages, txnVars, sets
<1>4. QuietStep(s)
  BY <1>1, <1>2 DEF Fail, TypeOK, QuietStep, txnVars, sets, Committing, Running, Stages
<1>5. InStatement' /\ OnTarget'
  BY <1>1 DEF Fail, TypeOK, RunParts, InStatement, OnTarget, Writing, OnARow
<1>6. StoreLogged'
  BY <1>2, <1>3, StoreUntouched DEF Fail, RunParts
<1> QED
  BY <1>2, <1>3, <1>4, <1>5, <1>6 DEF Quiet

\* The row a statement works on.
LEMMA WorksOn ==
  ASSUME TypeOK, RunParts, NEW s \in Sessions, pc[s] # "idle"
  PROVE  /\ current[s] \in TxnIds /\ current[s] # NoTxn
         /\ pc[s] \in Writing => stmt[s] \in Stmts
         /\ pc[s] \in OnARow => /\ target[s] \in Rows /\ target[s] \in Tables \X Rids
                                /\ target[s][2] \in Rids
<1>1. current[s] \in TxnIds /\ current[s] # NoTxn
  BY DEF TypeOK, RunParts, Engaged
<1>2. pc[s] \in Writing => stmt[s] \in Stmts
  BY DEF TypeOK, RunParts, InStatement
<1>3. pc[s] \in OnARow => target[s] \in Rows
  BY DEF TypeOK, RunParts, OnTarget
<1> QED
  BY <1>1, <1>2, <1>3 DEF Rows

LEMMA WritePageQuiet ==
  ASSUME TypeOK, RecordsSound, RunParts, NEW s \in Sessions, WritePage(s)
  PROVE  Quiet(s)
<1>1. pc[s] = "page" /\ pc' = [pc EXCEPT ![s] = "logInsert"]
  BY DEF WritePage, At, Goto
<1>2. stmt[s] \in Stmts /\ current[s] \in TxnIds /\ current[s] # NoTxn
  BY <1>1, WorksOn DEF Writing
<1>3. PICK t \in Tables : t = stmt[s].table
  BY <1>2 DEF Stmts
<1>4. /\ rowCount[t] < MaxRows /\ rowCount' = [rowCount EXCEPT ![t] = @ + 1]
      /\ target' = [target EXCEPT ![s] = <<t, rowCount[t]>>]
  BY <1>3 DEF WritePage
<1>5. rowCount[t] \in 0 .. MaxRows /\ MaxRows \in Nat
  BY MvccAssumption DEF TypeOK
<1>6. <<t, rowCount[t]>> \in Rows /\ rowCount[t] + 1 \in 0 .. MaxRows
  <2>1. rowCount[t] \in 0 .. MaxRows - 1 /\ rowCount[t] + 1 \in 0 .. MaxRows
    BY <1>4, <1>5
  <2> QED
    BY <2>1 DEF Rows, Rids
<1>7. log' \in Seq(Records) /\ flushed' \in 0 .. Len(log') /\ LogGrows /\ RecordsSound'
  BY LogStays DEF WritePage
<1>12. /\ rowCount' \in [Tables -> 0 .. MaxRows] /\ target' \in [Sessions -> Rows \cup {NoRow}]
       /\ pc' \in [Sessions -> Stages]
  <2>1. \A u \in Tables : rowCount'[u] = IF u = t THEN rowCount[t] + 1 ELSE rowCount[u]
    BY <1>4 DEF TypeOK
  <2>2. DOMAIN rowCount' = Tables /\ rowCount' = [u \in Tables |-> rowCount'[u]]
    BY <1>4 DEF TypeOK
  <2>3. \A u \in Tables : rowCount'[u] \in 0 .. MaxRows
    BY <1>6, <2>1 DEF TypeOK
  <2>4. rowCount' \in [Tables -> 0 .. MaxRows]
    BY <2>2, <2>3
  <2>5. target' \in [Sessions -> Rows \cup {NoRow}] /\ pc' \in [Sessions -> Stages]
    BY <1>1, <1>4, <1>6 DEF TypeOK, Stages
  <2> QED
    BY <2>4, <2>5
<1>13. UNCHANGED <<txnVars, sets, store, walVars, current, explicit, stmt, todo, up>>
  BY DEF WritePage
<1>8. TypeOK'
  BY <1>7, <1>12, <1>13 DEF TypeOK, txnVars, sets
<1>9. QuietStep(s)
  BY <1>1, <1>2, <1>7 DEF WritePage, TypeOK, QuietStep, txnVars, sets, Committing, Running, Stages
<1>10. InStatement' /\ OnTarget'
  <2>1. stmt' = stmt /\ stmt[s] # NoStmt /\ <<t, rowCount[t]>> # NoRow
    BY <1>2, <1>6, <1>13, Sentinels
  <2> QED
    BY <1>1, <1>4, <2>1 DEF TypeOK, RunParts, InStatement, OnTarget, Writing, OnARow
<1>11. StoreLogged'
  BY <1>7, <1>8, StoreUntouched DEF WritePage, RunParts
<1> QED
  BY <1>7, <1>8, <1>9, <1>10, <1>11 DEF Quiet

LEMMA LogInsertQuiet ==
  ASSUME TypeOK, RecordsSound, RunParts, NEW s \in Sessions, LogInsert(s)
  PROVE  Quiet(s)
<1>1. pc[s] = "logInsert" /\ pc' = [pc EXCEPT ![s] = "regInsert"]
  BY DEF LogInsert, At, Goto
<1>2. /\ current[s] \in TxnIds /\ current[s] # NoTxn
      /\ stmt[s] \in Stmts /\ target[s] \in Rows
  BY <1>1, WorksOn DEF Writing, OnARow
<1>3. AppendLog(Record("INSERT", current[s], target[s], Invalid))
  BY DEF LogInsert, Txn
<1>4. /\ Record("INSERT", current[s], target[s], Invalid) \in Records
      /\ Record("INSERT", current[s], target[s], Invalid).row # NoRow
      /\ Record("INSERT", current[s], target[s], Invalid).type # "COMMIT"
  BY <1>2, Sentinels DEF Record, Records, MaybeTs
<1>5. log' \in Seq(Records) /\ flushed' \in 0 .. Len(log') /\ LogGrows /\ RecordsSound'
  BY <1>3, <1>4, Appended
<1>6. TypeOK'
  BY <1>1, <1>5 DEF LogInsert, TypeOK, Stages, txnVars, sets
<1>7. QuietStep(s)
  BY <1>1, <1>2, <1>5 DEF LogInsert, TypeOK, QuietStep, txnVars, sets, Committing, Running, Stages
<1>8. InStatement' /\ OnTarget'
  BY <1>1, <1>2, Sentinels
  DEF LogInsert, TypeOK, RunParts, InStatement, OnTarget, Writing, OnARow
<1>9. StoreLogged'
  BY <1>5, <1>6, StoreUntouched DEF LogInsert, RunParts
<1> QED
  BY <1>5, <1>6, <1>7, <1>8, <1>9 DEF Quiet

LEMMA LogDeleteQuiet ==
  ASSUME TypeOK, RecordsSound, RunParts, NEW s \in Sessions, LogDelete(s)
  PROVE  Quiet(s)
<1>1. pc[s] = "logDelete" /\ pc' = [pc EXCEPT ![s] = "regDelete"]
  BY DEF LogDelete, At, Goto
<1>2. /\ current[s] \in TxnIds /\ current[s] # NoTxn
      /\ stmt[s] \in Stmts /\ target[s] \in Rows
  BY <1>1, WorksOn DEF Writing, OnARow
<1>3. AppendLog(Record("DELETE", current[s], target[s], Invalid))
  BY DEF LogDelete, Txn
<1>4. /\ Record("DELETE", current[s], target[s], Invalid) \in Records
      /\ Record("DELETE", current[s], target[s], Invalid).row # NoRow
      /\ Record("DELETE", current[s], target[s], Invalid).type # "COMMIT"
  BY <1>2, Sentinels DEF Record, Records, MaybeTs
<1>5. log' \in Seq(Records) /\ flushed' \in 0 .. Len(log') /\ LogGrows /\ RecordsSound'
  BY <1>3, <1>4, Appended
<1>6. TypeOK'
  BY <1>1, <1>5 DEF LogDelete, TypeOK, Stages, txnVars, sets
<1>7. QuietStep(s)
  BY <1>1, <1>2, <1>5 DEF LogDelete, TypeOK, QuietStep, txnVars, sets, Committing, Running, Stages
<1>8. InStatement' /\ OnTarget'
  BY <1>1, <1>2, Sentinels
  DEF LogDelete, TypeOK, RunParts, InStatement, OnTarget, Writing, OnARow
<1>9. StoreLogged'
  BY <1>5, <1>6, StoreUntouched DEF LogDelete, RunParts
<1> QED
  BY <1>5, <1>6, <1>7, <1>8, <1>9 DEF Quiet

LEMMA FlushInsertQuiet ==
  ASSUME TypeOK, RecordsSound, RunParts, NEW s \in Sessions, FlushInsert(s)
  PROVE  Quiet(s)
<1>1. pc[s] = "flushInsert" /\ stmt[s] \in Stmts /\ current[s] # NoTxn
  BY WorksOn DEF FlushInsert, At, Writing
<1>2. PICK p \in {"stamp", "idle"} : pc' = [pc EXCEPT ![s] = p]
  BY DEF FlushInsert, Finish, Goto
<1>3. /\ stmt' = [stmt EXCEPT ![s] = NoStmt]
      /\ target' = [target EXCEPT ![s] = NoRow]
  BY DEF FlushInsert, Finish
<1>4. log' \in Seq(Records) /\ flushed' \in 0 .. Len(log') /\ LogGrows /\ RecordsSound'
  BY Flushed DEF FlushInsert
<1>5. TypeOK'
  BY <1>2, <1>3, <1>4 DEF FlushInsert, TypeOK, Stages, txnVars, sets
<1>6. QuietStep(s)
  BY <1>1, <1>2, <1>4 DEF FlushInsert, TypeOK, QuietStep, txnVars, sets, Committing, Running, Stages
<1>7. InStatement' /\ OnTarget'
  BY <1>2, <1>3 DEF TypeOK, RunParts, InStatement, OnTarget, Writing, OnARow
<1>8. StoreLogged'
  BY <1>4, <1>5, StoreUntouched DEF FlushInsert, RunParts
<1> QED
  BY <1>4, <1>5, <1>6, <1>7, <1>8 DEF Quiet

\* A step of a scan: only the thread's own place, statement and row move on.
LEMMA ScanTypes ==
  ASSUME TypeOK, UNCHANGED <<txnVars, sets, store, rowCount, current, explicit, todo, up>>,
         pc' \in [Sessions -> Stages], stmt' \in [Sessions -> Stmts \cup {NoStmt}],
         target' \in [Sessions -> Rows \cup {NoRow}],
         log' \in Seq(Records), flushed' \in 0 .. Len(log')
  PROVE  TypeOK'
  BY DEF TypeOK, txnVars, sets

LEMMA OpenScanQuiet ==
  ASSUME TypeOK, RecordsSound, RunParts, NEW s \in Sessions, OpenScan(s)
  PROVE  Quiet(s)
<1>1. pc[s] = "open" /\ pc' = [pc EXCEPT ![s] = "scan"]
  BY DEF OpenScan, At, Goto
<1>2. stmt[s] \in Stmts /\ current[s] # NoTxn
  BY <1>1, WorksOn DEF Writing
<1>3. PICK n \in Nat : stmt' = [stmt EXCEPT ![s] = [stmt[s] EXCEPT !.upto = n]]
  <2>1. rowCount[stmt[s].table] \in Nat
    BY <1>2 DEF TypeOK, Stmts
  <2> QED
    BY <2>1 DEF OpenScan
<1>4. [stmt[s] EXCEPT !.upto = n] \in Stmts
  BY <1>2 DEF Stmts
<1>5. log' \in Seq(Records) /\ flushed' \in 0 .. Len(log') /\ LogGrows /\ RecordsSound'
  BY LogStays DEF OpenScan
<1>6. TypeOK'
  <2>1. pc' \in [Sessions -> Stages]
    BY <1>1 DEF TypeOK, Stages
  <2>2. stmt' \in [Sessions -> Stmts \cup {NoStmt}]
    BY <1>3, <1>4 DEF TypeOK
  <2>3. /\ UNCHANGED <<txnVars, sets, store, rowCount, current, explicit, todo, up>>
        /\ target' \in [Sessions -> Rows \cup {NoRow}]
    BY DEF OpenScan, TypeOK
  <2> QED
    BY <1>5, <2>1, <2>2, <2>3, ScanTypes
<1>7. QuietStep(s)
  BY <1>1, <1>2, <1>5 DEF OpenScan, TypeOK, QuietStep, txnVars, sets, Committing, Running, Stages
<1>8. InStatement' /\ OnTarget'
  <2>1. target' = target /\ stmt'[s] \in Stmts /\ pc'[s] = "scan"
        /\ \A u \in Sessions : u # s => stmt'[u] = stmt[u] /\ pc'[u] = pc[u]
    BY <1>1, <1>3, <1>4 DEF OpenScan, TypeOK
  <2>2. InStatement'
    BY <2>1, Sentinels DEF RunParts, InStatement, Writing
  <2>3. OnTarget'
    BY <2>1 DEF RunParts, OnTarget, OnARow
  <2> QED
    BY <2>2, <2>3
<1>9. StoreLogged'
  BY <1>5, <1>6, StoreUntouched DEF OpenScan, RunParts
<1> QED
  BY <1>5, <1>6, <1>7, <1>8, <1>9 DEF Quiet

LEMMA ScanQuiet ==
  ASSUME TypeOK, RecordsSound, RunParts, NEW s \in Sessions, NEW x \in Rows, Scan(s, x)
  PROVE  Quiet(s)
<1>1. /\ pc[s] = "scan" /\ pc' = [pc EXCEPT ![s] = "logDelete"]
      /\ target' = [target EXCEPT ![s] = x]
  BY DEF Scan, At, Goto
<1>2. stmt[s] \in Stmts /\ current[s] # NoTxn
  BY <1>1, WorksOn DEF Writing
<1>3. log' \in Seq(Records) /\ flushed' \in 0 .. Len(log') /\ LogGrows /\ RecordsSound'
  BY LogStays DEF Scan
<1>4. TypeOK'
  <2>1. pc' \in [Sessions -> Stages] /\ target' \in [Sessions -> Rows \cup {NoRow}]
    BY <1>1 DEF TypeOK, Stages
  <2>2. /\ UNCHANGED <<txnVars, sets, store, rowCount, current, explicit, todo, up>>
        /\ stmt' \in [Sessions -> Stmts \cup {NoStmt}]
    BY DEF Scan, TypeOK
  <2> QED
    BY <1>3, <2>1, <2>2, ScanTypes
<1>5. QuietStep(s)
  BY <1>1, <1>2, <1>3 DEF Scan, TypeOK, QuietStep, txnVars, sets, Committing, Running, Stages
<1>6. InStatement' /\ OnTarget'
  <2>1. /\ stmt' = stmt /\ stmt[s] # NoStmt /\ target'[s] # NoRow
        /\ \A u \in Sessions : u # s => target'[u] = target[u] /\ pc'[u] = pc[u]
    BY <1>1, <1>2, Sentinels DEF Scan, TypeOK
  <2>2. InStatement'
    BY <2>1 DEF RunParts, InStatement
  <2>3. OnTarget'
    BY <2>1 DEF RunParts, OnTarget
  <2> QED
    BY <2>2, <2>3
<1>7. StoreLogged'
  BY <1>3, <1>4, StoreUntouched DEF Scan, RunParts
<1> QED
  BY <1>3, <1>4, <1>5, <1>6, <1>7 DEF Quiet

LEMMA EndScanQuiet ==
  ASSUME TypeOK, RecordsSound, RunParts, NEW s \in Sessions, EndScan(s)
  PROVE  Quiet(s)
<1>1. pc[s] = "scan" /\ stmt[s] \in Stmts /\ current[s] # NoTxn
  BY WorksOn DEF EndScan, At, Writing
<1>2. PICK p \in {"stamp", "idle", "flushInsert"} :
        /\ pc' = [pc EXCEPT ![s] = p]
        /\ IF p = "flushInsert" THEN UNCHANGED <<stmt, target>>
           ELSE /\ stmt' = [stmt EXCEPT ![s] = NoStmt]
                /\ target' = [target EXCEPT ![s] = NoRow]
  <2>1. CASE stmt[s].kind = "delete"
    BY <2>1 DEF EndScan, Finish, Goto
  <2>2. CASE stmt[s].kind # "delete"
    BY <2>2 DEF EndScan, Finish, Goto
  <2> QED
    BY <2>1, <2>2
<1>3. log' \in Seq(Records) /\ flushed' \in 0 .. Len(log') /\ LogGrows /\ RecordsSound'
  BY LogStays DEF EndScan
<1>4. stmt' \in [Sessions -> Stmts \cup {NoStmt}] /\ target' \in [Sessions -> Rows \cup {NoRow}]
  BY <1>2 DEF TypeOK
<1>5. TypeOK'
  BY <1>2, <1>3, <1>4 DEF EndScan, TypeOK, Stages, txnVars, sets
<1>6. QuietStep(s)
  BY <1>1, <1>2, <1>3 DEF EndScan, TypeOK, QuietStep, txnVars, sets, Committing, Running, Stages
<1>7. InStatement' /\ OnTarget'
  <2>1. CASE p = "flushInsert"
    BY <1>1, <1>2, <2>1, Sentinels DEF TypeOK, RunParts, InStatement, OnTarget, Writing, OnARow
  <2>2. CASE p # "flushInsert"
    BY <1>2, <2>2 DEF TypeOK, RunParts, InStatement, OnTarget, Writing, OnARow
  <2> QED
    BY <2>1, <2>2
<1>8. StoreLogged'
  BY <1>3, <1>5, StoreUntouched DEF EndScan, RunParts
<1> QED
  BY <1>3, <1>5, <1>6, <1>7, <1>8 DEF Quiet

LEMMA RegisterInsertQuiet ==
  ASSUME TypeOK, RecordsSound, RunParts, NEW s \in Sessions, RegisterInsert(s)
  PROVE  Quiet(s)
<1>1. pc[s] = "regInsert" /\ pc' = [pc EXCEPT ![s] = "flushInsert"]
  BY DEF RegisterInsert, At, Goto
<1>2. PICK t \in TxnIds, x \in Rows, r \in Rids :
        t = current[s] /\ t # NoTxn /\ x = target[s] /\ r = x[2] /\ stmt[s] \in Stmts
  BY <1>1, WorksOn DEF Writing, OnARow
<1>3. /\ store' = [store EXCEPT ![r] = FreshMeta(t)]
      /\ inserts' = [inserts EXCEPT ![t] = Append(@, x)]
  BY <1>2 DEF RegisterInsert, OnInsert, Txn
<1>4. FreshMeta(t) \in Metas /\ FreshMeta(t).bTs = Invalid /\ FreshMeta(t).eTs = Invalid
  BY <1>2 DEF FreshMeta, Metas, MaybeTxn, MaybeTs
<1>5. log' \in Seq(Records) /\ flushed' \in 0 .. Len(log') /\ LogGrows /\ RecordsSound'
  BY LogStays DEF RegisterInsert
<1>6. TypeOK'
  <2>1. inserts' \in [TxnIds -> Seq(Rows)] /\ store' \in [Rids -> Metas \cup {NoMeta}]
    BY <1>2, <1>3, <1>4 DEF TypeOK
  <2>2. pc' \in [Sessions -> Stages]
    BY <1>1 DEF TypeOK, Stages
  <2>3. UNCHANGED <<txnVars, deletes, walVars, rowCount, current, explicit, stmt, target, todo, up>>
    BY DEF RegisterInsert
  <2> QED
    BY <1>5, <2>1, <2>2, <2>3 DEF TypeOK, txnVars
<1>7. QuietStep(s)
  BY <1>1, <1>2, <1>3, <1>5
  DEF RegisterInsert, TypeOK, QuietStep, txnVars, Committing, Running, Stages
<1>8. InStatement' /\ OnTarget'
  BY <1>1, <1>2, Sentinels
  DEF RegisterInsert, TypeOK, RunParts, InStatement, OnTarget, Writing, OnARow
<1>9. StoreLogged'
  <2> SUFFICES ASSUME NEW q \in Rids, NEW ts \in TxnIds, store'[q] # NoMeta,
                      store'[q].bTs = ts \/ store'[q].eTs = ts
               PROVE  LoggedBy(ts, flushed)'
    BY DEF StoreLogged
  <2>1. Invalid \notin TxnIds
    BY DEF Invalid, TxnIds
  <2>2. q # r /\ store'[q] = store[q]
    BY <1>3, <1>4, <2>1 DEF TypeOK
  <2> QED
    BY <1>5, <1>6, <2>2, LoggedGrows DEF RunParts, StoreLogged, LoggedBy
<1> QED
  BY <1>5, <1>6, <1>7, <1>8, <1>9 DEF Quiet

\* A method that clears a timestamp of one entry, or sets one that is logged.
LEMMA StampsLogged ==
  ASSUME TypeOK, TypeOK', LogGrows, StoreLogged, NEW r \in Rids, NEW m, NEW stamp,
         store' = IF store[r] = NoMeta THEN store ELSE [store EXCEPT ![r] = m],
         store[r] # NoMeta => /\ m.bTs \in {store[r].bTs, Invalid, stamp}
                              /\ m.eTs \in {store[r].eTs, Invalid, stamp},
         stamp \in TxnIds => LoggedBy(stamp, flushed)
  PROVE  StoreLogged'
<1> SUFFICES ASSUME NEW q \in Rids, NEW ts \in TxnIds, store'[q] # NoMeta,
                    store'[q].bTs = ts \/ store'[q].eTs = ts
             PROVE  LoggedBy(ts, flushed)'
  BY DEF StoreLogged
<1>1. Invalid \notin TxnIds
  BY DEF Invalid, TxnIds
<1>2. LoggedBy(ts, flushed)
  <2>1. CASE store'[q] = store[q]
    BY <2>1 DEF StoreLogged
  <2>2. CASE store'[q] # store[q]
    <3>1. q = r /\ store[r] # NoMeta /\ store'[q] = m
      BY <2>2 DEF TypeOK
    <3> QED
      BY <1>1, <3>1 DEF StoreLogged
  <2> QED
    BY <2>1, <2>2
<1> QED
  BY <1>2, LoggedGrows DEF LoggedBy

LEMMA MetaTypes ==
  ASSUME NEW m \in Metas, NEW t \in TxnIds, NEW ts \in TxnIds
  PROVE  /\ [m EXCEPT !.eTxn = t, !.eTs = Invalid] \in Metas
         /\ [m EXCEPT !.eTxn = Invalid, !.eTs = Invalid] \in Metas
         /\ [m EXCEPT !.bTs = ts] \in Metas /\ [m EXCEPT !.eTs = ts] \in Metas
         /\ FreshMeta(t) \in Metas /\ FreshMeta(Invalid) \in Metas
BY DEF Metas, MaybeTxn, MaybeTs, FreshMeta

LEMMA RegisterDeleteQuiet ==
  ASSUME TypeOK, RecordsSound, RunParts, NEW s \in Sessions, RegisterDelete(s)
  PROVE  Quiet(s)
<1>1. PICK p \in {"page", "scan"} : pc[s] = "regDelete" /\ pc' = [pc EXCEPT ![s] = p]
  BY DEF RegisterDelete, At, Goto
<1>2. PICK t \in TxnIds, x \in Rows, r \in Rids :
        t = current[s] /\ t # NoTxn /\ x = target[s] /\ r = x[2] /\ stmt[s] \in Stmts
  BY <1>1, WorksOn DEF Writing, OnARow
<1> DEFINE m == [store[r] EXCEPT !.eTxn = t, !.eTs = Invalid]
<1>3. /\ store' = IF store[r] = NoMeta THEN store ELSE [store EXCEPT ![r] = m]
      /\ deletes' = [deletes EXCEPT ![t] = Append(@, x)]
  BY <1>2 DEF RegisterDelete, OnDelete, IfKnown, Txn
<1>4. store[r] # NoMeta => store[r] \in Metas /\ m \in Metas /\ m.bTs = store[r].bTs /\ m.eTs = Invalid
  <2>1. store[r] # NoMeta => store[r] \in Metas
    BY <1>2 DEF TypeOK
  <2>2. store[r] \in Metas => m \in Metas
    BY <1>2 DEF Metas, MaybeTxn, MaybeTs
  <2>3. store[r] \in Metas => m.bTs = store[r].bTs /\ m.eTs = Invalid
    BY DEF Metas
  <2> QED
    BY <2>1, <2>2, <2>3
<1>5. log' \in Seq(Records) /\ flushed' \in 0 .. Len(log') /\ LogGrows /\ RecordsSound'
  BY LogStays DEF RegisterDelete
<1> HIDE DEF m
<1>6. TypeOK'
  <2>1. deletes' \in [TxnIds -> Seq(Rows)] /\ store' \in [Rids -> Metas \cup {NoMeta}]
    BY <1>2, <1>3, <1>4 DEF TypeOK
  <2>2. pc' \in [Sessions -> Stages]
    BY <1>1 DEF TypeOK, Stages
  <2>3. UNCHANGED <<txnVars, inserts, walVars, rowCount, current, explicit, stmt, target, todo, up>>
    BY DEF RegisterDelete
  <2> QED
    BY <1>5, <2>1, <2>2, <2>3 DEF TypeOK, txnVars
<1>7. QuietStep(s)
  BY <1>1, <1>2, <1>3, <1>5
  DEF RegisterDelete, TypeOK, QuietStep, txnVars, Committing, Running, Stages
<1>8. InStatement' /\ OnTarget'
  BY <1>1, <1>2, Sentinels
  DEF RegisterDelete, TypeOK, RunParts, InStatement, OnTarget, Writing, OnARow
<1>9. StoreLogged'
  <2>1. Invalid \notin TxnIds /\ StoreLogged
    BY DEF RunParts, Invalid, TxnIds
  <2>2. store[r] # NoMeta => m.bTs \in {store[r].bTs, Invalid} /\ m.eTs \in {store[r].eTs, Invalid}
    BY <1>4
  <2> QED
    BY <1>3, <1>5, <1>6, <2>1, <2>2, StampsLogged
<1> QED
  BY <1>5, <1>6, <1>7, <1>8, <1>9 DEF Quiet

LEMMA CommitQuiet ==
  ASSUME TypeOK, RecordsSound, RunParts, NEW s \in Sessions, Commit(s)
  PROVE  Quiet(s)
<1>1. pc[s] = "idle" /\ current[s] # NoTxn /\ pc' = [pc EXCEPT ![s] = "stamp"]
  BY DEF Commit, At, Goto
<1>2. log' \in Seq(Records) /\ flushed' \in 0 .. Len(log') /\ LogGrows /\ RecordsSound'
  BY LogStays DEF Commit
<1>3. TypeOK'
  BY <1>1, <1>2 DEF Commit, TypeOK, Stages, txnVars, sets
<1>4. QuietStep(s)
  BY <1>1, <1>2 DEF Commit, TypeOK, QuietStep, txnVars, sets, Committing, Running, Stages
<1>5. InStatement' /\ OnTarget'
  BY <1>1 DEF Commit, TypeOK, RunParts, InStatement, OnTarget, Writing, OnARow
<1>6. StoreLogged'
  BY <1>2, <1>3, StoreUntouched DEF Commit, RunParts
<1> QED
  BY <1>2, <1>3, <1>4, <1>5, <1>6 DEF Quiet

LEMMA RollbackQuiet ==
  ASSUME TypeOK, RecordsSound, RunParts, NEW s \in Sessions, Rollback(s)
  PROVE  Quiet(s)
<1>1. pc[s] = "idle" /\ current[s] # NoTxn /\ pc' = [pc EXCEPT ![s] = "flushAbort"]
  BY DEF Rollback, At, Goto
<1>2. AppendLog(Record("ABORT", current[s], NoRow, Invalid))
  BY DEF Rollback, Txn
<1>3. /\ Record("ABORT", current[s], NoRow, Invalid) \in Records
      /\ Record("ABORT", current[s], NoRow, Invalid).type \notin {"COMMIT", "INSERT", "DELETE"}
  BY <1>1 DEF TypeOK, Record, Records, MaybeTs
<1>4. log' \in Seq(Records) /\ flushed' \in 0 .. Len(log') /\ LogGrows /\ RecordsSound'
  BY <1>2, <1>3, Appended
<1>5. TypeOK'
  BY <1>1, <1>4 DEF Rollback, TypeOK, Stages, txnVars, sets
<1>6. QuietStep(s)
  BY <1>1, <1>4 DEF Rollback, TypeOK, QuietStep, txnVars, sets, Committing, Running, Stages
<1>7. InStatement' /\ OnTarget'
  BY <1>1 DEF Rollback, TypeOK, RunParts, InStatement, OnTarget, Writing, OnARow
<1>8. StoreLogged'
  BY <1>4, <1>5, StoreUntouched DEF Rollback, RunParts
<1> QED
  BY <1>4, <1>5, <1>6, <1>7, <1>8 DEF Quiet

LEMMA FlushAbortQuiet ==
  ASSUME TypeOK, RecordsSound, RunParts, NEW s \in Sessions, FlushAbort(s)
  PROVE  Quiet(s)
<1>1. pc[s] = "flushAbort" /\ pc' = [pc EXCEPT ![s] = "undo"]
  BY DEF FlushAbort, At, Goto
<1>2. current[s] \in TxnIds /\ current[s] # NoTxn
  BY <1>1, WorksOn
<1>3. todo' = [todo EXCEPT ![s] = [ins |-> inserts[current[s]], del |-> deletes[current[s]]]]
  BY DEF FlushAbort, Writes, Txn
<1>4. log' \in Seq(Records) /\ flushed' \in 0 .. Len(log') /\ LogGrows /\ RecordsSound'
  BY Flushed DEF FlushAbort
<1>5. TypeOK'
  <2>1. [ins |-> inserts[current[s]], del |-> deletes[current[s]]] \in [ins : Seq(Rows), del : Seq(Rows)]
    BY <1>2 DEF TypeOK
  <2>2. todo' \in [Sessions -> [ins : Seq(Rows), del : Seq(Rows)]]
    BY <1>3, <2>1 DEF TypeOK
  <2>3. pc' \in [Sessions -> Stages]
    BY <1>1 DEF TypeOK, Stages
  <2>4. UNCHANGED <<txnVars, sets, store, rowCount, current, explicit, stmt, target, up>>
    BY DEF FlushAbort
  <2> QED
    BY <1>4, <2>2, <2>3, <2>4 DEF TypeOK, txnVars, sets
<1>6. QuietStep(s)
  BY <1>1, <1>2, <1>4 DEF FlushAbort, TypeOK, QuietStep, txnVars, sets, Committing, Running, Stages
<1>7. InStatement' /\ OnTarget'
  BY <1>1 DEF FlushAbort, TypeOK, RunParts, InStatement, OnTarget, Writing, OnARow
<1>8. StoreLogged'
  BY <1>4, <1>5, StoreUntouched DEF FlushAbort, RunParts
<1> QED
  BY <1>4, <1>5, <1>6, <1>7, <1>8 DEF Quiet

\* The next write comes off the list.
LEMMA TodoTypes ==
  ASSUME TypeOK, NEW s \in Sessions
  PROVE  /\ NextInsert(s) => /\ Head(todo[s].ins) \in Rows /\ Head(todo[s].ins)[2] \in Rids
                             /\ todo' \in [Sessions -> [ins : Seq(Rows), del : Seq(Rows)]]
         /\ NextDelete(s) => /\ Head(todo[s].del) \in Rows /\ Head(todo[s].del)[2] \in Rids
                             /\ todo' \in [Sessions -> [ins : Seq(Rows), del : Seq(Rows)]]
<1>1. todo[s] \in [ins : Seq(Rows), del : Seq(Rows)]
  BY DEF TypeOK
<1>2. ASSUME NextInsert(s)
      PROVE  /\ Head(todo[s].ins) \in Rows /\ Head(todo[s].ins)[2] \in Rids
             /\ todo' \in [Sessions -> [ins : Seq(Rows), del : Seq(Rows)]]
  <2>1. Head(todo[s].ins) \in Rows /\ Tail(todo[s].ins) \in Seq(Rows)
    BY <1>1, <1>2 DEF NextInsert
  <2>2. todo' = [todo EXCEPT ![s] = [todo[s] EXCEPT !.ins = Tail(todo[s].ins)]]
    BY <1>2 DEF NextInsert
  <2>3. [todo[s] EXCEPT !.ins = Tail(todo[s].ins)] \in [ins : Seq(Rows), del : Seq(Rows)]
    BY <1>1, <2>1
  <2> QED
    BY <2>1, <2>2, <2>3 DEF TypeOK, Rows
<1>3. ASSUME NextDelete(s)
      PROVE  /\ Head(todo[s].del) \in Rows /\ Head(todo[s].del)[2] \in Rids
             /\ todo' \in [Sessions -> [ins : Seq(Rows), del : Seq(Rows)]]
  <2>1. Head(todo[s].del) \in Rows /\ Tail(todo[s].del) \in Seq(Rows)
    BY <1>1, <1>3 DEF NextDelete
  <2>2. todo' = [todo EXCEPT ![s] = [todo[s] EXCEPT !.del = Tail(todo[s].del)]]
    BY <1>3 DEF NextDelete
  <2>3. [todo[s] EXCEPT !.del = Tail(todo[s].del)] \in [ins : Seq(Rows), del : Seq(Rows)]
    BY <1>1, <2>1
  <2> QED
    BY <2>1, <2>2, <2>3 DEF TypeOK, Rows
<1> QED
  BY <1>2, <1>3

LEMMA UndoQuiet ==
  ASSUME TypeOK, RecordsSound, RunParts, NEW s \in Sessions, Undo(s)
  PROVE  Quiet(s)
<1>1. pc[s] = "undo" /\ current[s] \in TxnIds /\ current[s] # NoTxn
  BY WorksOn DEF Undo, At
<1>2. PICK r \in Rids, m \in Metas :
        /\ todo' \in [Sessions -> [ins : Seq(Rows), del : Seq(Rows)]]
        /\ \/ store' = [store EXCEPT ![r] = m] /\ m.bTs = Invalid
           \/ store[r] # NoMeta /\ store' = [store EXCEPT ![r] = m] /\ m.bTs = store[r].bTs
           \/ store' = store
        /\ m.eTs = Invalid
  <2>1. ASSUME NextInsert(s), AbortInsert(Head(todo[s].ins)[2])
        PROVE  \E r \in Rids, m \in Metas :
                 /\ todo' \in [Sessions -> [ins : Seq(Rows), del : Seq(Rows)]]
                 /\ store' = [store EXCEPT ![r] = m] /\ m.bTs = Invalid /\ m.eTs = Invalid
    <3>1. FreshMeta(Invalid) \in Metas /\ FreshMeta(Invalid).bTs = Invalid /\ FreshMeta(Invalid).eTs = Invalid
      BY DEF FreshMeta, Metas, MaybeTxn, MaybeTs
    <3> QED
      BY <2>1, <3>1, TodoTypes DEF AbortInsert
  <2>2. ASSUME NextDelete(s), AbortDelete(Head(todo[s].del)[2])
        PROVE  \E r \in Rids, m \in Metas :
                 /\ todo' \in [Sessions -> [ins : Seq(Rows), del : Seq(Rows)]]
                 /\ \/ store[r] # NoMeta /\ store' = [store EXCEPT ![r] = m] /\ m.bTs = store[r].bTs
                    \/ store' = store
                 /\ m.eTs = Invalid
    <3>1. PICK r \in Rids : /\ r = Head(todo[s].del)[2]
                            /\ todo' \in [Sessions -> [ins : Seq(Rows), del : Seq(Rows)]]
      BY <2>2, TodoTypes
    <3>2. CASE store[r] = NoMeta
      <4>1. store' = store
        BY <2>2, <3>1, <3>2 DEF AbortDelete, IfKnown
      <4>2. FreshMeta(Invalid) \in Metas /\ FreshMeta(Invalid).eTs = Invalid
        BY DEF FreshMeta, Metas, MaybeTxn, MaybeTs
      <4> QED
        BY <3>1, <4>1, <4>2
    <3>3. CASE store[r] # NoMeta
      <4> DEFINE m == [store[r] EXCEPT !.eTxn = Invalid, !.eTs = Invalid]
      <4>1. store' = [store EXCEPT ![r] = m]
        BY <2>2, <3>1, <3>3 DEF AbortDelete, IfKnown
      <4>2. m \in Metas /\ m.eTs = Invalid /\ m.bTs = store[r].bTs
        BY <3>3 DEF TypeOK, Metas, MaybeTxn, MaybeTs
      <4> QED
        BY <3>1, <3>3, <4>1, <4>2
    <3> QED
      BY <3>2, <3>3
  <2> QED
    BY <2>1, <2>2 DEF Undo
<1>3. log' \in Seq(Records) /\ flushed' \in 0 .. Len(log') /\ LogGrows /\ RecordsSound'
  BY LogStays DEF Undo
<1>4. UNCHANGED <<txnVars, sets, walVars, rowCount, current, explicit, pc, stmt, target, up>>
  BY DEF Undo
<1>5. TypeOK'
  <2>1. store' \in [Rids -> Metas \cup {NoMeta}]
    BY <1>2 DEF TypeOK
  <2> QED
    BY <1>2, <1>3, <1>4, <2>1 DEF TypeOK, txnVars, sets
<1>6. QuietStep(s)
  BY <1>1, <1>3, <1>4 DEF TypeOK, QuietStep, txnVars, sets, Committing, Running, Stages
<1>7. InStatement' /\ OnTarget'
  BY <1>4 DEF RunParts, InStatement, OnTarget
<1>8. StoreLogged'
  <2> SUFFICES ASSUME NEW q \in Rids, NEW ts \in TxnIds, store'[q] # NoMeta,
                      store'[q].bTs = ts \/ store'[q].eTs = ts
               PROVE  LoggedBy(ts, flushed)'
    BY DEF StoreLogged
  <2>1. Invalid \notin TxnIds
    BY DEF Invalid, TxnIds
  <2>2. store[q] # NoMeta /\ (store[q].bTs = ts \/ store[q].eTs = ts)
    BY <1>2, <2>1 DEF TypeOK
  <2> QED
    BY <1>3, <1>5, <2>2, LoggedGrows DEF RunParts, StoreLogged, LoggedBy
<1> QED
  BY <1>3, <1>5, <1>6, <1>7, <1>8 DEF Quiet

-----------------------------------------------------------------------------
\* A transaction begins.

LEMMA BeginTxnKeeps ==
  ASSUME TypeOK, RecordsSound, RunParts, NEW s \in Sessions, BeginTxn(s), pc[s] = "idle",
         NEW p \in {"idle", "page", "open"}, pc' = [pc EXCEPT ![s] = p], store' = store
  PROVE  /\ (Apart /\ Engaged /\ Underway /\ Unused /\ Stamped /\ Counted /\ Past /\ Published
             /\ CommitLogged /\ StoreLogged)'
         /\ RecordsSound' /\ log' \in Seq(Records) /\ flushed' \in 0 .. Len(log')
         /\ nextTxn' \in 1 .. MaxTxns + 1 /\ current' \in [Sessions -> TxnIds \cup {NoTxn}]
         /\ readTs' \in [TxnIds -> 0 .. MaxTxns] /\ commitTs' \in [TxnIds -> MaybeTs]
         /\ state' \in [TxnIds -> {"none", "running", "committed", "aborted"}]
         /\ nextCommitTs' = nextCommitTs /\ lastCommitTs' = lastCommitTs /\ sets' = sets
<1> DEFINE n == nextTxn
<1>1. n \in TxnIds /\ n \in Nat /\ n <= MaxTxns /\ MaxTxns \in Nat
  BY MvccAssumption DEF BeginTxn, TypeOK, TxnIds
<1>2. /\ \A u \in Sessions : current'[u] = IF u = s THEN n ELSE current[u]
      /\ \A u \in Sessions : pc'[u] = IF u = s THEN p ELSE pc[u]
      /\ \A t \in TxnIds : readTs'[t] = IF t = n THEN lastCommitTs ELSE readTs[t]
      /\ \A t \in TxnIds : state'[t] = IF t = n THEN "running" ELSE state[t]
      /\ nextTxn' = n + 1 /\ nextCommitTs' = nextCommitTs /\ lastCommitTs' = lastCommitTs
      /\ commitTs' = commitTs /\ inserts' = inserts /\ deletes' = deletes
  BY DEF BeginTxn, TypeOK, sets
<1>3. /\ Record("BEGIN", n, NoRow, Invalid) \in Records
      /\ Record("BEGIN", n, NoRow, Invalid).type \notin {"COMMIT", "INSERT", "DELETE"}
  BY <1>1 DEF Record, Records, MaybeTs
<1>4. log' \in Seq(Records) /\ flushed' \in 0 .. Len(log') /\ LogGrows /\ RecordsSound'
  BY <1>3, Appended DEF BeginTxn
<1>5. /\ nextTxn' \in 1 .. MaxTxns + 1 /\ current' \in [Sessions -> TxnIds \cup {NoTxn}]
      /\ readTs' \in [TxnIds -> 0 .. MaxTxns]
      /\ state' \in [TxnIds -> {"none", "running", "committed", "aborted"}]
  BY <1>1 DEF BeginTxn, TypeOK
<1>6. \A u \in Sessions : current[u] # n /\ (current[u] # NoTxn => current[u] < n)
  BY <1>1, Sentinels DEF RunParts, Underway, TypeOK, TxnIds
<1>7. n # NoTxn /\ state[n] = "none"
  BY <1>1, Sentinels DEF RunParts, Unused
<1>8. Apart'
  BY <1>2, <1>6 DEF RunParts, Apart
<1>9. Engaged'
  BY <1>2, <1>7 DEF RunParts, Engaged, Running, Stages
<1>10. Underway'
  <2> SUFFICES ASSUME NEW u \in Sessions, current'[u] # NoTxn
               PROVE  /\ current'[u] < nextTxn'
                      /\ state'[current'[u]] = IF pc'[u] \in Committing THEN "committed" ELSE "running"
    BY DEF Underway
  <2>1. CASE u = s
    BY <1>1, <1>2, <2>1 DEF Committing
  <2>2. CASE u # s
    <3>1. current'[u] = current[u] /\ pc'[u] = pc[u] /\ current[u] \in TxnIds
          /\ current[u] < n /\ current[u] # n
      BY <1>2, <1>6, <2>2 DEF TypeOK
    <3> QED
      BY <1>1, <1>2, <3>1 DEF RunParts, Underway, TxnIds
  <2> QED
    BY <2>1, <2>2
<1>11. Unused'
  BY <1>1, <1>2 DEF RunParts, Unused, TxnIds
<1>12. Stamped'
  BY <1>2, <1>7 DEF RunParts, Stamped
<1>13. Counted'
  <2>1. CommittedTxns' = CommittedTxns
    BY <1>2, <1>7 DEF CommittedTxns
  <2> QED
    BY <1>2, <2>1 DEF RunParts, Counted
<1>14. Past'
  BY <1>2 DEF RunParts, Past
<1>15. Published'
  BY <1>2, <1>6, <1>7 DEF RunParts, Published
<1>16. /\ \A ts : LoggedBy(ts, Len(log)) => (\E i \in 1 .. Len(log') : log'[i].type = "COMMIT" /\ log'[i].ts = ts)
       /\ \A ts : LoggedBy(ts, flushed) => (\E i \in 1 .. flushed' : log'[i].type = "COMMIT" /\ log'[i].ts = ts)
  <2>1. Len(log) \in Nat /\ Len(log') \in Nat /\ flushed \in 0 .. Len(log) /\ flushed' \in Nat
    BY <1>4 DEF TypeOK
  <2>2. /\ \A i \in 1 .. Len(log) : i \in 1 .. Len(log') /\ log'[i] = log[i]
        /\ \A i \in 1 .. flushed : i \in 1 .. Len(log) /\ i \in 1 .. flushed'
    BY <1>4, <2>1 DEF LogGrows
  <2> QED
    BY <2>2 DEF LoggedBy
<1>17. CommitLogged'
  <2> SUFFICES ASSUME NEW u \in Sessions, pc'[u] \in {"flushCommit", "backfill"}
               PROVE  /\ pc'[u] = "flushCommit" => LoggedBy(commitTs[current[u]], Len(log))'
                      /\ pc'[u] = "backfill" => LoggedBy(commitTs[current[u]], flushed)'
    BY DEF CommitLogged
  <2>1. u # s /\ current'[u] = current[u] /\ pc'[u] = pc[u]
    BY <1>2
  <2>2. /\ pc[u] = "flushCommit" => LoggedBy(commitTs[current[u]], Len(log))
        /\ pc[u] = "backfill" => LoggedBy(commitTs[current[u]], flushed)
    BY DEF RunParts, CommitLogged
  <2>3. commitTs'[current'[u]] = commitTs[current[u]]
    BY <1>2, <2>1
  <2>4. PICK ts : ts = commitTs[current[u]]
    OBVIOUS
  <2>5. /\ LoggedBy(ts, Len(log)) => LoggedBy(ts, Len(log))'
        /\ LoggedBy(ts, flushed) => LoggedBy(ts, flushed)'
    BY <1>16 DEF LoggedBy
  <2>6. (commitTs[current[u]])' = ts
    BY <2>3, <2>4
  <2> QED
    BY <2>1, <2>2, <2>4, <2>5, <2>6 DEF LoggedBy
<1>18. StoreLogged'
  BY <1>16 DEF RunParts, StoreLogged, LoggedBy
<1>19. commitTs' \in [TxnIds -> MaybeTs] /\ sets' = sets
  BY <1>2 DEF TypeOK, sets
<1> QED
  BY <1>2, <1>4, <1>5, <1>8, <1>9, <1>10, <1>11, <1>12, <1>13, <1>14, <1>15, <1>17, <1>18, <1>19

LEMMA BeginKeeps ==
  ASSUME TypeOK, RecordsSound, RunParts, NEW s \in Sessions, Begin(s)
  PROVE  MvccInv'
<1>1. /\ up /\ up' = up /\ pc[s] = "idle" /\ BeginTxn(s) /\ pc' = pc /\ store' = store
      /\ stmt' = stmt /\ target' = target /\ todo' = todo /\ rowCount' = rowCount
      /\ explicit' = [explicit EXCEPT ![s] = TRUE]
  BY DEF Begin, At
<1>2. pc' = [pc EXCEPT ![s] = "idle"]
  BY <1>1 DEF TypeOK
<1>3. /\ (Apart /\ Engaged /\ Underway /\ Unused /\ Stamped /\ Counted /\ Past /\ Published
          /\ CommitLogged /\ StoreLogged)'
      /\ RecordsSound' /\ log' \in Seq(Records) /\ flushed' \in 0 .. Len(log')
      /\ nextTxn' \in 1 .. MaxTxns + 1 /\ current' \in [Sessions -> TxnIds \cup {NoTxn}]
      /\ readTs' \in [TxnIds -> 0 .. MaxTxns] /\ commitTs' \in [TxnIds -> MaybeTs]
      /\ state' \in [TxnIds -> {"none", "running", "committed", "aborted"}]
      /\ nextCommitTs' = nextCommitTs /\ lastCommitTs' = lastCommitTs /\ sets' = sets
  BY <1>1, <1>2, BeginTxnKeeps
<1>4. TypeOK'
  BY <1>1, <1>3 DEF TypeOK, sets
<1>5. InStatement' /\ OnTarget'
  BY <1>1 DEF RunParts, InStatement, OnTarget
<1> QED
  BY <1>1, <1>3, <1>4, <1>5 DEF MvccInv, RunParts

LEMMA StartKeeps ==
  ASSUME TypeOK, RecordsSound, RunParts, NEW s \in Sessions, NEW kind \in Kinds,
         NEW t \in Tables, Start(s, kind, t)
  PROVE  MvccInv'
<1> DEFINE new == [kind |-> kind, table |-> t, auto |-> ~explicit[s], upto |-> 0]
<1>1. PICK p \in {"page", "open"} :
        /\ up /\ up' = up /\ pc[s] = "idle" /\ store' = store
        /\ stmt' = [stmt EXCEPT ![s] = new]
        /\ pc' = [pc EXCEPT ![s] = p] /\ target' = [target EXCEPT ![s] = NoRow]
        /\ todo' = todo /\ rowCount' = rowCount /\ explicit' = explicit
  BY DEF Start, At, Goto
<1>2. new \in Stmts
  BY DEF Stmts, TypeOK
<1> HIDE DEF new
<1>3. /\ stmt' \in [Sessions -> Stmts \cup {NoStmt}] /\ target' \in [Sessions -> Rows \cup {NoRow}]
      /\ pc' \in [Sessions -> Stages] /\ store' \in [Rids -> Metas \cup {NoMeta}]
      /\ todo' \in [Sessions -> [ins : Seq(Rows), del : Seq(Rows)]]
      /\ rowCount' \in [Tables -> 0 .. MaxRows] /\ explicit' \in [Sessions -> BOOLEAN] /\ up' \in BOOLEAN
  BY <1>1, <1>2 DEF TypeOK, Stages
<1>4. InStatement' /\ OnTarget'
  BY <1>1, <1>2, Sentinels DEF TypeOK, RunParts, InStatement, OnTarget, Writing, OnARow
<1>5. CASE current[s] = NoTxn
  <2>1. BeginTxn(s)
    BY <1>5 DEF Start
  <2>2. /\ (Apart /\ Engaged /\ Underway /\ Unused /\ Stamped /\ Counted /\ Past /\ Published
            /\ CommitLogged /\ StoreLogged)'
        /\ RecordsSound' /\ log' \in Seq(Records) /\ flushed' \in 0 .. Len(log')
        /\ nextTxn' \in 1 .. MaxTxns + 1 /\ current' \in [Sessions -> TxnIds \cup {NoTxn}]
        /\ readTs' \in [TxnIds -> 0 .. MaxTxns] /\ commitTs' \in [TxnIds -> MaybeTs]
        /\ state' \in [TxnIds -> {"none", "running", "committed", "aborted"}]
        /\ nextCommitTs' = nextCommitTs /\ lastCommitTs' = lastCommitTs /\ sets' = sets
    BY <1>1, <2>1, BeginTxnKeeps
  <2>3. TypeOK'
    BY <1>3, <2>2 DEF TypeOK, sets
  <2> QED
    BY <1>1, <1>4, <2>2, <2>3 DEF MvccInv, RunParts
<1>6. CASE current[s] # NoTxn
  <2>1. UNCHANGED <<txnVars, sets, walVars, current>>
    BY <1>6 DEF Start
  <2>2. log' \in Seq(Records) /\ flushed' \in 0 .. Len(log') /\ LogGrows /\ RecordsSound'
    BY <2>1, LogStays
  <2>3. TypeOK'
    BY <1>3, <2>1, <2>2 DEF TypeOK, txnVars, sets
  <2>4. QuietStep(s)
    BY <1>1, <1>6, <2>1, <2>2 DEF TypeOK, QuietStep, txnVars, sets, Committing, Running, Stages
  <2>5. StoreLogged'
    BY <1>1, <2>2, <2>3, StoreUntouched DEF RunParts
  <2> QED
    BY <1>1, <1>4, <2>2, <2>3, <2>4, <2>5, QuietIsEnough DEF Quiet
<1> QED
  BY <1>5, <1>6

-----------------------------------------------------------------------------
\* A commit.

\* What the steps of a commit leave alone.
CommitStep(s) ==
  /\ up /\ UNCHANGED <<nextTxn, readTs, sets, rowCount, stmt, target, up>>
  /\ current[s] # NoTxn /\ pc[s] # "idle"
  /\ pc' = [pc EXCEPT ![s] = pc'[s]]
  /\ LogGrows

LEMMA CommitStepKeeps ==
  ASSUME TypeOK, TypeOK', RunParts, NEW s \in Sessions, CommitStep(s), current' = current,
         pc'[s] \in Committing
  PROVE  (Apart /\ Engaged /\ InStatement /\ OnTarget)'
<1>1. /\ \A u \in Sessions : u # s => pc'[u] = pc[u]
      /\ stmt' = stmt /\ target' = target /\ current[s] # NoTxn
  BY DEF CommitStep, TypeOK
<1>2. Apart' /\ Engaged'
  BY <1>1 DEF RunParts, Apart, Engaged, Committing, Running, Stages
<1>3. InStatement' /\ OnTarget'
  BY <1>1 DEF RunParts, InStatement, OnTarget, Committing, Writing, OnARow
<1> QED
  BY <1>2, <1>3

\* The other sessions' commits stay logged.
LEMMA OthersLogged ==
  ASSUME TypeOK, TypeOK', RunParts, NEW s \in Sessions, LogGrows,
         \A u \in Sessions : u # s => pc'[u] = pc[u] /\ current'[u] = current[u],
         \A u \in Sessions : u # s /\ current[u] # NoTxn => commitTs'[current[u]] = commitTs[current[u]],
         pc'[s] = "flushCommit" => LoggedBy(commitTs[current[s]], Len(log))',
         pc'[s] = "backfill" => LoggedBy(commitTs[current[s]], flushed)'
  PROVE  CommitLogged'
<1> SUFFICES ASSUME NEW u \in Sessions
             PROVE  /\ pc'[u] = "flushCommit" => LoggedBy(commitTs[current[u]], Len(log))'
                    /\ pc'[u] = "backfill" => LoggedBy(commitTs[current[u]], flushed)'
  BY DEF CommitLogged
<1>1. CASE u = s
  BY <1>1
<1>2. CASE u # s
  <2>1. pc[u] \in {"flushCommit", "backfill"} => current[u] # NoTxn
    BY DEF RunParts, Engaged
  <2> QED
    BY <1>2, <2>1, LoggedGrows DEF RunParts, CommitLogged, LoggedBy
<1> QED
  BY <1>1, <1>2

LEMMA StampKeeps ==
  ASSUME TypeOK, RecordsSound, RunParts, NEW s \in Sessions, Stamp(s)
  PROVE  MvccInv'
<1>1. pc[s] = "stamp" /\ up /\ current[s] \in TxnIds /\ current[s] # NoTxn
  BY WorksOn DEF Stamp, At
<1> DEFINE c == current[s]
<1>2. /\ pc' = [pc EXCEPT ![s] = "publish"]
      /\ commitTs' = [commitTs EXCEPT ![c] = nextCommitTs] /\ nextCommitTs' = nextCommitTs + 1
      /\ state' = [state EXCEPT ![c] = "committed"]
      /\ UNCHANGED <<nextTxn, lastCommitTs, readTs, sets, store, walVars, rowCount, current,
                     explicit, stmt, target, todo, up>>
  BY DEF Stamp, Goto, Txn
<1>3. log' \in Seq(Records) /\ flushed' \in 0 .. Len(log') /\ LogGrows /\ RecordsSound'
  BY <1>2, LogStays
<1>4. c < nextTxn /\ state[c] = "running"
  BY <1>1 DEF RunParts, Underway, Committing
<1>5. CommittedTxns' = CommittedTxns \cup {c} /\ c \notin CommittedTxns
  BY <1>1, <1>2, <1>4 DEF CommittedTxns, TypeOK
<1>6. /\ Cardinality(CommittedTxns') = nextCommitTs
      /\ nextCommitTs \in 1 .. MaxTxns
  <2>1. IsFiniteSet(TxnIds) /\ Cardinality(TxnIds) = MaxTxns
    BY MvccAssumption, FS_Interval DEF TxnIds
  <2>2. IsFiniteSet(CommittedTxns) /\ IsFiniteSet(CommittedTxns')
        /\ Cardinality(CommittedTxns') <= MaxTxns
    BY <2>1, FS_Subset DEF CommittedTxns
  <2>3. Cardinality(CommittedTxns') = Cardinality(CommittedTxns) + 1
    BY <1>5, <2>2, FS_AddElement
  <2>4. Cardinality(CommittedTxns) = nextCommitTs - 1 /\ nextCommitTs \in Nat /\ nextCommitTs >= 1
    BY MvccAssumption DEF RunParts, Counted, TypeOK
  <2>5. Cardinality(CommittedTxns') = nextCommitTs
    BY <2>3, <2>4
  <2> QED
    BY <2>2, <2>4, <2>5, MvccAssumption
<1>7. TypeOK'
  <2>1. nextCommitTs' \in 1 .. MaxTxns + 1 /\ nextCommitTs \in MaybeTs
    BY <1>2, <1>6, MvccAssumption DEF MaybeTs, TxnIds
  <2>2. /\ commitTs' \in [TxnIds -> MaybeTs] /\ pc' \in [Sessions -> Stages]
        /\ state' \in [TxnIds -> {"none", "running", "committed", "aborted"}]
    BY <1>2, <2>1 DEF TypeOK, Stages
  <2> QED
    BY <1>2, <1>3, <2>1, <2>2 DEF TypeOK, sets
<1>8. /\ \A u \in Sessions : u # s => pc'[u] = pc[u]
      /\ \A t \in TxnIds : commitTs'[t] = IF t = c THEN nextCommitTs ELSE commitTs[t]
      /\ \A t \in TxnIds : state'[t] = IF t = c THEN "committed" ELSE state[t]
      /\ pc'[s] = "publish"
  BY <1>1, <1>2 DEF TypeOK
<1>9. (Apart /\ Engaged /\ InStatement /\ OnTarget)'
  BY <1>1, <1>2, <1>3, <1>7, <1>8, CommitStepKeeps DEF CommitStep, Committing
<1>10. \A u \in Sessions : u # s => current[u] # c
  BY <1>1 DEF RunParts, Apart
<1>11. Underway'
  BY <1>1, <1>2, <1>4, <1>8, <1>10 DEF RunParts, Underway, Committing, TypeOK
<1>12. Unused'
  BY <1>1, <1>2, <1>4, <1>8 DEF RunParts, Unused, sets, TypeOK, TxnIds
<1>13. Stamped' /\ Past'
  <2>1. nextCommitTs \in 1 .. nextCommitTs' - 1 /\ nextCommitTs \in Nat /\ nextCommitTs' = nextCommitTs + 1
    BY <1>2, <1>6
  <2> QED
    BY <1>2, <1>8, <2>1 DEF RunParts, Stamped, Past, TypeOK
<1>14. Counted'
  BY <1>2, <1>6 DEF Counted, TypeOK
<1>15. Published'
  BY <1>1, <1>2, <1>8 DEF RunParts, Published
<1>16. CommitLogged'
  <2>1. \A u \in Sessions : u # s => pc'[u] = pc[u] /\ current'[u] = current[u]
    BY <1>2, <1>8
  <2>2. \A u \in Sessions : u # s /\ current[u] # NoTxn => commitTs'[current[u]] = commitTs[current[u]]
    BY <1>8, <1>10 DEF TypeOK
  <2> QED
    BY <1>3, <1>7, <1>8, <2>1, <2>2, OthersLogged
<1>17. StoreLogged'
  BY <1>2, <1>3, <1>7, StoreUntouched DEF RunParts
<1> QED
  BY <1>1, <1>2, <1>3, <1>7, <1>9, <1>11, <1>12, <1>13, <1>14, <1>15, <1>16, <1>17
  DEF MvccInv, RunParts

\* The commit after its timestamp is drawn: the transactions stay what they are.
LEMMA AfterStampKeeps ==
  ASSUME TypeOK, TypeOK', RunParts, NEW s \in Sessions, CommitStep(s), current' = current,
         pc[s] \in Committing, pc'[s] \in Committing,
         UNCHANGED <<nextCommitTs, commitTs, state>>,
         lastCommitTs <= lastCommitTs', lastCommitTs' < nextCommitTs,
         pc[s] = "publish" => commitTs[current[s]] <= lastCommitTs',
         pc'[s] # "publish",
         pc'[s] = "flushCommit" => LoggedBy(commitTs[current[s]], Len(log))',
         pc'[s] = "backfill" => LoggedBy(commitTs[current[s]], flushed)'
  PROVE  (Apart /\ Engaged /\ Underway /\ InStatement /\ OnTarget /\ Unused /\ Stamped
          /\ Counted /\ Past /\ Published /\ CommitLogged)'
<1>1. /\ \A u \in Sessions : u # s => pc'[u] = pc[u]
      /\ LogGrows /\ nextTxn' = nextTxn /\ readTs' = readTs
      /\ inserts' = inserts /\ deletes' = deletes
  BY DEF CommitStep, TypeOK, sets
<1>2. (Apart /\ Engaged /\ InStatement /\ OnTarget)'
  BY CommitStepKeeps
<1>3. Underway'
  BY <1>1 DEF RunParts, Underway
<1>4. Unused' /\ Stamped' /\ Past'
  BY <1>1 DEF RunParts, Unused, Stamped, Past
<1>5. Counted'
  <2>1. CommittedTxns' = CommittedTxns
    BY DEF CommittedTxns
  <2> QED
    BY <2>1 DEF RunParts, Counted
<1>6. Published'
  <2> SUFFICES ASSUME NEW t \in TxnIds, state[t] = "committed", ~(commitTs[t] <= lastCommitTs')
               PROVE  \E u \in Sessions : current[u] = t /\ pc'[u] = "publish"
    BY DEF Published
  <2>1. ~(commitTs[t] <= lastCommitTs)
    <3>1. lastCommitTs \in Int /\ commitTs[t] \in Int
      BY MvccAssumption DEF TypeOK, MaybeTs, TxnIds, Invalid
    <3>2. lastCommitTs' \in 0 .. MaxTxns
      BY DEF TypeOK
    <3>3. lastCommitTs' \in Int
      BY <3>2, MvccAssumption
    <3> QED
      BY <3>1, <3>3
  <2>2. PICK u \in Sessions : current[u] = t /\ pc[u] = "publish"
    BY <2>1 DEF RunParts, Published
  <2>3. u # s
    BY <2>2
  <2> QED
    BY <1>1, <2>2, <2>3
<1>7. CommitLogged'
  BY <1>1, OthersLogged
<1> QED
  BY <1>2, <1>3, <1>4, <1>5, <1>6, <1>7

LEMMA PublishKeeps ==
  ASSUME TypeOK, RecordsSound, RunParts, NEW s \in Sessions, Publish(s)
  PROVE  MvccInv'
<1>1. pc[s] = "publish" /\ up /\ current[s] \in TxnIds /\ current[s] # NoTxn
  BY WorksOn DEF Publish, At
<1> DEFINE c == current[s]
<1>2. /\ pc' = [pc EXCEPT ![s] = "logCommit"]
      /\ lastCommitTs' = IF lastCommitTs < commitTs[c] THEN commitTs[c] ELSE lastCommitTs
      /\ UNCHANGED <<nextTxn, nextCommitTs, readTs, commitTs, state, sets, store, walVars,
                     rowCount, current, explicit, stmt, target, todo, up>>
  BY DEF Publish, Goto, Txn
<1>3. log' \in Seq(Records) /\ flushed' \in 0 .. Len(log') /\ LogGrows /\ RecordsSound'
  BY <1>2, LogStays
<1>4. state[c] = "committed" /\ commitTs[c] \in 1 .. nextCommitTs - 1
  BY <1>1 DEF RunParts, Underway, Stamped, Committing
<1>5. /\ lastCommitTs' \in 0 .. MaxTxns /\ lastCommitTs <= lastCommitTs'
      /\ lastCommitTs' < nextCommitTs /\ commitTs[c] <= lastCommitTs'
  <2>1. /\ MaxTxns \in Nat /\ lastCommitTs \in 0 .. MaxTxns /\ nextCommitTs \in 1 .. MaxTxns + 1
        /\ lastCommitTs < nextCommitTs
    BY MvccAssumption DEF TypeOK, RunParts, Past
  <2> HIDE DEF c
  <2> QED
    BY <1>2, <1>4, <2>1
<1>6. TypeOK'
  BY <1>2, <1>3, <1>5 DEF TypeOK, Stages, sets
<1>7. CommitStep(s) /\ pc'[s] = "logCommit"
  BY <1>1, <1>2, <1>3 DEF CommitStep, TypeOK
<1>8. (Apart /\ Engaged /\ Underway /\ InStatement /\ OnTarget /\ Unused /\ Stamped
       /\ Counted /\ Past /\ Published /\ CommitLogged)'
  BY <1>1, <1>2, <1>5, <1>6, <1>7, AfterStampKeeps DEF Committing
<1>9. StoreLogged'
  BY <1>2, <1>3, <1>6, StoreUntouched DEF RunParts
<1> QED
  BY <1>1, <1>2, <1>3, <1>6, <1>8, <1>9 DEF MvccInv, RunParts

LEMMA LogCommitKeeps ==
  ASSUME TypeOK, RecordsSound, RunParts, NEW s \in Sessions, LogCommit(s)
  PROVE  MvccInv'
<1>1. pc[s] = "logCommit" /\ up /\ current[s] \in TxnIds /\ current[s] # NoTxn
  BY WorksOn DEF LogCommit, At
<1> DEFINE c == current[s]
           rec == Record("COMMIT", c, NoRow, commitTs[c])
<1>2. /\ pc' = [pc EXCEPT ![s] = "flushCommit"] /\ AppendLog(rec)
      /\ UNCHANGED <<txnVars, sets, store, rowCount, current, explicit, stmt, target, todo, up>>
  BY DEF LogCommit, Goto, Txn
<1>3. state[c] = "committed" /\ commitTs[c] \in TxnIds /\ commitTs[c] # Invalid
  <2>1. state[c] = "committed"
    BY <1>1 DEF RunParts, Underway, Committing
  <2>2. commitTs[c] \in 1 .. nextCommitTs - 1
    BY <1>1, <2>1 DEF RunParts, Stamped
  <2>3. nextCommitTs \in 1 .. MaxTxns + 1 /\ MaxTxns \in Nat
    BY MvccAssumption DEF TypeOK
  <2> QED
    BY <2>1, <2>2, <2>3 DEF TxnIds, Invalid
<1>4. /\ rec \in Records /\ rec.type = "COMMIT" /\ rec.ts = commitTs[c] /\ rec.ts # Invalid
  BY <1>1, <1>3 DEF Record, Records, MaybeTs
<1> HIDE DEF rec
<1>5. /\ log' \in Seq(Records) /\ flushed' \in 0 .. Len(log') /\ LogGrows /\ RecordsSound'
      /\ Len(log') = Len(log) + 1 /\ log'[Len(log')] = rec
  BY <1>2, <1>4, Appended
<1>6. TypeOK'
  BY <1>2, <1>5 DEF TypeOK, Stages, sets, txnVars
<1>7. CommitStep(s) /\ pc'[s] = "flushCommit"
  BY <1>1, <1>2, <1>5 DEF CommitStep, TypeOK, txnVars
<1>8. LoggedBy(commitTs[c], Len(log))'
  <2>1. Len(log') \in 1 .. Len(log') /\ commitTs'[current'[s]] = commitTs[c]
    BY <1>2, <1>5 DEF TypeOK, txnVars
  <2> QED
    BY <1>4, <1>5, <2>1 DEF LoggedBy
<1>9. /\ UNCHANGED <<nextCommitTs, commitTs, state>>
      /\ lastCommitTs <= lastCommitTs' /\ lastCommitTs' < nextCommitTs
  BY <1>2 DEF txnVars, TypeOK, RunParts, Past
<1>10. (Apart /\ Engaged /\ Underway /\ InStatement /\ OnTarget /\ Unused /\ Stamped
       /\ Counted /\ Past /\ Published /\ CommitLogged)'
  BY <1>1, <1>2, <1>6, <1>7, <1>8, <1>9, AfterStampKeeps DEF Committing
<1>11. StoreLogged'
  BY <1>2, <1>5, <1>6, StoreUntouched DEF RunParts
<1> QED
  BY <1>1, <1>2, <1>5, <1>6, <1>10, <1>11 DEF MvccInv, RunParts

LEMMA FlushCommitKeeps ==
  ASSUME TypeOK, RecordsSound, RunParts, NEW s \in Sessions, FlushCommit(s)
  PROVE  MvccInv'
<1>1. pc[s] = "flushCommit" /\ up /\ current[s] \in TxnIds /\ current[s] # NoTxn
  BY WorksOn DEF FlushCommit, At
<1> DEFINE c == current[s]
<1>2. /\ pc' = [pc EXCEPT ![s] = "backfill"] /\ FlushLog
      /\ todo' = [todo EXCEPT ![s] = [ins |-> inserts[c], del |-> deletes[c]]]
      /\ UNCHANGED <<txnVars, sets, store, rowCount, current, explicit, stmt, target, up>>
  BY DEF FlushCommit, Goto, Txn, Writes
<1>3. /\ log' \in Seq(Records) /\ flushed' \in 0 .. Len(log') /\ LogGrows /\ RecordsSound'
      /\ log' = log /\ flushed' = Len(log)
  BY <1>2, Flushed
<1>4. TypeOK'
  <2>1. [ins |-> inserts[c], del |-> deletes[c]] \in [ins : Seq(Rows), del : Seq(Rows)]
    BY <1>1 DEF TypeOK
  <2>2. todo' \in [Sessions -> [ins : Seq(Rows), del : Seq(Rows)]] /\ pc' \in [Sessions -> Stages]
    BY <1>2, <2>1 DEF TypeOK, Stages
  <2> QED
    BY <1>2, <1>3, <2>2 DEF TypeOK, sets, txnVars
<1>5. CommitStep(s) /\ pc'[s] = "backfill"
  BY <1>1, <1>2, <1>3 DEF CommitStep, TypeOK, txnVars
<1>6. LoggedBy(commitTs[c], flushed)'
  BY <1>1, <1>2, <1>3 DEF RunParts, CommitLogged, LoggedBy, txnVars
<1>7. /\ UNCHANGED <<nextCommitTs, commitTs, state>>
      /\ lastCommitTs <= lastCommitTs' /\ lastCommitTs' < nextCommitTs
  BY <1>2 DEF txnVars, TypeOK, RunParts, Past
<1>8. (Apart /\ Engaged /\ Underway /\ InStatement /\ OnTarget /\ Unused /\ Stamped
       /\ Counted /\ Past /\ Published /\ CommitLogged)'
  BY <1>1, <1>2, <1>4, <1>5, <1>6, <1>7, AfterStampKeeps DEF Committing
<1>9. StoreLogged'
  BY <1>2, <1>3, <1>4, StoreUntouched DEF RunParts
<1> QED
  BY <1>1, <1>2, <1>3, <1>4, <1>8, <1>9 DEF MvccInv, RunParts

LEMMA BackfillKeeps ==
  ASSUME TypeOK, RecordsSound, RunParts, NEW s \in Sessions, Backfill(s)
  PROVE  MvccInv'
<1>1. pc[s] = "backfill" /\ up /\ current[s] \in TxnIds /\ current[s] # NoTxn
  BY WorksOn DEF Backfill, At
<1> DEFINE c == current[s]
           ts == commitTs[c]
<1>2. UNCHANGED <<txnVars, sets, walVars, rowCount, current, explicit, pc, stmt, target, up>>
  BY DEF Backfill
<1>3. log' \in Seq(Records) /\ flushed' \in 0 .. Len(log') /\ LogGrows /\ RecordsSound'
  BY <1>2, LogStays
<1>4. ts \in TxnIds /\ LoggedBy(ts, flushed)
  <2>1. state[c] = "committed" /\ LoggedBy(ts, flushed)
    BY <1>1 DEF RunParts, Underway, CommitLogged, Committing
  <2> QED
    BY <1>1, <2>1, MvccAssumption DEF RunParts, Stamped, TypeOK, TxnIds
<1>5. PICK r \in Rids, m \in Metas :
        /\ todo' \in [Sessions -> [ins : Seq(Rows), del : Seq(Rows)]]
        /\ store' = IF store[r] = NoMeta THEN store ELSE [store EXCEPT ![r] = m]
        /\ store[r] # NoMeta => m.bTs \in {store[r].bTs, ts} /\ m.eTs \in {store[r].eTs, ts}
  <2>1. \A r \in Rids : store[r] # NoMeta =>
          /\ store[r] \in Metas
          /\ [store[r] EXCEPT !.bTs = ts] \in Metas /\ [store[r] EXCEPT !.eTs = ts] \in Metas
          /\ [store[r] EXCEPT !.bTs = ts].bTs = ts /\ [store[r] EXCEPT !.bTs = ts].eTs = store[r].eTs
          /\ [store[r] EXCEPT !.eTs = ts].eTs = ts /\ [store[r] EXCEPT !.eTs = ts].bTs = store[r].bTs
    BY <1>4 DEF TypeOK, Metas, MaybeTs
  <2>2. FreshMeta(Invalid) \in Metas
    BY DEF FreshMeta, Metas, MaybeTxn, MaybeTs
  <2>3. PICK r \in Rids :
          /\ todo' \in [Sessions -> [ins : Seq(Rows), del : Seq(Rows)]]
          /\ \/ store' = IF store[r] = NoMeta THEN store
                         ELSE [store EXCEPT ![r] = [store[r] EXCEPT !.bTs = ts]]
             \/ store' = IF store[r] = NoMeta THEN store
                         ELSE [store EXCEPT ![r] = [store[r] EXCEPT !.eTs = ts]]
    <3>1. ASSUME NextInsert(s), CommitInsert(Head(todo[s].ins)[2], commitTs[Txn(s)])
          PROVE  \E r \in Rids :
                   /\ todo' \in [Sessions -> [ins : Seq(Rows), del : Seq(Rows)]]
                   /\ store' = IF store[r] = NoMeta THEN store
                               ELSE [store EXCEPT ![r] = [store[r] EXCEPT !.bTs = ts]]
      BY <3>1, TodoTypes DEF CommitInsert, IfKnown, Txn
    <3>2. ASSUME NextDelete(s), CommitDelete(Head(todo[s].del)[2], commitTs[Txn(s)])
          PROVE  \E r \in Rids :
                   /\ todo' \in [Sessions -> [ins : Seq(Rows), del : Seq(Rows)]]
                   /\ store' = IF store[r] = NoMeta THEN store
                               ELSE [store EXCEPT ![r] = [store[r] EXCEPT !.eTs = ts]]
      BY <3>2, TodoTypes DEF CommitDelete, IfKnown, Txn
    <3> QED
      BY <3>1, <3>2 DEF Backfill
  <2>4. CASE store[r] = NoMeta
    BY <2>2, <2>3, <2>4
  <2>5. CASE store[r] # NoMeta
    <3> DEFINE b == [store[r] EXCEPT !.bTs = ts]
               e == [store[r] EXCEPT !.eTs = ts]
    <3>1. /\ b \in Metas /\ b.bTs = ts /\ b.eTs = store[r].eTs
          /\ e \in Metas /\ e.eTs = ts /\ e.bTs = store[r].bTs
      BY <2>1, <2>5
    <3>2. store' = [store EXCEPT ![r] = b] \/ store' = [store EXCEPT ![r] = e]
      BY <2>3, <2>5
    <3> HIDE DEF b, e
    <3> QED
      BY <2>3, <2>5, <3>1, <3>2
  <2> QED
    BY <2>4, <2>5
<1>6. TypeOK'
  <2>1. store' \in [Rids -> Metas \cup {NoMeta}]
    BY <1>5 DEF TypeOK
  <2> QED
    BY <1>2, <1>3, <1>5, <2>1 DEF TypeOK, txnVars, sets
<1>7. CommitStep(s) /\ pc'[s] = "backfill"
  BY <1>1, <1>2, <1>3 DEF CommitStep, TypeOK, txnVars
<1>8. LoggedBy(commitTs[c], flushed)'
  BY <1>2, <1>4 DEF LoggedBy, txnVars, walVars
<1>9. /\ UNCHANGED <<nextCommitTs, commitTs, state>>
      /\ lastCommitTs <= lastCommitTs' /\ lastCommitTs' < nextCommitTs
  BY <1>2 DEF txnVars, TypeOK, RunParts, Past
<1>10. (Apart /\ Engaged /\ Underway /\ InStatement /\ OnTarget /\ Unused /\ Stamped
       /\ Counted /\ Past /\ Published /\ CommitLogged)'
  BY <1>1, <1>2, <1>6, <1>7, <1>8, <1>9, AfterStampKeeps DEF Committing
<1>11. StoreLogged'
  <2> HIDE DEF ts
  <2>1. StoreLogged /\ (store[r] # NoMeta => /\ m.bTs \in {store[r].bTs, Invalid, ts}
                                            /\ m.eTs \in {store[r].eTs, Invalid, ts})
    BY <1>5 DEF RunParts
  <2> QED
    BY <1>3, <1>4, <1>5, <1>6, <2>1, StampsLogged
<1> QED
  BY <1>1, <1>2, <1>3, <1>6, <1>10, <1>11 DEF MvccInv, RunParts

-----------------------------------------------------------------------------
\* A transaction ends.

LEMMA EndTxnKeeps ==
  ASSUME TypeOK, RecordsSound, RunParts, NEW s \in Sessions, up, EndTxn(s),
         pc[s] \in {"backfill", "undo"},
         UNCHANGED <<nextTxn, nextCommitTs, lastCommitTs, readTs, commitTs, sets, store, walVars,
                     rowCount, stmt, target, todo, up>>,
         \/ state' = state
         \/ pc[s] = "undo" /\ state' = [state EXCEPT ![current[s]] = "aborted"]
  PROVE  MvccInv'
<1> DEFINE c == current[s]
<1>1. c \in TxnIds /\ c # NoTxn
  BY WorksOn
<1>2. /\ \A u \in Sessions : current'[u] = IF u = s THEN NoTxn ELSE current[u]
      /\ \A u \in Sessions : pc'[u] = IF u = s THEN "idle" ELSE pc[u]
      /\ inserts' = inserts /\ deletes' = deletes
  BY DEF EndTxn, Goto, TypeOK, sets
<1>3. /\ c < nextTxn
      /\ state' = state \/ state[c] = "running"
      /\ \A t \in TxnIds : state'[t] = state[t] \/ (t = c /\ state[c] = "running" /\ state'[c] = "aborted")
  BY <1>1 DEF RunParts, Underway, Committing, TypeOK
<1>4. log' \in Seq(Records) /\ flushed' \in 0 .. Len(log') /\ LogGrows /\ RecordsSound'
  BY LogStays
<1>5. TypeOK'
  <2>1. state' \in [TxnIds -> {"none", "running", "committed", "aborted"}]
    BY <1>1 DEF TypeOK
  <2>2. /\ current' \in [Sessions -> TxnIds \cup {NoTxn}] /\ explicit' \in [Sessions -> BOOLEAN]
        /\ pc' \in [Sessions -> Stages]
    BY DEF EndTxn, Goto, TypeOK, Stages
  <2> QED
    BY <1>4, <2>1, <2>2 DEF TypeOK, sets
<1>6. Apart' /\ Engaged'
  BY <1>2 DEF RunParts, Apart, Engaged, Running, Stages
<1>7. \A u \in Sessions : u # s => current[u] # c
  BY <1>1 DEF RunParts, Apart
<1>8. Underway'
  <2> SUFFICES ASSUME NEW u \in Sessions, current'[u] # NoTxn
               PROVE  /\ current'[u] < nextTxn'
                      /\ state'[current'[u]] = IF pc'[u] \in Committing THEN "committed" ELSE "running"
    BY DEF Underway
  <2>1. u # s /\ current'[u] = current[u] /\ pc'[u] = pc[u] /\ current[u] \in TxnIds
    BY <1>2 DEF TypeOK
  <2>2. state'[current[u]] = state[current[u]]
    BY <1>3, <1>7, <2>1
  <2> QED
    BY <2>1, <2>2 DEF RunParts, Underway
<1>9. InStatement' /\ OnTarget'
  BY <1>2 DEF RunParts, InStatement, OnTarget, Writing, OnARow
<1>10. Unused'
  BY <1>1, <1>2, <1>3 DEF RunParts, Unused, TypeOK, TxnIds
<1>11. Stamped' /\ Past'
  BY <1>3 DEF RunParts, Stamped, Past
<1>12. Counted'
  <2>1. CommittedTxns' = CommittedTxns
    BY <1>3 DEF CommittedTxns
  <2> QED
    BY <2>1 DEF RunParts, Counted
<1>13. Published'
  BY <1>2, <1>3 DEF RunParts, Published
<1>14. CommitLogged'
  <2>1. pc'[s] = "idle"
    BY <1>2
  <2> QED
    BY <1>2, <1>4, <1>5, <2>1, OthersLogged
<1>15. StoreLogged'
  BY <1>4, <1>5, StoreUntouched DEF RunParts
<1> QED
  BY <1>4, <1>5, <1>6, <1>8, <1>9, <1>10, <1>11, <1>12, <1>13, <1>14, <1>15
  DEF MvccInv, RunParts

LEMMA EndCommitKeeps ==
  ASSUME TypeOK, RecordsSound, RunParts, NEW s \in Sessions, EndCommit(s)
  PROVE  MvccInv'
BY EndTxnKeeps DEF EndCommit, At, txnVars

LEMMA EndAbortKeeps ==
  ASSUME TypeOK, RecordsSound, RunParts, NEW s \in Sessions, EndAbort(s)
  PROVE  MvccInv'
BY EndTxnKeeps DEF EndAbort, At, Txn

-----------------------------------------------------------------------------
\* Crash and recovery.

LEMMA CrashKeeps ==
  ASSUME TypeOK, RecordsSound, Crash
  PROVE  MvccInv'
<1>1. PICK n \in flushed .. Len(log) : log' = SubSeq(log, 1, n) /\ flushed' = n
  BY DEF Crash
<1>2. log \in Seq(Records) /\ Len(log) \in Nat /\ n \in 0 .. Len(log)
  BY DEF TypeOK
<1>3. /\ log' \in Seq(Records) /\ Len(log') = n
      /\ \A i \in 1 .. Len(log') : log'[i] = log[i]
  BY <1>1, <1>2, SubSeqProperties
<1>4. TypeOK'
  <2>1. /\ nextTxn' = 1 /\ nextCommitTs' = 1 /\ lastCommitTs' = 0
        /\ readTs' = [t \in TxnIds |-> 0] /\ commitTs' = [t \in TxnIds |-> Invalid]
        /\ state' = [t \in TxnIds |-> "none"]
        /\ inserts' = [t \in TxnIds |-> <<>>] /\ deletes' = [t \in TxnIds |-> <<>>]
        /\ store' = [r \in Rids |-> NoMeta]
    BY DEF Crash, FreshMemory
  <2>2. /\ current' = [s \in Sessions |-> NoTxn] /\ explicit' = [s \in Sessions |-> FALSE]
        /\ pc' = [s \in Sessions |-> "down"] /\ stmt' = [s \in Sessions |-> NoStmt]
        /\ todo' = [s \in Sessions |-> [ins |-> <<>>, del |-> <<>>]]
        /\ target' = [s \in Sessions |-> NoRow] /\ rowCount' = rowCount /\ up' = FALSE
    BY DEF Crash
  <2>3. /\ nextTxn' \in 1 .. MaxTxns + 1 /\ nextCommitTs' \in 1 .. MaxTxns + 1
        /\ lastCommitTs' \in 0 .. MaxTxns /\ readTs' \in [TxnIds -> 0 .. MaxTxns]
        /\ commitTs' \in [TxnIds -> MaybeTs]
        /\ state' \in [TxnIds -> {"none", "running", "committed", "aborted"}]
    BY <2>1, MvccAssumption DEF MaybeTs
  <2>4. <<>> \in Seq(Rows)
    OBVIOUS
  <2>5. /\ inserts' \in [TxnIds -> Seq(Rows)] /\ deletes' \in [TxnIds -> Seq(Rows)]
        /\ store' \in [Rids -> Metas \cup {NoMeta}]
        /\ todo' \in [Sessions -> [ins : Seq(Rows), del : Seq(Rows)]]
    BY <2>1, <2>2, <2>4
  <2>6. flushed' \in 0 .. Len(log')
    BY <1>1, <1>2, <1>3
  <2> QED
    BY <1>3, <2>2, <2>3, <2>5, <2>6 DEF TypeOK, Stages
<1>5. RecordsSound'
  BY <1>2, <1>3 DEF RecordsSound
<1>6. PICK s \in Sessions : TRUE
  BY MvccAssumption
<1>7. ~up' /\ Stopped' /\ Replay'
  BY <1>6 DEF Crash, Stopped, Replay, Recovered
<1> QED
  BY <1>4, <1>5, <1>7 DEF MvccInv

\* The last record of a kind is there, if any is.
LEMMA LastIsIn ==
  ASSUME TypeOK, NEW S \in SUBSET (1 .. Len(log)), S # {}
  PROVE  LastOf(S) \in S
<1>1. Len(log) \in Nat /\ S \in SUBSET Nat /\ \A n \in S : n <= Len(log)
  BY DEF TypeOK
<1>2. \E m \in S : \A n \in S : n <= m
  BY <1>1, Greatest
<1> QED
  BY <1>2 DEF LastOf

LEMMA RecordTypes ==
  ASSUME TypeOK, NEW i \in 1 .. Len(log)
  PROVE  /\ log[i] \in Records /\ log[i].txn \in 1 .. MaxTxns
         /\ log[i].ts \in -1 .. MaxTxns /\ log[i].ts \in MaybeTs
<1>1. log[i] \in Records
  BY DEF TypeOK
<1>2. log[i].txn \in TxnIds /\ log[i].ts \in MaybeTs
  BY <1>1 DEF Records
<1> QED
  BY <1>1, <1>2, MvccAssumption DEF MaybeTs, TxnIds, Invalid

LEMMA CommittedTyped == ASSUME TypeOK PROVE Committed \subseteq TxnIds
BY RecordTypes DEF Committed, TxnIds

LEMMA CommitRecordIsIn ==
  ASSUME TypeOK, RecordsSound, NEW t \in Committed
  PROVE  /\ CommitRecord(t) \in 1 .. Len(log)
         /\ log[CommitRecord(t)].ts \in TxnIds
<1> DEFINE S == {i \in 1 .. Len(log) : log[i].type = "COMMIT" /\ log[i].txn = t}
<1>1. Len(log) \in Nat /\ S \in SUBSET Nat /\ \A n \in S : n <= Len(log)
  BY DEF TypeOK
<1>2. S # {}
  BY DEF Committed
<1>3. PICK m \in S : \A n \in S : n <= m
  BY <1>1, <1>2, Greatest
<1>4. /\ m \in 1 .. Len(log) /\ log[m].type = "COMMIT" /\ log[m].txn = t
      /\ \A j \in m + 1 .. Len(log) : log[j].type = "COMMIT" => log[j].txn # t
  BY <1>1, <1>3
<1>5. /\ CommitRecord(t) \in 1 .. Len(log) /\ log[CommitRecord(t)].type = "COMMIT"
  BY <1>4 DEF CommitRecord
<1>6. log[CommitRecord(t)] \in Records
  BY <1>5 DEF TypeOK
<1> QED
  BY <1>5, <1>6 DEF RecordsSound, Records, MaybeTs

\* What the second pass leaves: nothing for a RID it has no record for, and else
\* the begin and the end of committed transactions with logged timestamps.
LEMMA RecoveredParts ==
  ASSUME TypeOK, RecordsSound, NEW r \in Rids
  PROVE  LET m == RecoveredMeta(r)
             i == Replayed("INSERT", r)
             d == Replayed("DELETE", r)
             Logged(t, ts) == /\ t \in TxnIds /\ ts \in TxnIds
                              /\ \E k \in 1 .. Len(log) : log[k].ts = ts
         IN  /\ i \cup d = {} => m = NoMeta
             /\ i \cup d # {} =>
                  /\ m \in Metas
                  /\ IF i = {} THEN m.bTxn = Invalid /\ m.bTs = Invalid ELSE Logged(m.bTxn, m.bTs)
                  /\ IF d = {} THEN m.eTxn = Invalid /\ m.eTs = Invalid ELSE Logged(m.eTxn, m.eTs)
<1> DEFINE last(type) == IF Replayed(type, r) = {} THEN Invalid
                         ELSE log[LastOf(Replayed(type, r))].txn
           ts(t) == IF t = Invalid THEN Invalid ELSE log[CommitRecord(t)].ts
           Logged(t, n) == /\ t \in TxnIds /\ n \in TxnIds
                           /\ \E k \in 1 .. Len(log) : log[k].ts = n
<1>1. Invalid \notin TxnIds
  BY DEF Invalid, TxnIds
<1>2. ASSUME NEW type, Replayed(type, r) # {}
      PROVE  Logged(last(type), ts(last(type)))
  <2>1. Replayed(type, r) \in SUBSET (1 .. Len(log))
    BY DEF Replayed
  <2>2. LastOf(Replayed(type, r)) \in Replayed(type, r)
    BY <1>2, <2>1, LastIsIn
  <2>3. last(type) \in Committed
    BY <1>2, <2>2 DEF Replayed
  <2> HIDE DEF last
  <2>4. last(type) \in TxnIds
    BY <2>3, CommittedTyped
  <2>5. ts(last(type)) = log[CommitRecord(last(type))].ts
    BY <1>1, <2>4
  <2> QED
    BY <2>3, <2>4, <2>5, CommitRecordIsIn
<1>3. ASSUME NEW type, Replayed(type, r) = {}
      PROVE  last(type) = Invalid /\ ts(last(type)) = Invalid
  BY <1>3
<1>4. RecoveredMeta(r) = IF Replayed("INSERT", r) \cup Replayed("DELETE", r) = {} THEN NoMeta
                         ELSE [bTxn |-> last("INSERT"), bTs |-> ts(last("INSERT")),
                               eTxn |-> last("DELETE"), eTs |-> ts(last("DELETE"))]
  BY DEF RecoveredMeta
<1> HIDE DEF last, ts
<1>5. /\ Replayed("INSERT", r) # {} => Logged(last("INSERT"), ts(last("INSERT")))
      /\ Replayed("DELETE", r) # {} => Logged(last("DELETE"), ts(last("DELETE")))
  BY <1>2
<1>6. /\ Replayed("INSERT", r) = {} => last("INSERT") = Invalid /\ ts(last("INSERT")) = Invalid
      /\ Replayed("DELETE", r) = {} => last("DELETE") = Invalid /\ ts(last("DELETE")) = Invalid
  BY <1>3
<1> QED
  BY <1>4, <1>5, <1>6 DEF Metas, MaybeTxn, MaybeTs

LEMMA RecoverKeeps ==
  ASSUME TypeOK, RecordsSound, Recover
  PROVE  MvccInv'
<1>1. /\ ~up /\ up' = up /\ store' = [r \in Rids |-> RecoveredMeta(r)]
      /\ nextTxn' = MaxOf({log[i].txn : i \in 1 .. Len(log)}, 0) + 1
      /\ lastCommitTs' = MaxOf({log[i].ts : i \in 1 .. Len(log)}, 0)
      /\ nextCommitTs' = lastCommitTs' + 1
      /\ pc' = [s \in Sessions |-> "recovered"]
      /\ UNCHANGED <<readTs, commitTs, state, sets, walVars, rowCount, current, explicit, stmt,
                     target, todo, up>>
  BY DEF Recover
<1>2. log' \in Seq(Records) /\ flushed' \in 0 .. Len(log') /\ LogGrows /\ RecordsSound'
  BY <1>1, LogStays
<1>3. \A i \in 1 .. Len(log) : log[i].txn \in 1 .. MaxTxns /\ log[i].ts \in -1 .. MaxTxns
  BY RecordTypes
<1>4. /\ nextTxn' \in 1 .. MaxTxns + 1 /\ lastCommitTs' \in 0 .. MaxTxns
      /\ nextCommitTs' \in 1 .. MaxTxns + 1
      /\ \A i \in 1 .. Len(log) : log[i].txn < nextTxn' /\ log[i].ts <= lastCommitTs'
  <2> DEFINE T == {log[i].txn : i \in 1 .. Len(log)}
             S == {log[i].ts : i \in 1 .. Len(log)}
  <2>1. /\ \A n \in T : n \in -1 .. MaxTxns
        /\ \A n \in S : n \in -1 .. MaxTxns
    BY <1>3, MvccAssumption
  <2>2. \A i \in 1 .. Len(log) : log[i].txn \in T /\ log[i].ts \in S
    OBVIOUS
  <2>3. nextTxn' = MaxOf(T, 0) + 1 /\ lastCommitTs' = MaxOf(S, 0)
    BY <1>1
  <2> HIDE DEF T, S
  <2>4. /\ MaxOf(T, 0) \in 0 .. MaxTxns /\ \A n \in T : n <= MaxOf(T, 0)
        /\ MaxOf(S, 0) \in 0 .. MaxTxns /\ \A n \in S : n <= MaxOf(S, 0)
    BY <2>1, MaxIsGreatest, MvccAssumption
  <2>5. /\ nextTxn' \in 1 .. MaxTxns + 1 /\ lastCommitTs' \in 0 .. MaxTxns
        /\ nextCommitTs' \in 1 .. MaxTxns + 1
    BY <1>1, <2>3, <2>4, MvccAssumption
  <2>6. ASSUME NEW i \in 1 .. Len(log)
        PROVE  log[i].txn < nextTxn' /\ log[i].ts <= lastCommitTs'
    <3>1. log[i].txn <= MaxOf(T, 0) /\ log[i].ts <= MaxOf(S, 0)
      BY <2>2, <2>4
    <3>2. log[i].txn \in Int /\ MaxOf(T, 0) \in Int
      BY <1>3, <2>4, MvccAssumption
    <3> QED
      BY <2>3, <3>1, <3>2
  <2> QED
    BY <2>5, <2>6
<1>5. \A r \in Rids : RecoveredMeta(r) \in Metas \cup {NoMeta}
  BY RecoveredParts
<1>6. TypeOK'
  <2>1. store' \in [Rids -> Metas \cup {NoMeta}] /\ pc' \in [Sessions -> Stages]
    BY <1>1, <1>5 DEF Stages
  <2> QED
    BY <1>1, <1>2, <1>4, <2>1 DEF TypeOK, sets
<1>7. log' = log
  BY <1>1 DEF walVars
<1>8. \A r \in Rids : RecoveredMeta(r)' = RecoveredMeta(r)
  BY <1>7 DEF RecoveredMeta, Replayed, Committed, CommitRecord, LastOf
<1>9. Stopped' /\ Replay'
  <2>1. Stopped'
    BY <1>1 DEF Stopped
  <2>2. store' = [r \in Rids |-> RecoveredMeta(r)']
    BY <1>1, <1>8
  <2>3. \A i \in 1 .. Len(log') : log'[i].txn < nextTxn' /\ log'[i].ts <= lastCommitTs'
    BY <1>4, <1>7
  <2> QED
    BY <2>1, <2>2, <2>3 DEF Replay
<1> QED
  BY <1>1, <1>2, <1>6, <1>9 DEF MvccInv

-----------------------------------------------------------------------------
\* The rows loaded before the sessions start.

LoadedRecord(t0, k) ==
  LET i == (k + 2) \div 3
  IN  <<Record("BEGIN", i, NoRow, Invalid), Record("INSERT", i, <<t0, i - 1>>, Invalid),
        Record("COMMIT", i, NoRow, i)>>[((k - 1) % 3) + 1]

LEMMA InitLog ==
  ASSUME Init
  PROVE  /\ log \in Seq(Records) /\ Len(log) = 3 * Preloaded /\ RecordsSound
         /\ \A ts \in 1 .. Preloaded : LoggedBy(ts, Len(log))
<1>1. Preloaded \in Nat /\ Preloaded <= MaxTxns /\ Preloaded <= MaxRows /\ MaxTxns \in Nat /\ MaxRows \in Nat
  BY MvccAssumption
<1>2. PICK t0 \in Tables : log = [k \in 1 .. 3 * Preloaded |-> LoadedRecord(t0, k)]
  BY MvccAssumption DEF Init, LoadedRecord
<1>3. ASSUME NEW k \in 1 .. 3 * Preloaded
      PROVE  /\ LoadedRecord(t0, k) \in Records
             /\ LoadedRecord(t0, k).type \in {"INSERT", "DELETE"} => LoadedRecord(t0, k).row # NoRow
             /\ LoadedRecord(t0, k).type = "COMMIT" => LoadedRecord(t0, k).ts # Invalid
  <2>1. PICK i : i = (k + 2) \div 3 /\ i \in 1 .. Preloaded
    BY <1>1
  <2>2. PICK j \in {1, 2, 3} : j = ((k - 1) % 3) + 1
    BY <1>1
  <2>3. i \in TxnIds /\ i \in MaybeTs /\ Invalid \in MaybeTs /\ i # Invalid /\ <<t0, i - 1>> \in Rows
    BY <1>1, <2>1 DEF TxnIds, MaybeTs, Invalid, Rows, Rids
  <2>4. LoadedRecord(t0, k) = <<Record("BEGIN", i, NoRow, Invalid),
                                Record("INSERT", i, <<t0, i - 1>>, Invalid),
                                Record("COMMIT", i, NoRow, i)>>[j]
    BY <2>1, <2>2 DEF LoadedRecord
  <2>5. LoadedRecord(t0, k) \in {Record("BEGIN", i, NoRow, Invalid),
                                 Record("INSERT", i, <<t0, i - 1>>, Invalid),
                                 Record("COMMIT", i, NoRow, i)}
    BY <2>4
  <2> QED
    BY <2>3, <2>5, Sentinels DEF Record, Records
<1>4. log \in Seq(Records) /\ Len(log) = 3 * Preloaded
  BY <1>1, <1>2, <1>3
<1>5. RecordsSound
  BY <1>2, <1>3, <1>4 DEF RecordsSound
<1>6. ASSUME NEW ts \in 1 .. Preloaded PROVE LoggedBy(ts, Len(log))
  <2>1. /\ 3 * ts \in 1 .. 3 * Preloaded /\ (3 * ts + 2) \div 3 = ts
        /\ ((3 * ts - 1) % 3) + 1 = 3
    BY <1>1
  <2>2. log[3 * ts] = Record("COMMIT", ts, NoRow, ts)
    BY <1>2, <2>1 DEF LoadedRecord
  <2>3. 3 * ts \in 1 .. Len(log)
    BY <1>4, <2>1
  <2>4. log[3 * ts].type = "COMMIT" /\ log[3 * ts].ts = ts
    BY <2>2 DEF Record
  <2> QED
    BY <2>3, <2>4 DEF LoggedBy
<1> QED
  BY <1>4, <1>5, <1>6

LEMMA InitStore ==
  ASSUME Init, NEW r \in Rids
  PROVE  /\ store[r] \in Metas \cup {NoMeta}
         /\ store[r] # NoMeta => store[r].bTs \in 1 .. Preloaded /\ store[r].eTs = Invalid
<1>1. CASE r < Preloaded
  <2>1. store[r] = [bTxn |-> r + 1, bTs |-> r + 1, eTxn |-> Invalid, eTs |-> Invalid]
    BY <1>1 DEF Init, FreshMeta
  <2>2. r + 1 \in 1 .. Preloaded /\ r + 1 \in TxnIds
    BY <1>1, MvccAssumption DEF Rids, TxnIds
  <2> QED
    BY <2>1, <2>2 DEF Metas, MaybeTxn, MaybeTs
<1>2. CASE ~(r < Preloaded)
  BY <1>2 DEF Init
<1> QED
  BY <1>1, <1>2

LEMMA InitInv == Init => MvccInv
<1> SUFFICES ASSUME Init PROVE MvccInv
  OBVIOUS
<1>1. Preloaded \in Nat /\ Preloaded <= MaxTxns /\ Preloaded <= MaxRows /\ MaxTxns \in Nat /\ MaxRows \in Nat
  BY MvccAssumption
<1>2. PICK t0 \in Tables :
        /\ inserts = [t \in TxnIds |-> IF t \in 1 .. Preloaded THEN <<<<t0, t - 1>>>> ELSE <<>>]
        /\ rowCount = [t \in Tables |-> IF t = t0 THEN Preloaded ELSE 0]
  BY MvccAssumption DEF Init
<1>3. /\ nextTxn = Preloaded + 1 /\ nextCommitTs = Preloaded + 1 /\ lastCommitTs = Preloaded
      /\ readTs = [t \in TxnIds |-> IF t \in 1 .. Preloaded THEN t - 1 ELSE 0]
      /\ commitTs = [t \in TxnIds |-> IF t \in 1 .. Preloaded THEN t ELSE Invalid]
      /\ state = [t \in TxnIds |-> IF t \in 1 .. Preloaded THEN "committed" ELSE "none"]
      /\ deletes = [t \in TxnIds |-> <<>>] /\ flushed = 3 * Preloaded
  BY DEF Init
<1>4. /\ current = [s \in Sessions |-> NoTxn] /\ explicit = [s \in Sessions |-> FALSE]
      /\ pc = [s \in Sessions |-> "idle"] /\ stmt = [s \in Sessions |-> NoStmt]
      /\ target = [s \in Sessions |-> NoRow] /\ up = TRUE
      /\ todo = [s \in Sessions |-> [ins |-> <<>>, del |-> <<>>]]
  BY DEF Init
<1>5. \A t \in 1 .. Preloaded : t \in TxnIds /\ <<t0, t - 1>> \in Rows /\ t - 1 \in 0 .. MaxTxns
  BY <1>1 DEF TxnIds, Rows, Rids
<1>6. TypeOK
  <2>1. nextTxn \in 1 .. MaxTxns + 1 /\ nextCommitTs \in 1 .. MaxTxns + 1 /\ lastCommitTs \in 0 .. MaxTxns
    BY <1>1, <1>3
  <2>2. readTs \in [TxnIds -> 0 .. MaxTxns] /\ commitTs \in [TxnIds -> MaybeTs]
        /\ state \in [TxnIds -> {"none", "running", "committed", "aborted"}]
    BY <1>1, <1>3, <1>5 DEF MaybeTs
  <2>3. <<>> \in Seq(Rows)
    OBVIOUS
  <2>4. \A t \in 1 .. Preloaded : <<<<t0, t - 1>>>> \in Seq(Rows)
    BY <1>5
  <2>5. inserts \in [TxnIds -> Seq(Rows)] /\ deletes \in [TxnIds -> Seq(Rows)]
        /\ todo \in [Sessions -> [ins : Seq(Rows), del : Seq(Rows)]]
    BY <1>2, <1>3, <1>4, <2>3, <2>4
  <2>6. store \in [Rids -> Metas \cup {NoMeta}]
    <3>1. DOMAIN store = Rids /\ store = [r \in Rids |-> store[r]]
      BY DEF Init
    <3> QED
      BY <3>1, InitStore
  <2>7. rowCount \in [Tables -> 0 .. MaxRows]
    BY <1>1, <1>2
  <2>8. log \in Seq(Records) /\ flushed \in 0 .. Len(log)
    BY <1>1, <1>3, InitLog
  <2>9. /\ current \in [Sessions -> TxnIds \cup {NoTxn}] /\ explicit \in [Sessions -> BOOLEAN]
        /\ pc \in [Sessions -> Stages] /\ target \in [Sessions -> Rows \cup {NoRow}]
        /\ stmt \in [Sessions -> Stmts \cup {NoStmt}] /\ up \in BOOLEAN
    BY <1>4 DEF Stages
  <2> QED
    BY <2>1, <2>2, <2>5, <2>6, <2>7, <2>8, <2>9 DEF TypeOK
<1>7. Apart /\ Engaged /\ Underway /\ InStatement /\ OnTarget /\ CommitLogged
  BY <1>4 DEF Apart, Engaged, Underway, InStatement, OnTarget, CommitLogged, Running, Stages,
              Writing, OnARow
<1>8. Unused /\ Stamped /\ Past /\ Published
  BY <1>1, <1>2, <1>3 DEF Unused, Stamped, Past, Published, TxnIds
<1>9. Counted
  <2>1. CommittedTxns = 1 .. Preloaded
    BY <1>3, <1>5 DEF CommittedTxns
  <2>2. Cardinality(1 .. Preloaded) = Preloaded
    BY <1>1, FS_Interval
  <2> QED
    BY <1>1, <1>3, <2>1, <2>2 DEF Counted
<1>10. StoreLogged
  <2> SUFFICES ASSUME NEW r \in Rids, NEW ts \in TxnIds, store[r] # NoMeta,
                      store[r].bTs = ts \/ store[r].eTs = ts
               PROVE  LoggedBy(ts, flushed)
    BY DEF StoreLogged
  <2>1. ts \in 1 .. Preloaded
    BY InitStore DEF TxnIds, Invalid
  <2> QED
    BY <1>3, <2>1, InitLog
<1> QED
  BY <1>4, <1>6, <1>7, <1>8, <1>9, <1>10, InitLog DEF MvccInv, RunParts

-----------------------------------------------------------------------------
\* The invariant is inductive.

LEMMA StutterKeeps == ASSUME MvccInv, UNCHANGED vars PROVE MvccInv'
<1>1. UNCHANGED <<nextTxn, nextCommitTs, lastCommitTs, readTs, commitTs, state, inserts, deletes,
                  store, log, flushed, rowCount, current, explicit, pc, stmt, target, todo, up>>
  BY DEF vars, txnVars, sets, walVars, sessionVars
<1>2. TypeOK' /\ RecordsSound'
  BY <1>1 DEF MvccInv, TypeOK, RecordsSound
<1>3. up => RunParts'
  <2>1. CommittedTxns' = CommittedTxns
    BY <1>1 DEF CommittedTxns
  <2> QED
    BY <1>1, <2>1 DEF MvccInv, RunParts, Apart, Engaged, Underway, InStatement, OnTarget, Unused,
       Stamped, Counted, Past, Published, CommitLogged, StoreLogged, LoggedBy
<1>4. ~up => Stopped' /\ Replay'
  <2>1. \A r \in Rids : RecoveredMeta(r)' = RecoveredMeta(r)
    BY <1>1 DEF RecoveredMeta, Replayed, Committed, CommitRecord, LastOf
  <2>2. [r \in Rids |-> RecoveredMeta(r)]' = [r \in Rids |-> RecoveredMeta(r)]
    BY <2>1
  <2> QED
    BY <1>1, <2>2 DEF MvccInv, Stopped, Replay, Recovered
<1> QED
  BY <1>1, <1>2, <1>3, <1>4 DEF MvccInv

LEMMA CommandKeeps ==
  ASSUME MvccInv, NEW s \in Sessions, Command(s)
  PROVE  MvccInv'
<1>1. up
  BY DEF Command, Begin, Commit, Rollback, Start, At
<1>2. TypeOK /\ RecordsSound /\ RunParts
  BY <1>1 DEF MvccInv
<1>3. CASE Begin(s)
  BY <1>2, <1>3, BeginKeeps
<1>4. CASE Commit(s)
  BY <1>1, <1>2, <1>4, CommitQuiet, QuietIsEnough
<1>5. CASE Rollback(s)
  BY <1>1, <1>2, <1>5, RollbackQuiet, QuietIsEnough
<1>6. CASE \E kind \in Kinds, t \in Tables : Start(s, kind, t)
  BY <1>2, <1>6, StartKeeps
<1> QED
  BY <1>3, <1>4, <1>5, <1>6 DEF Command

LEMMA StepKeeps ==
  ASSUME MvccInv, NEW s \in Sessions, Step(s)
  PROVE  MvccInv'
<1>1. up
  BY DEF Step, Fail, EndScan, Scan, WritePage, LogInsert, RegisterInsert, FlushInsert, OpenScan,
         LogDelete, RegisterDelete, Stamp, Publish, LogCommit, FlushCommit, Backfill, EndCommit,
         FlushAbort, Undo, EndAbort, At
<1>2. TypeOK /\ RecordsSound /\ RunParts
  BY <1>1 DEF MvccInv
<1>3. ASSUME Quiet(s) PROVE MvccInv'
  BY <1>1, <1>2, <1>3, QuietIsEnough
<1>4. CASE Fail(s)
  BY <1>2, <1>3, <1>4, FailQuiet
<1>5. CASE EndScan(s)
  BY <1>2, <1>3, <1>5, EndScanQuiet
<1>6. CASE \E x \in Rows : Scan(s, x)
  BY <1>2, <1>3, <1>6, ScanQuiet
<1>7. CASE WritePage(s)
  BY <1>2, <1>3, <1>7, WritePageQuiet
<1>8. CASE LogInsert(s)
  BY <1>2, <1>3, <1>8, LogInsertQuiet
<1>9. CASE RegisterInsert(s)
  BY <1>2, <1>3, <1>9, RegisterInsertQuiet
<1>10. CASE FlushInsert(s)
  BY <1>2, <1>3, <1>10, FlushInsertQuiet
<1>11. CASE OpenScan(s)
  BY <1>2, <1>3, <1>11, OpenScanQuiet
<1>12. CASE LogDelete(s)
  BY <1>2, <1>3, <1>12, LogDeleteQuiet
<1>13. CASE RegisterDelete(s)
  BY <1>2, <1>3, <1>13, RegisterDeleteQuiet
<1>14. CASE Stamp(s)
  BY <1>2, <1>14, StampKeeps
<1>15. CASE Publish(s)
  BY <1>2, <1>15, PublishKeeps
<1>16. CASE LogCommit(s)
  BY <1>2, <1>16, LogCommitKeeps
<1>17. CASE FlushCommit(s)
  BY <1>2, <1>17, FlushCommitKeeps
<1>18. CASE Backfill(s)
  BY <1>2, <1>18, BackfillKeeps
<1>19. CASE EndCommit(s)
  BY <1>2, <1>19, EndCommitKeeps
<1>20. CASE FlushAbort(s)
  BY <1>2, <1>3, <1>20, FlushAbortQuiet
<1>21. CASE Undo(s)
  BY <1>2, <1>3, <1>21, UndoQuiet
<1>22. CASE EndAbort(s)
  BY <1>2, <1>22, EndAbortKeeps
<1> QED
  BY <1>4, <1>5, <1>6, <1>7, <1>8, <1>9, <1>10, <1>11, <1>12, <1>13, <1>14, <1>15, <1>16, <1>17,
     <1>18, <1>19, <1>20, <1>21, <1>22 DEF Step

\* The invariant the theorems below rest on: what each stage of a command implies
\* of the transaction, the counters and the log, and what a recovery leaves.
THEOREM MvccInvariant == Spec => []MvccInv
<1>1. Init => MvccInv
  BY InitInv
<1>2. MvccInv /\ [Next]_vars => MvccInv'
  <2> SUFFICES ASSUME MvccInv, [Next]_vars PROVE MvccInv'
    OBVIOUS
  <2>1. CASE \E s \in Sessions : Command(s) \/ Step(s)
    BY <2>1, CommandKeeps, StepKeeps
  <2>2. CASE Crash
    BY <2>2, CrashKeeps DEF MvccInv
  <2>3. CASE Recover
    BY <2>3, RecoverKeeps DEF MvccInv
  <2>4. CASE Rest \/ UNCHANGED vars
    BY <2>4, StutterKeeps DEF Rest
  <2> QED
    BY <2>1, <2>2, <2>3, <2>4 DEF Next
<1> QED
  BY <1>1, <1>2, PTL DEF Spec

-----------------------------------------------------------------------------
\* What it implies.

\* Every variable keeps its type; that timestamps stay within the number of
\* transactions says that Commit draws one for each transaction at most once.
THEOREM MvccTypes == Spec => []TypeOK
<1>1. MvccInv => TypeOK
  BY DEF MvccInv
<1> QED
  BY <1>1, MvccInvariant, PTL

\* A transaction that begins has in its snapshot all that was committed before
\* (the compare-exchange loop of TransactionManager::Commit).
THEOREM SnapshotsAreLatest == Spec => []LatestSnapshot
<1>1. MvccInv => LatestSnapshot
  BY DEF MvccInv, RunParts, Published, LatestSnapshot, Finished, Ending
<1> QED
  BY <1>1, MvccInvariant, PTL

\* No timestamp reaches the version store before its COMMIT record is on disk
\* (Session::FinalizeCommit).
THEOREM StampsAreLogged == Spec => []CommittedIsLogged
<1>1. ASSUME MvccInv PROVE CommittedIsLogged
  <2> SUFFICES ASSUME up, NEW r \in Rids, store[r] # NoMeta,
                      NEW ts \in {store[r].bTs, store[r].eTs} \ {Invalid}
               PROVE  \E i \in 1 .. flushed : log[i].type = "COMMIT" /\ log[i].ts = ts
    BY DEF CommittedIsLogged
  <2>1. store[r] \in Metas
    BY <1>1 DEF MvccInv, TypeOK
  <2>2. ts \in TxnIds
    BY <2>1 DEF Metas, MaybeTs
  <2> QED
    BY <1>1, <2>2 DEF MvccInv, RunParts, StoreLogged, LoggedBy
<1> QED
  BY <1>1, MvccInvariant, PTL

\* RIDs identify rows: with a second table they do not (the run mvcc_tables).
OneTable == \A t1, t2 \in Tables : t1 = t2

\* Whatever prefix of the unflushed records a crash leaves, the first transaction
\* after RecoveryManager::Recover sees a row that was committed unless its delete
\* was.
THEOREM RecoveryIsExact == ASSUME OneTable PROVE Spec => []RecoveryExact
<1>1. ASSUME MvccInv PROVE RecoveryExact
  <2> SUFFICES ASSUME Recovered, NEW x \in OnPages, Writers("INSERT", x) \cap Committed # {}
               PROVE  FirstSees(x) <=> Writers("DELETE", x) \cap Committed = {}
    BY DEF RecoveryExact
  <2>1. ~up
    BY <1>1, MvccAssumption DEF MvccInv, RunParts, Engaged, Running, Recovered
  <2>2. TypeOK /\ RecordsSound /\ store = [r \in Rids |-> RecoveredMeta(r)]
    BY <1>1, <2>1 DEF MvccInv, Replay
  <2>3. PICK r \in Rids : r = x[2] /\ x \in Rows
    BY DEF OnPages, Rows
  <2> DEFINE m == RecoveredMeta(r)
             ins == Replayed("INSERT", r)
             del == Replayed("DELETE", r)
  <2>4. \A type \in {"INSERT", "DELETE"}, i \in 1 .. Len(log) :
          log[i].type = type /\ log[i].row[2] = r => log[i].row = x
    <3> SUFFICES ASSUME NEW i \in 1 .. Len(log), log[i].type \in {"INSERT", "DELETE"},
                        log[i].row[2] = r
                 PROVE  log[i].row = x
      OBVIOUS
    <3>1. log[i] \in Records /\ log[i].row # NoRow
      BY <2>2, RecordTypes DEF RecordsSound
    <3>2. log[i].row \in Rows
      BY <3>1 DEF Records
    <3> QED
      BY <2>3, <3>2 DEF OneTable, Rows
  <2>5. ins # {} /\ (del = {} <=> Writers("DELETE", x) \cap Committed = {})
    BY <2>3, <2>4 DEF Replayed, Writers
  <2>6. /\ store[r] = m /\ m \in Metas
        /\ m.bTxn \in TxnIds /\ m.bTs \in TxnIds /\ m.bTs <= lastCommitTs
        /\ IF del = {} THEN m.eTxn = Invalid
           ELSE m.eTxn \in TxnIds /\ m.eTs \in TxnIds /\ m.eTs <= lastCommitTs
    <3>1. \A k \in 1 .. Len(log) : log[k].ts <= lastCommitTs
      BY <1>1, <2>1 DEF MvccInv, Replay
    <3> QED
      BY <2>2, <2>5, <3>1, RecoveredParts
  <2>7. m # NoMeta /\ Invalid \notin TxnIds
    BY <2>6, Sentinels DEF Invalid, TxnIds
  <2> HIDE DEF m, ins, del
  <2>8. FirstSees(x) <=> ~EndEffective(m, nextTxn, lastCommitTs)
    BY <2>3, <2>6, <2>7 DEF FirstSees, IsVisible, BeginVisible
  <2>9. EndEffective(m, nextTxn, lastCommitTs) <=> del # {}
    BY <2>6, <2>7 DEF EndEffective
  <2> QED
    BY <2>5, <2>8, <2>9
<1> QED
  BY <1>1, MvccInvariant, PTL
=============================================================================
