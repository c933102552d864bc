------------------------- MODULE MvccSnapshotProofs -------------------------
(***************************************************************************)
(* SnapshotExact, for every number of sessions, transactions and rows of   *)
(* one table.                                                              *)
(***************************************************************************)
EXTENDS MvccProofs

-----------------------------------------------------------------------------
\* The inductive invariant, beside MvccInv.

\* A row is on its page before anyone can name it.
OnPage(x) == x[2] < rowCount[x[1]]
Placed == /\ \A t \in TxnIds, x \in Rows : Has(inserts[t], x) \/ Has(deletes[t], x) => OnPage(x)
          /\ \A s \in Sessions : target[s] # NoRow => OnPage(target[s])

\* A new row, until it is registered, has one session, which has not deleted it.
Registering == {"logInsert", "regInsert"}
NewRows == \A s \in Sessions : pc[s] \in Registering =>
             /\ \A t \in TxnIds : ~Has(inserts[t], target[s])
             /\ ~Has(deletes[current[s]], target[s])
             /\ \A u \in Sessions : pc[u] \in Registering /\ target[u] = target[s] => u = s

\* A row has one inserter.
OneInserter == \A x \in Rows : \A t1, t2 \in Inserted(x) : t1 = t2

\* What is left to finish are the transaction's own writes.
Finishing == {"backfill", "undo"}
OwnWrites == \A s \in Sessions : pc[s] \in Finishing => \A x \in Rows :
               /\ Has(todo[s].ins, x) => Has(inserts[current[s]], x)
               /\ Has(todo[s].del, x) => Has(deletes[current[s]], x)

\* A session undoes transaction t; one that commits it has not come to row x yet.
Undoing(t) == \E s \in Sessions : current[s] = t /\ pc[s] = "undo"
InsertPending(t, x) == \E s \in Sessions : /\ current[s] = t /\ pc[s] \in Committing
                                           /\ pc[s] = "backfill" => Has(todo[s].ins, x)
DeletePending(t, x) == \E s \in Sessions : /\ current[s] = t /\ pc[s] \in Committing
                                           /\ pc[s] = "backfill" => Has(todo[s].del, x)

\* The version store knows the registered rows.
KnownOf(x) == store[x[2]] # NoMeta <=> Inserted(x) # {}

\* The begin of a row's metadata follows its inserter ...
BeginOf(x) == \A t \in Inserted(x) :
  LET m == store[x[2]]
  IN  /\ m.bTxn = t \/ (m.bTxn = Invalid /\ state[t] # "committed")
      /\ state[t] = "running" /\ ~Undoing(t) => m.bTxn = t
      /\ m.bTs # Invalid => state[t] = "committed" /\ m.bTs = commitTs[t]
      /\ state[t] = "committed" /\ m.bTs = Invalid => InsertPending(t, x)

\* ... and the end its deleter, if there is only one and it was entitled.
Sound(x) == ~Contested(x) /\ \A t \in Deleters(x) : Entitled(t, x)
EndOf(x) == Inserted(x) # {} /\ Sound(x) =>
  LET m == store[x[2]]
  IN  /\ Deleters(x) = {} => m.eTxn = Invalid
      /\ \A t \in Deleters(x) :
           /\ m.eTxn = t \/ (m.eTxn = Invalid /\ state[t] # "committed")
           /\ state[t] = "running" /\ ~Undoing(t) => m.eTxn = t
           /\ m.eTs # Invalid => state[t] = "committed" /\ m.eTs = commitTs[t]
           /\ state[t] = "committed" /\ m.eTs = Invalid => DeletePending(t, x)

Shape == Placed /\ NewRows /\ OneInserter /\ OwnWrites
Follows(x) == KnownOf(x) /\ BeginOf(x) /\ EndOf(x)
SnapParts == Shape /\ \A x \in Rows : Follows(x)
SnapInv == up => SnapParts

-----------------------------------------------------------------------------
\* Rows and lists.

LEMMA RowFacts ==
  ASSUME NEW x \in Rows
  PROVE  /\ x[1] \in Tables /\ x[2] \in Rids /\ x[2] \in Nat /\ x = <<x[1], x[2]>>
         /\ OneTable => \A y \in Rows : y # x => y[2] # x[2]
BY MvccAssumption DEF Rows, Rids, OneTable

LEMMA HasAppended ==
  ASSUME NEW seq \in Seq(Rows), NEW x \in Rows, NEW y
  PROVE  Has(Append(seq, x), y) <=> Has(seq, y) \/ y = x
<1> DEFINE q == Append(seq, x)
<1>1. /\ Len(seq) \in Nat /\ Len(q) = Len(seq) + 1 /\ q[Len(seq) + 1] = x
      /\ \A i \in 1 .. Len(seq) : q[i] = seq[i]
  OBVIOUS
<1> HIDE DEF q
<1>2. ASSUME Has(q, y) PROVE Has(seq, y) \/ y = x
  <2>1. PICK i \in 1 .. Len(q) : q[i] = y
    BY <1>2 DEF Has
  <2>2. i \in 1 .. Len(seq) \/ i = Len(seq) + 1
    BY <1>1
  <2> QED
    BY <1>1, <2>1, <2>2 DEF Has
<1>3. ASSUME Has(seq, y) PROVE Has(q, y)
  <2>1. PICK i \in 1 .. Len(seq) : seq[i] = y
    BY <1>3 DEF Has
  <2>2. i \in 1 .. Len(q) /\ q[i] = y
    BY <1>1, <2>1
  <2> QED
    BY <2>2 DEF Has
<1>4. ASSUME y = x PROVE Has(q, y)
  <2>1. Len(seq) + 1 \in 1 .. Len(q) /\ q[Len(seq) + 1] = y
    BY <1>1, <1>4
  <2> QED
    BY <2>1 DEF Has
<1> QED
  BY <1>2, <1>3, <1>4 DEF q

LEMMA HasTail ==
  ASSUME NEW seq \in Seq(Rows), seq # <<>>, NEW y
  PROVE  /\ Has(seq, Head(seq))
         /\ Has(seq, y) => y = Head(seq) \/ Has(Tail(seq), y)
         /\ Has(Tail(seq), y) => Has(seq, y)
<1> DEFINE q == Tail(seq)
<1>1. /\ Len(seq) \in Nat /\ Len(seq) >= 1 /\ Len(q) = Len(seq) - 1 /\ Head(seq) = seq[1]
      /\ \A i \in 1 .. Len(q) : q[i] = seq[i + 1]
  OBVIOUS
<1> HIDE DEF q
<1>2. Has(seq, Head(seq))
  <2>1. 1 \in 1 .. Len(seq)
    BY <1>1
  <2> QED
    BY <1>1, <2>1 DEF Has
<1>3. ASSUME Has(seq, y), y # Head(seq) PROVE Has(q, y)
  <2>1. PICK i \in 1 .. Len(seq) : seq[i] = y
    BY <1>3 DEF Has
  <2>2. i - 1 \in 1 .. Len(q) /\ (i - 1) + 1 = i
    BY <1>1, <1>3, <2>1
  <2>3. q[i - 1] = y
    BY <1>1, <2>1, <2>2
  <2> QED
    BY <2>2, <2>3 DEF Has
<1>4. ASSUME Has(q, y) PROVE Has(seq, y)
  <2>1. PICK i \in 1 .. Len(q) : q[i] = y
    BY <1>4 DEF Has
  <2>2. i + 1 \in 1 .. Len(seq) /\ seq[i + 1] = y
    BY <1>1, <2>1
  <2> QED
    BY <2>2 DEF Has
<1> QED
  BY <1>2, <1>3, <1>4 DEF q

LEMMA HasNothing == \A y : ~Has(<<>>, y)
<1>1. Len(<<>>) = 0
  OBVIOUS
<1> QED
  BY <1>1 DEF Has

\* A registered row has metadata.
LEMMA KnownMeta ==
  ASSUME TypeOK, NEW x \in Rows, KnownOf(x), Inserted(x) # {}
  PROVE  store[x[2]] \in Metas /\ store[x[2]] # NoMeta
BY RowFacts DEF TypeOK, KnownOf

-----------------------------------------------------------------------------
\* What a step leaves alone.

OthersRest(s) == \A u \in Sessions : u # s =>
                   /\ pc'[u] = pc[u] /\ current'[u] = current[u]
                   /\ target'[u] = target[u] /\ todo'[u] = todo[u]

\* Steps that write nothing keep the shape.
LEMMA ShapeKept ==
  ASSUME TypeOK, TypeOK', Shape, NEW s \in Sessions, OthersRest(s), sets' = sets,
         \A t \in Tables : rowCount[t] <= rowCount'[t],
         target'[s] \in {target[s], NoRow},
         pc'[s] \in Registering => /\ pc[s] \in Registering /\ target'[s] = target[s]
                                   /\ current'[s] = current[s],
         pc'[s] \in Finishing => \A x \in Rows :
             /\ Has(todo'[s].ins, x) => Has(inserts[current'[s]], x)
             /\ Has(todo'[s].del, x) => Has(deletes[current'[s]], x)
  PROVE  Shape'
<1>1. inserts' = inserts /\ deletes' = deletes
  BY DEF sets
<1>2. ASSUME NEW x \in Rows, OnPage(x) PROVE x[2] < rowCount'[x[1]]
  <2>1. x[1] \in Tables /\ x[2] \in Nat
    BY RowFacts
  <2>2. rowCount[x[1]] \in 0 .. MaxRows /\ rowCount'[x[1]] \in 0 .. MaxRows /\ MaxRows \in Nat
    BY <2>1, MvccAssumption DEF TypeOK
  <2> QED
    BY <1>2, <2>1, <2>2 DEF OnPage
<1>3. Placed'
  <2>1. \A t \in TxnIds, x \in Rows : Has(inserts'[t], x) \/ Has(deletes'[t], x) => x[2] < rowCount'[x[1]]
    BY <1>1, <1>2 DEF Shape, Placed
  <2>2. \A u \in Sessions : target'[u] # NoRow => target'[u] = target[u] /\ target[u] \in Rows
    BY DEF OthersRest, TypeOK
  <2>3. \A u \in Sessions : target'[u] # NoRow => target'[u][2] < rowCount'[target'[u][1]]
    BY <1>2, <2>2 DEF Shape, Placed
  <2> QED
    BY <2>1, <2>3 DEF Placed, OnPage
<1>4. NewRows'
  <2>1. \A u \in Sessions : pc'[u] \in Registering =>
          pc[u] \in Registering /\ target'[u] = target[u] /\ current'[u] = current[u]
    BY DEF OthersRest
  <2> QED
    BY <1>1, <2>1 DEF Shape, NewRows
<1>5. OneInserter'
  BY <1>1 DEF Shape, OneInserter, Inserted
<1>6. OwnWrites'
  <2> SUFFICES ASSUME NEW u \in Sessions, pc'[u] \in Finishing, NEW x \in Rows
               PROVE  /\ Has(todo'[u].ins, x) => Has(inserts'[current'[u]], x)
                      /\ Has(todo'[u].del, x) => Has(deletes'[current'[u]], x)
    BY DEF OwnWrites
  <2>1. CASE u = s
    BY <1>1, <2>1
  <2>2. CASE u # s
    BY <1>1, <2>2 DEF OthersRest, Shape, OwnWrites
  <2> QED
    BY <2>1, <2>2
<1> QED
  BY <1>3, <1>4, <1>5, <1>6 DEF Shape

\* A row keeps following its inserter, and its deleter, while nothing is done to
\* them or to what the metadata says of them.
LEMMA BeginKept ==
  ASSUME NEW x \in Rows, BeginOf(x), Inserted(x)' = Inserted(x),
         store'[x[2]].bTxn = store[x[2]].bTxn, store'[x[2]].bTs = store[x[2]].bTs,
         \A t \in Inserted(x) : /\ state'[t] = state[t] /\ commitTs'[t] = commitTs[t]
                                /\ Undoing(t) => Undoing(t)'
                                /\ InsertPending(t, x) => InsertPending(t, x)'
  PROVE  BeginOf(x)'
BY DEF BeginOf

LEMMA SoundKept ==
  ASSUME NEW x \in Rows, Inserted(x)' = Inserted(x), Deleters(x)' = Deleters(x),
         \A t \in Inserted(x) : commitTs'[t] = commitTs[t],
         \A t \in Deleters(x) : readTs'[t] = readTs[t]
  PROVE  Sound(x)' => Sound(x)
BY DEF Sound, Contested, Entitled

LEMMA EndKept ==
  ASSUME NEW x \in Rows, EndOf(x), Inserted(x)' = Inserted(x), Deleters(x)' = Deleters(x),
         Sound(x)' => Sound(x),
         store'[x[2]].eTxn = store[x[2]].eTxn, store'[x[2]].eTs = store[x[2]].eTs,
         \A t \in Deleters(x) : /\ state'[t] = state[t] /\ commitTs'[t] = commitTs[t]
                                /\ Undoing(t) => Undoing(t)'
                                /\ DeletePending(t, x) => DeletePending(t, x)'
  PROVE  EndOf(x)'
BY DEF EndOf

\* So a row nothing is done to follows its writers.
LEMMA RowKept ==
  ASSUME NEW x \in Rows, Follows(x), store'[x[2]] = store[x[2]],
         \A t \in TxnIds : Has(inserts'[t], x) <=> Has(inserts[t], x),
         \A t \in TxnIds : Has(deletes'[t], x) <=> Has(deletes[t], x),
         \A t \in Inserted(x) \cup Deleters(x) :
           state'[t] = state[t] /\ commitTs'[t] = commitTs[t] /\ readTs'[t] = readTs[t],
         \A t \in TxnIds : Undoing(t) => Undoing(t)',
         \A t \in Inserted(x) : InsertPending(t, x) => InsertPending(t, x)',
         \A t \in Deleters(x) : DeletePending(t, x) => DeletePending(t, x)'
  PROVE  Follows(x)'
<1>1. Inserted(x)' = Inserted(x) /\ Deleters(x)' = Deleters(x)
  BY DEF Inserted, Deleters
<1>2. Inserted(x) \subseteq TxnIds /\ Deleters(x) \subseteq TxnIds
  BY DEF Inserted, Deleters
<1>3. KnownOf(x)'
  BY <1>1 DEF Follows, KnownOf
<1>4. BeginOf(x)'
  BY <1>1, <1>2, BeginKept DEF Follows
<1>5. Sound(x)' => Sound(x)
  BY <1>1, SoundKept
<1>6. EndOf(x)'
  BY <1>1, <1>2, <1>5, EndKept DEF Follows
<1> QED
  BY <1>3, <1>4, <1>6 DEF Follows

\* Steps within a stage, as the writes still to finish see them.
LEMMA StagesKept ==
  ASSUME NEW s \in Sessions, OthersRest(s), current'[s] = current[s],
         pc[s] = "undo" => pc'[s] = "undo",
         pc[s] \in Committing => pc'[s] \in Committing
  PROVE  /\ \A t \in TxnIds : Undoing(t) => Undoing(t)'
         /\ \A x \in Rows, t \in TxnIds :
              (pc[s] \in Committing /\ current[s] = t /\ pc'[s] = "backfill"
               /\ (pc[s] = "backfill" => Has(todo[s].ins, x)) => Has(todo'[s].ins, x))
              => (InsertPending(t, x) => InsertPending(t, x)')
         /\ \A x \in Rows, t \in TxnIds :
              (pc[s] \in Committing /\ current[s] = t /\ pc'[s] = "backfill"
               /\ (pc[s] = "backfill" => Has(todo[s].del, x)) => Has(todo'[s].del, x))
              => (DeletePending(t, x) => DeletePending(t, x)')
<1>1. \A t \in TxnIds : Undoing(t) => Undoing(t)'
  BY DEF Undoing, OthersRest
<1>2. ASSUME NEW x \in Rows, NEW t \in TxnIds, InsertPending(t, x),
             pc[s] \in Committing /\ current[s] = t /\ pc'[s] = "backfill"
             /\ (pc[s] = "backfill" => Has(todo[s].ins, x)) => Has(todo'[s].ins, x)
      PROVE  InsertPending(t, x)'
  <2>1. PICK u \in Sessions : current[u] = t /\ pc[u] \in Committing
                              /\ (pc[u] = "backfill" => Has(todo[u].ins, x))
    BY <1>2 DEF InsertPending
  <2>2. current'[u] = t /\ pc'[u] \in Committing /\ (pc'[u] = "backfill" => Has(todo'[u].ins, x))
    <3>1. CASE u = s
      BY <1>2, <2>1, <3>1
    <3>2. CASE u # s
      BY <2>1, <3>2 DEF OthersRest
    <3> QED
      BY <3>1, <3>2
  <2> QED
    BY <2>2 DEF InsertPending
<1>3. ASSUME NEW x \in Rows, NEW t \in TxnIds, DeletePending(t, x),
             pc[s] \in Committing /\ current[s] = t /\ pc'[s] = "backfill"
             /\ (pc[s] = "backfill" => Has(todo[s].del, x)) => Has(todo'[s].del, x)
      PROVE  DeletePending(t, x)'
  <2>1. PICK u \in Sessions : current[u] = t /\ pc[u] \in Committing
                              /\ (pc[u] = "backfill" => Has(todo[u].del, x))
    BY <1>3 DEF DeletePending
  <2>2. current'[u] = t /\ pc'[u] \in Committing /\ (pc'[u] = "backfill" => Has(todo'[u].del, x))
    <3>1. CASE u = s
      BY <1>3, <2>1, <3>1
    <3>2. CASE u # s
      BY <2>1, <3>2 DEF OthersRest
    <3> QED
      BY <3>1, <3>2
  <2> QED
    BY <2>2 DEF DeletePending
<1> QED
  BY <1>1, <1>2, <1>3

-----------------------------------------------------------------------------
\* Steps that write nothing.

\* Session s goes on within its stage, and who begins to finish lists its writes.
Calm(s) ==
  /\ OthersRest(s) /\ UNCHANGED <<sets, store, state, commitTs, readTs, current>>
  /\ pc[s] = "undo" => pc'[s] = "undo"
  /\ pc[s] # "backfill"
  /\ pc[s] \in Committing => pc'[s] \in Committing
  /\ pc'[s] \in Finishing => todo'[s] = Writes(s)

LEMMA CalmRows ==
  ASSUME SnapParts, NEW s \in Sessions, Calm(s)
  PROVE  \A x \in Rows : Follows(x)'
<1> SUFFICES ASSUME NEW x \in Rows PROVE Follows(x)'
  OBVIOUS
<1>1. /\ OthersRest(s) /\ current'[s] = current[s] /\ inserts' = inserts /\ deletes' = deletes
      /\ pc[s] = "undo" => pc'[s] = "undo"
      /\ pc[s] \in Committing => pc'[s] \in Committing
      /\ pc'[s] = "backfill" => todo'[s] = Writes(s)
  BY DEF Calm, sets, Finishing
<1>2. \A t \in TxnIds : Undoing(t) => Undoing(t)'
  BY <1>1, StagesKept
<1>3. \A t \in Inserted(x) : InsertPending(t, x) => InsertPending(t, x)'
  BY <1>1, StagesKept DEF Writes, Txn, Inserted
<1>4. \A t \in Deleters(x) : DeletePending(t, x) => DeletePending(t, x)'
  BY <1>1, StagesKept DEF Writes, Txn, Deleters
<1> QED
  BY <1>1, <1>2, <1>3, <1>4, RowKept DEF Calm, SnapParts

LEMMA CalmKeeps ==
  ASSUME TypeOK, TypeOK', SnapParts, NEW s \in Sessions, Calm(s), rowCount' = rowCount,
         target'[s] \in {target[s], NoRow},
         pc'[s] \in Registering => pc[s] \in Registering /\ target'[s] = target[s]
  PROVE  SnapParts'
<1>1. \A t \in Tables : rowCount[t] <= rowCount'[t]
  <2>1. \A t \in Tables : rowCount[t] \in Nat
    BY MvccAssumption DEF TypeOK
  <2> QED
    BY <2>1
<1>2. pc'[s] \in Finishing => \A x \in Rows :
             /\ Has(todo'[s].ins, x) => Has(inserts[current'[s]], x)
             /\ Has(todo'[s].del, x) => Has(deletes[current'[s]], x)
  BY DEF Calm, Writes, Txn
<1>3. Shape'
  BY <1>1, <1>2, ShapeKept DEF Calm, SnapParts
<1> QED
  BY <1>3, CalmRows DEF SnapParts

\* The steps of a command of which this is all.
LEMMA CalmSteps ==
  ASSUME TypeOK, TypeOK', SnapParts, NEW s \in Sessions,
         \/ Fail(s) \/ LogInsert(s) \/ FlushInsert(s) \/ OpenScan(s) \/ LogDelete(s) \/ EndScan(s)
         \/ Commit(s) \/ Rollback(s) \/ FlushAbort(s)
         \/ Publish(s) \/ LogCommit(s) \/ FlushCommit(s)
  PROVE  SnapParts'
<1> USE DEF OthersRest, txnVars, sets, walVars, Goto, At, Registering, Finishing, Committing
<1>1. CASE Fail(s)
  <2>1. Calm(s)
    BY <1>1 DEF Fail, Calm, TypeOK
  <2> QED
    BY <1>1, <2>1, CalmKeeps DEF Fail, TypeOK
<1>2. CASE LogInsert(s)
  <2>1. Calm(s)
    BY <1>2 DEF LogInsert, Calm, TypeOK
  <2> QED
    BY <1>2, <2>1, CalmKeeps DEF LogInsert, TypeOK
<1>3. CASE FlushInsert(s)
  <2>1. Calm(s)
    BY <1>3 DEF FlushInsert, Finish, Calm, TypeOK
  <2> QED
    BY <1>3, <2>1, CalmKeeps DEF FlushInsert, Finish, TypeOK
<1>4. CASE OpenScan(s)
  <2>1. Calm(s)
    BY <1>4 DEF OpenScan, Calm, TypeOK
  <2> QED
    BY <1>4, <2>1, CalmKeeps DEF OpenScan, TypeOK
<1>5. CASE LogDelete(s)
  <2>1. Calm(s)
    BY <1>5 DEF LogDelete, Calm, TypeOK
  <2> QED
    BY <1>5, <2>1, CalmKeeps DEF LogDelete, TypeOK
<1>6. CASE EndScan(s)
  <2>1. Calm(s)
    BY <1>6 DEF EndScan, Finish, Calm, TypeOK
  <2>2. pc'[s] \in {"stamp", "idle", "flushInsert"} /\ target'[s] \in {target[s], NoRow}
    BY <1>6 DEF EndScan, Finish, TypeOK
  <2>3. rowCount' = rowCount
    BY <1>6 DEF EndScan
  <2> QED
    BY <2>1, <2>2, <2>3, CalmKeeps
<1>7. CASE Commit(s)
  <2>1. Calm(s)
    BY <1>7 DEF Commit, Calm, TypeOK
  <2> QED
    BY <1>7, <2>1, CalmKeeps DEF Commit, TypeOK
<1>8. CASE Rollback(s)
  <2>1. Calm(s)
    BY <1>8 DEF Rollback, Calm, TypeOK
  <2> QED
    BY <1>8, <2>1, CalmKeeps DEF Rollback, TypeOK
<1>9. CASE FlushAbort(s)
  <2>1. Calm(s)
    BY <1>9 DEF FlushAbort, Calm, TypeOK
  <2> QED
    BY <1>9, <2>1, CalmKeeps DEF FlushAbort, TypeOK
<1>10. CASE Publish(s)
  <2>1. Calm(s)
    BY <1>10 DEF Publish, Calm, TypeOK
  <2> QED
    BY <1>10, <2>1, CalmKeeps DEF Publish, TypeOK
<1>11. CASE LogCommit(s)
  <2>1. Calm(s)
    BY <1>11 DEF LogCommit, Calm, TypeOK
  <2> QED
    BY <1>11, <2>1, CalmKeeps DEF LogCommit, TypeOK
<1>12. CASE FlushCommit(s)
  <2>1. Calm(s)
    BY <1>12 DEF FlushCommit, Calm, TypeOK
  <2> QED
    BY <1>12, <2>1, CalmKeeps DEF FlushCommit, TypeOK
<1> QED
  BY <1>1, <1>2, <1>3, <1>4, <1>5, <1>6, <1>7, <1>8, <1>9, <1>10, <1>11, <1>12

-----------------------------------------------------------------------------
\* Steps that name a row.

LEMMA WritePageSnap ==
  ASSUME TypeOK, TypeOK', RunParts, SnapParts, NEW s \in Sessions, WritePage(s)
  PROVE  SnapParts'
<1>1. /\ pc[s] = "page" /\ pc' = [pc EXCEPT ![s] = "logInsert"]
      /\ UNCHANGED <<txnVars, sets, store, current, todo>>
  BY DEF WritePage, At, Goto
<1>2. stmt[s] \in Stmts
  BY <1>1, WorksOn DEF Writing
<1>3. PICK t \in Tables : t = stmt[s].table
  BY <1>2 DEF Stmts
<1>4. PICK x : x = <<t, rowCount[t]>>
  OBVIOUS
<1>5. /\ rowCount[t] < MaxRows /\ rowCount' = [rowCount EXCEPT ![t] = @ + 1]
      /\ target' = [target EXCEPT ![s] = x]
  BY <1>3, <1>4 DEF WritePage
<1>6. MaxRows \in Nat /\ \A u \in Tables : rowCount[u] \in 0 .. MaxRows
  BY MvccAssumption DEF TypeOK
<1>7. x \in Rows /\ x[1] = t /\ x[2] = rowCount[t] /\ ~OnPage(x)
  <2>1. rowCount[t] \in 0 .. MaxRows - 1
    BY <1>5, <1>6
  <2> QED
    BY <1>4, <2>1 DEF Rows, Rids, OnPage
<1>8. \A u \in Tables : rowCount'[u] = IF u = t THEN rowCount[t] + 1 ELSE rowCount[u]
  BY <1>5 DEF TypeOK
<1>9. Calm(s)
  BY <1>1, <1>5 DEF Calm, OthersRest, txnVars, Committing, Finishing, TypeOK
<1>10. inserts' = inserts /\ deletes' = deletes
  BY <1>1 DEF sets
<1>11. Placed'
  <2>1. ASSUME NEW y \in Rows, OnPage(y) PROVE y[2] < rowCount'[y[1]]
    <3>1. y[1] \in Tables /\ y[2] \in Nat
      BY RowFacts
    <3>2. rowCount[y[1]] \in 0 .. MaxRows
      BY <1>6, <3>1
    <3> QED
      BY <1>8, <2>1, <3>1, <3>2 DEF OnPage
  <2>2. x[2] < rowCount'[x[1]]
    BY <1>6, <1>7, <1>8
  <2>3. \A v \in TxnIds, y \in Rows : Has(inserts'[v], y) \/ Has(deletes'[v], y) => y[2] < rowCount'[y[1]]
    BY <1>10, <2>1 DEF SnapParts, Shape, Placed
  <2>4. \A u \in Sessions : target'[u] = IF u = s THEN x ELSE target[u]
    BY <1>5 DEF TypeOK
  <2>5. \A u \in Sessions : target'[u] # NoRow => target'[u][2] < rowCount'[target'[u][1]]
    BY <2>1, <2>2, <2>4 DEF SnapParts, Shape, Placed, TypeOK
  <2> QED
    BY <2>3, <2>5 DEF Placed, OnPage
<1>12. NewRows'
  <2>1. \A u \in Sessions : /\ pc'[u] = IF u = s THEN "logInsert" ELSE pc[u]
                            /\ target'[u] = IF u = s THEN x ELSE target[u]
    BY <1>1, <1>5 DEF TypeOK
  <2>2. \A u \in Sessions : pc[u] \in Registering => target[u] # x
    BY <1>7 DEF RunParts, OnTarget, OnARow, Registering, SnapParts, Shape, Placed
  <2>3. \A v \in TxnIds : ~Has(inserts[v], x) /\ ~Has(deletes[v], x)
    BY <1>7 DEF SnapParts, Shape, Placed
  <2>4. current' = current /\ current[s] \in TxnIds
    BY <1>1, WorksOn
  <2> SUFFICES ASSUME NEW u \in Sessions, pc'[u] \in Registering
               PROVE  /\ \A v \in TxnIds : ~Has(inserts'[v], target'[u])
                      /\ ~Has(deletes'[current'[u]], target'[u])
                      /\ \A w \in Sessions : pc'[w] \in Registering /\ target'[w] = target'[u] => w = u
    BY DEF NewRows
  <2>5. CASE u = s
    BY <1>10, <2>1, <2>2, <2>3, <2>4, <2>5
  <2>6. CASE u # s
    BY <1>10, <2>1, <2>2, <2>4, <2>6 DEF SnapParts, Shape, NewRows
  <2> QED
    BY <2>5, <2>6
<1>13. OneInserter'
  BY <1>10 DEF SnapParts, Shape, OneInserter, Inserted
<1>14. OwnWrites'
  BY <1>1, <1>10 DEF SnapParts, Shape, OwnWrites, Finishing, TypeOK
<1>15. Shape'
  BY <1>11, <1>12, <1>13, <1>14 DEF Shape
<1> QED
  BY <1>9, <1>15, CalmRows DEF SnapParts

LEMMA ScanSnap ==
  ASSUME TypeOK, SnapParts, NEW s \in Sessions, NEW x \in Rows, Scan(s, x)
  PROVE  SnapParts'
<1>1. /\ pc[s] = "scan" /\ pc' = [pc EXCEPT ![s] = "logDelete"]
      /\ UNCHANGED <<txnVars, sets, store, current, todo, rowCount>>
      /\ target' = [target EXCEPT ![s] = x] /\ OnPage(x)
  BY DEF Scan, At, Goto, Sees, OnPage
<1>2. inserts' = inserts /\ deletes' = deletes
  BY <1>1 DEF sets
<1>3. Calm(s)
  BY <1>1 DEF Calm, OthersRest, txnVars, Committing, Finishing, TypeOK
<1>4. Placed'
  BY <1>1, <1>2 DEF SnapParts, Shape, Placed, OnPage, TypeOK
<1>5. NewRows'
  <2>1. \A u \in Sessions : pc'[u] \in Registering =>
          u # s /\ pc[u] \in Registering /\ target'[u] = target[u]
    BY <1>1 DEF TypeOK, Registering
  <2> QED
    BY <1>1, <1>2, <2>1 DEF SnapParts, Shape, NewRows
<1>6. OneInserter' /\ OwnWrites'
  BY <1>1, <1>2 DEF SnapParts, Shape, OneInserter, Inserted, OwnWrites, Finishing, TypeOK
<1> QED
  BY <1>3, <1>4, <1>5, <1>6, CalmRows DEF SnapParts, Shape

-----------------------------------------------------------------------------
\* Steps that register a write.

\* Of the other sessions nobody has this one's transaction, and as far as this one
\* neither commits nor undoes nothing it was to finish is forgotten.
LEMMA SameStage ==
  ASSUME NEW s \in Sessions, OthersRest(s), current'[s] = current[s],
         pc[s] \notin Committing \cup {"undo"}
  PROVE  /\ \A t \in TxnIds : Undoing(t) => Undoing(t)'
         /\ \A x \in Rows, t \in TxnIds : /\ InsertPending(t, x) => InsertPending(t, x)'
                                          /\ DeletePending(t, x) => DeletePending(t, x)'
BY StagesKept

LEMMA RegisterInsertSnap ==
  ASSUME OneTable, TypeOK, RunParts, SnapParts, NEW s \in Sessions, RegisterInsert(s)
  PROVE  SnapParts'
<1>1. /\ pc[s] = "regInsert"
      /\ current[s] \in TxnIds /\ current[s] # NoTxn /\ target[s] \in Rows /\ target[s] # NoRow
  BY WorksOn, Sentinels DEF RegisterInsert, At, OnARow
<1>2. PICK c \in TxnIds, x \in Rows : c = current[s] /\ x = target[s] /\ c # NoTxn /\ x # NoRow
  BY <1>1
<1>3. /\ pc[s] = "regInsert" /\ pc' = [pc EXCEPT ![s] = "flushInsert"]
      /\ UNCHANGED <<txnVars, deletes, current, todo, rowCount, target>>
      /\ store' = [store EXCEPT ![x[2]] = FreshMeta(c)]
      /\ inserts' = [inserts EXCEPT ![c] = Append(@, x)]
  BY <1>2 DEF RegisterInsert, At, Goto, OnInsert, Txn
<1>4. x[2] \in Rids /\ \A y \in Rows : y # x => y[2] # x[2]
  BY <1>1, RowFacts
<1>5. ASSUME NEW t \in TxnIds, NEW y
      PROVE  Has(inserts'[t], y) <=> Has(inserts[t], y) \/ (t = c /\ y = x)
  <2>1. CASE t = c
    <3>1. inserts[c] \in Seq(Rows) /\ inserts'[c] = Append(inserts[c], x)
      BY <1>1, <1>3 DEF TypeOK
    <3> QED
      BY <1>1, <2>1, <3>1, HasAppended
  <2>2. CASE t # c
    BY <1>3, <2>2 DEF TypeOK
  <2> QED
    BY <2>1, <2>2
<1>6. /\ \A t \in TxnIds : ~Has(inserts[t], x)
      /\ ~Has(deletes[c], x)
      /\ \A u \in Sessions : pc[u] \in Registering /\ target[u] = x => u = s
  BY <1>2, <1>3 DEF SnapParts, Shape, NewRows, Registering
<1>7. OthersRest(s) /\ current'[s] = current[s] /\ pc[s] \notin Committing \cup {"undo"}
  BY <1>3 DEF OthersRest, TypeOK, Committing
<1>8. Placed'
  <2>1. OnPage(x)
    BY <1>1, <1>2 DEF SnapParts, Shape, Placed
  <2> QED
    BY <1>3, <1>5, <2>1 DEF SnapParts, Shape, Placed, OnPage
<1>9. NewRows'
  <2>1. \A u \in Sessions : pc'[u] \in Registering => u # s /\ pc[u] \in Registering
    BY <1>3 DEF TypeOK, Registering
  <2> SUFFICES ASSUME NEW u \in Sessions, pc'[u] \in Registering
               PROVE  /\ \A v \in TxnIds : ~Has(inserts'[v], target'[u])
                      /\ ~Has(deletes'[current'[u]], target'[u])
                      /\ \A w \in Sessions : pc'[w] \in Registering /\ target'[w] = target'[u] => w = u
    BY DEF NewRows
  <2>2. u # s /\ pc[u] \in Registering /\ target[u] # x /\ target' = target
    BY <1>3, <1>6, <2>1
  <2> QED
    BY <1>3, <1>5, <2>1, <2>2 DEF SnapParts, Shape, NewRows
<1>10. OneInserter'
  <2> SUFFICES ASSUME NEW y \in Rows, NEW t1 \in TxnIds, NEW t2 \in TxnIds,
                      Has(inserts'[t1], y), Has(inserts'[t2], y)
               PROVE  t1 = t2
    BY DEF OneInserter, Inserted
  <2> QED
    BY <1>5, <1>6 DEF SnapParts, Shape, OneInserter, Inserted
<1>11. OwnWrites'
  <2> SUFFICES ASSUME NEW u \in Sessions, pc'[u] \in Finishing, NEW y \in Rows
               PROVE  /\ Has(todo'[u].ins, y) => Has(inserts'[current'[u]], y)
                      /\ Has(todo'[u].del, y) => Has(deletes'[current'[u]], y)
    BY DEF OwnWrites
  <2>1. u # s /\ pc[u] \in Finishing /\ current' = current /\ todo' = todo /\ deletes' = deletes
    BY <1>3 DEF TypeOK, Finishing
  <2>2. current[u] \in TxnIds
    BY <2>1, WorksOn DEF Finishing
  <2> QED
    BY <1>5, <2>1, <2>2 DEF SnapParts, Shape, OwnWrites
<1>12. ASSUME NEW y \in Rows, y # x PROVE Follows(y)'
  <2>1. store'[y[2]] = store[y[2]]
    BY <1>3, <1>4, <1>12
  <2>2. \A t \in TxnIds : Has(inserts'[t], y) <=> Has(inserts[t], y)
    BY <1>5, <1>12
  <2>3. \A t \in Inserted(y) : InsertPending(t, y) => InsertPending(t, y)'
    BY <1>7, SameStage DEF Inserted
  <2>4. \A t \in Deleters(y) : DeletePending(t, y) => DeletePending(t, y)'
    BY <1>7, SameStage DEF Deleters
  <2>5. \A t \in TxnIds : Undoing(t) => Undoing(t)'
    BY <1>7, SameStage
  <2> QED
    BY <1>3, <2>1, <2>2, <2>3, <2>4, <2>5, RowKept DEF txnVars, SnapParts
<1>13. Follows(x)'
  <2>1. Inserted(x)' = {c}
    BY <1>1, <1>5, <1>6 DEF Inserted
  <2>2. store'[x[2]] = FreshMeta(c) /\ FreshMeta(c) # NoMeta
    <3>1. FreshMeta(c) \in Metas
      BY <1>1 DEF FreshMeta, Metas, MaybeTxn, MaybeTs
    <3> QED
      BY <1>3, <1>4, <3>1, Sentinels DEF TypeOK
  <2>3. state'[c] = "running" /\ commitTs'[c] = Invalid
    BY <1>1, <1>2, <1>3, <1>7 DEF RunParts, Underway, Stamped, txnVars
  <2>4. KnownOf(x)'
    BY <1>3, <2>1, <2>2 DEF KnownOf
  <2>5. BeginOf(x)'
    BY <1>3, <2>1, <2>2, <2>3 DEF BeginOf, FreshMeta
  <2>6. Sound(x)' => Deleters(x)' = {}
    <3>1. \A t \in Deleters(x)' : t # c
      BY <1>3, <1>6 DEF Deleters
    <3> QED
      BY <2>1, <2>3, <3>1 DEF Sound, Entitled
  <2>7. EndOf(x)'
    BY <1>3, <2>2, <2>6 DEF EndOf, FreshMeta
  <2> QED
    BY <2>4, <2>5, <2>7 DEF Follows
<1> QED
  BY <1>8, <1>9, <1>10, <1>11, <1>12, <1>13 DEF SnapParts, Shape

LEMMA RegisterDeleteSnap ==
  ASSUME OneTable, TypeOK, TypeOK', RunParts, SnapParts, NEW s \in Sessions, RegisterDelete(s)
  PROVE  SnapParts'
<1>1. /\ pc[s] = "regDelete"
      /\ current[s] \in TxnIds /\ current[s] # NoTxn /\ target[s] \in Rows /\ target[s] # NoRow
  BY WorksOn, Sentinels DEF RegisterDelete, At, OnARow
<1>2. PICK c \in TxnIds, x \in Rows : c = current[s] /\ x = target[s] /\ c # NoTxn /\ x # NoRow
  BY <1>1
<1>m. PICK m : m = store[x[2]]
  OBVIOUS
<1>3. /\ pc[s] = "regDelete" /\ pc' = [pc EXCEPT ![s] = pc'[s]] /\ pc'[s] \in {"page", "scan"}
      /\ UNCHANGED <<txnVars, inserts, current, todo, rowCount, target>>
      /\ store' = IF m = NoMeta THEN store
                  ELSE [store EXCEPT ![x[2]] = [m EXCEPT !.eTxn = c, !.eTs = Invalid]]
      /\ deletes' = [deletes EXCEPT ![c] = Append(@, x)]
  BY <1>2, <1>m DEF RegisterDelete, At, Goto, OnDelete, IfKnown, Txn, TypeOK
<1>4. x[2] \in Rids /\ \A y \in Rows : y # x => y[2] # x[2]
  BY <1>1, RowFacts
<1>5. ASSUME NEW t \in TxnIds, NEW y
      PROVE  Has(deletes'[t], y) <=> Has(deletes[t], y) \/ (t = c /\ y = x)
  <2>1. CASE t = c
    <3>1. deletes[c] \in Seq(Rows) /\ deletes'[c] = Append(deletes[c], x)
      BY <1>1, <1>3 DEF TypeOK
    <3> QED
      BY <1>1, <2>1, <3>1, HasAppended
  <2>2. CASE t # c
    BY <1>3, <2>2 DEF TypeOK
  <2> QED
    BY <2>1, <2>2
<1>6. OthersRest(s) /\ current'[s] = current[s] /\ pc[s] \notin Committing \cup {"undo"}
  BY <1>3 DEF OthersRest, TypeOK, Committing
<1>7. Placed'
  <2>1. OnPage(x)
    BY <1>1, <1>2, <1>m DEF SnapParts, Shape, Placed
  <2> QED
    BY <1>3, <1>5, <2>1 DEF SnapParts, Shape, Placed, OnPage
<1>8. NewRows'
  <2>1. \A u \in Sessions : pc'[u] \in Registering => u # s /\ pc[u] \in Registering
    BY <1>3 DEF TypeOK, Registering
  <2> SUFFICES ASSUME NEW u \in Sessions, pc'[u] \in Registering
               PROVE  /\ \A v \in TxnIds : ~Has(inserts'[v], target'[u])
                      /\ ~Has(deletes'[current'[u]], target'[u])
                      /\ \A w \in Sessions : pc'[w] \in Registering /\ target'[w] = target'[u] => w = u
    BY DEF NewRows
  <2>2. u # s /\ pc[u] \in Registering /\ current[u] \in TxnIds /\ current[u] # c
    <3>1. u # s /\ pc[u] \in Registering
      BY <2>1
    <3>2. current[u] \in TxnIds /\ current[u] # NoTxn
      BY <3>1, WorksOn DEF Registering
    <3> QED
      BY <1>2, <1>m, <3>1, <3>2 DEF RunParts, Apart
  <2> QED
    BY <1>3, <1>5, <2>1, <2>2 DEF SnapParts, Shape, NewRows
<1>9. OneInserter'
  BY <1>3 DEF SnapParts, Shape, OneInserter, Inserted
<1>10. OwnWrites'
  <2> SUFFICES ASSUME NEW u \in Sessions, pc'[u] \in Finishing, NEW y \in Rows
               PROVE  /\ Has(todo'[u].ins, y) => Has(inserts'[current'[u]], y)
                      /\ Has(todo'[u].del, y) => Has(deletes'[current'[u]], y)
    BY DEF OwnWrites
  <2>1. u # s /\ pc[u] \in Finishing /\ current' = current /\ todo' = todo /\ inserts' = inserts
    BY <1>3 DEF TypeOK, Finishing
  <2>2. current[u] \in TxnIds
    BY <2>1, WorksOn DEF Finishing
  <2> QED
    BY <1>5, <2>1, <2>2 DEF SnapParts, Shape, OwnWrites
<1>11. /\ \A t \in TxnIds : Undoing(t) => Undoing(t)'
       /\ \A y \in Rows : \A t \in Inserted(y) : InsertPending(t, y) => InsertPending(t, y)'
       /\ \A y \in Rows : \A t \in Deleters(y) : DeletePending(t, y) => DeletePending(t, y)'
  BY <1>6, SameStage DEF Inserted, Deleters
<1>12. ASSUME NEW y \in Rows, y # x PROVE Follows(y)'
  <2>1. store'[y[2]] = store[y[2]]
    BY <1>3, <1>4, <1>12
  <2>2. \A t \in TxnIds : Has(deletes'[t], y) <=> Has(deletes[t], y)
    BY <1>5, <1>12
  <2>3. /\ Follows(y)
        /\ \A t \in TxnIds : Has(inserts'[t], y) <=> Has(inserts[t], y)
        /\ \A t \in Inserted(y) \cup Deleters(y) :
             state'[t] = state[t] /\ commitTs'[t] = commitTs[t] /\ readTs'[t] = readTs[t]
    BY <1>3 DEF txnVars, SnapParts
  <2>4. /\ \A t \in Inserted(y) : InsertPending(t, y) => InsertPending(t, y)'
        /\ \A t \in Deleters(y) : DeletePending(t, y) => DeletePending(t, y)'
        /\ \A t \in TxnIds : Undoing(t) => Undoing(t)'
    BY <1>11
  <2> QED
    BY <2>1, <2>2, <2>3, <2>4, RowKept
<1>13. Follows(x)'
  <2>1. Inserted(x)' = Inserted(x)
    BY <1>3 DEF Inserted
  <2>2. m # NoMeta => /\ m \in Metas
                      /\ store'[x[2]] = [m EXCEPT !.eTxn = c, !.eTs = Invalid]
                      /\ store'[x[2]] # NoMeta
    <3>1. m \in Metas \cup {NoMeta} /\ store'[x[2]] \in Metas \cup {NoMeta}
      BY <1>1, <1>2, <1>m, <1>4 DEF TypeOK
    <3>2. m # NoMeta => store'[x[2]] = [m EXCEPT !.eTxn = c, !.eTs = Invalid]
      BY <1>3, <1>4 DEF TypeOK
    <3>3. m \in Metas => [m EXCEPT !.eTxn = c, !.eTs = Invalid] \in Metas
      BY <1>1 DEF Metas, MaybeTxn, MaybeTs
    <3> QED
      BY <3>1, <3>2, <3>3, Sentinels
  <2>3. m = NoMeta => store'[x[2]] = NoMeta
    BY <1>2, <1>m, <1>3
  <2>4. state'[c] = "running"
    BY <1>1, <1>2, <1>m, <1>3, <1>6 DEF RunParts, Underway, txnVars
  <2>5. KnownOf(x) /\ BeginOf(x)
    BY <1>1 DEF SnapParts, Follows
  <2>6. KnownOf(x)'
    BY <1>2, <1>m, <1>3, <2>1, <2>2, <2>3, <2>5 DEF KnownOf
  <2>7. BeginOf(x)'
    <3>1. CASE m = NoMeta
      BY <1>2, <1>m, <2>1, <2>5, <3>1 DEF KnownOf, BeginOf
    <3>2. CASE m # NoMeta
      <4>1. store'[x[2]].bTxn = m.bTxn /\ store'[x[2]].bTs = m.bTs
        BY <2>2, <3>2 DEF Metas
      <4>2. Inserted(x) \subseteq TxnIds
        BY DEF Inserted
      <4> QED
        BY <1>1, <1>2, <1>m, <1>3, <1>11, <2>1, <2>5, <4>1, <4>2, BeginKept DEF txnVars
    <3> QED
      BY <3>1, <3>2
  <2>8. ASSUME Inserted(x)' # {}, Sound(x)'
        PROVE  Deleters(x)' = {c} /\ store'[x[2]].eTxn = c /\ store'[x[2]].eTs = Invalid
    <3>1. c \in Deleters(x)'
      BY <1>1, <1>5 DEF Deleters
    <3>2. Deleters(x)' = {c}
      BY <2>8, <3>1 DEF Sound, Contested
    <3>3. m # NoMeta
      BY <1>2, <1>m, <2>1, <2>5, <2>8 DEF KnownOf
    <3>4. store'[x[2]].eTxn = c /\ store'[x[2]].eTs = Invalid
      BY <2>2, <3>3 DEF Metas
    <3> QED
      BY <3>2, <3>4
  <2>9. EndOf(x)'
    BY <1>1, <1>3, <2>4, <2>8 DEF EndOf
  <2> QED
    BY <2>6, <2>7, <2>9 DEF Follows
<1> QED
  BY <1>7, <1>8, <1>9, <1>10, <1>12, <1>13 DEF SnapParts, Shape

-----------------------------------------------------------------------------
\* Steps that come to the next of a transaction's writes.

\* What they have in common: the metadata at the head of the list changes, and the
\* head comes off.
NextStep(s, ins, h) ==
  /\ pc[s] \in Finishing /\ h \in Rows
  /\ UNCHANGED <<txnVars, sets, rowCount, current, pc, target>>
  /\ todo' = [todo EXCEPT ![s] = todo'[s]]
  /\ \A y \in Rows : /\ Has(todo'[s].ins, y) => Has(todo[s].ins, y)
                     /\ Has(todo'[s].del, y) => Has(todo[s].del, y)
                     /\ Has(todo[s].ins, y) => Has(todo'[s].ins, y) \/ (ins /\ y = h)
                     /\ Has(todo[s].del, y) => Has(todo'[s].del, y) \/ (~ins /\ y = h)
  /\ \A r \in Rids : r # h[2] => store'[r] = store[r]

LEMMA ListSteps ==
  ASSUME TypeOK, NEW s \in Sessions
  PROVE  /\ NextInsert(s) =>
              /\ Head(todo[s].ins) \in Rows /\ Has(todo[s].ins, Head(todo[s].ins))
              /\ todo' = [todo EXCEPT ![s] = todo'[s]]
              /\ todo'[s].del = todo[s].del
              /\ \A y : /\ Has(todo'[s].ins, y) => Has(todo[s].ins, y)
                        /\ Has(todo[s].ins, y) => Has(todo'[s].ins, y) \/ y = Head(todo[s].ins)
         /\ NextDelete(s) =>
              /\ Head(todo[s].del) \in Rows /\ Has(todo[s].del, Head(todo[s].del))
              /\ todo' = [todo EXCEPT ![s] = todo'[s]]
              /\ todo'[s].ins = todo[s].ins
              /\ \A y : /\ Has(todo'[s].del, y) => Has(todo[s].del, y)
                        /\ Has(todo[s].del, y) => Has(todo'[s].del, y) \/ y = Head(todo[s].del)
<1>1. todo[s] \in [ins : Seq(Rows), del : Seq(Rows)] /\ todo[s].ins \in Seq(Rows) /\ todo[s].del \in Seq(Rows)
  BY DEF TypeOK
<1>2. ASSUME NextInsert(s)
      PROVE  /\ Head(todo[s].ins) \in Rows /\ Has(todo[s].ins, Head(todo[s].ins))
             /\ todo' = [todo EXCEPT ![s] = todo'[s]]
             /\ todo'[s].del = todo[s].del
             /\ \A y : /\ Has(todo'[s].ins, y) => Has(todo[s].ins, y)
                       /\ Has(todo[s].ins, y) => Has(todo'[s].ins, y) \/ y = Head(todo[s].ins)
  <2>1. /\ todo[s].ins # <<>> /\ todo' = [todo EXCEPT ![s] = todo'[s]]
        /\ todo'[s].del = todo[s].del /\ todo'[s].ins = Tail(todo[s].ins)
    BY <1>1, <1>2 DEF NextInsert, TypeOK
  <2>2. Head(todo[s].ins) \in Rows
    BY <1>1, <2>1
  <2> QED
    BY <1>1, <2>1, <2>2, HasTail
<1>3. ASSUME NextDelete(s)
      PROVE  /\ Head(todo[s].del) \in Rows /\ Has(todo[s].del, Head(todo[s].del))
             /\ todo' = [todo EXCEPT ![s] = todo'[s]]
             /\ todo'[s].ins = todo[s].ins
             /\ \A y : /\ Has(todo'[s].del, y) => Has(todo[s].del, y)
                       /\ Has(todo[s].del, y) => Has(todo'[s].del, y) \/ y = Head(todo[s].del)
  <2>1. /\ todo[s].del # <<>> /\ todo' = [todo EXCEPT ![s] = todo'[s]]
        /\ todo'[s].ins = todo[s].ins /\ todo'[s].del = Tail(todo[s].del)
    BY <1>1, <1>3 DEF NextDelete, TypeOK
  <2>2. Head(todo[s].del) \in Rows
    BY <1>1, <2>1
  <2> QED
    BY <1>1, <2>1, <2>2, HasTail
<1> QED
  BY <1>2, <1>3

\* All but the row at the head is as it was.
LEMMA NextKeeps ==
  ASSUME OneTable, TypeOK, TypeOK', SnapParts, NEW s \in Sessions, NEW ins \in BOOLEAN, NEW h,
         NextStep(s, ins, h)
  PROVE  /\ Shape'
         /\ \A y \in Rows : y # h => Follows(y)'
         /\ \A t \in TxnIds : Undoing(t) => Undoing(t)'
         /\ ~ins => \A t \in TxnIds : InsertPending(t, h) => InsertPending(t, h)'
         /\ ins => \A t \in TxnIds : DeletePending(t, h) => DeletePending(t, h)'
<1>1. /\ OthersRest(s) /\ current' = current /\ pc' = pc /\ target' = target /\ rowCount' = rowCount
      /\ inserts' = inserts /\ deletes' = deletes /\ h \in Rows
  BY DEF NextStep, OthersRest, TypeOK, sets
<1>2. Shape'
  <2>1. \A t \in Tables : rowCount[t] <= rowCount'[t]
    <3>1. \A t \in Tables : rowCount[t] \in Nat
      BY MvccAssumption DEF TypeOK
    <3> QED
      BY <1>1, <3>1
  <2>2. \A x \in Rows : /\ Has(todo'[s].ins, x) => Has(inserts[current'[s]], x)
                        /\ Has(todo'[s].del, x) => Has(deletes[current'[s]], x)
    BY <1>1 DEF NextStep, SnapParts, Shape, OwnWrites
  <2> QED
    BY <1>1, <2>1, <2>2, ShapeKept DEF SnapParts, sets
<1>3. \A t \in TxnIds : Undoing(t) => Undoing(t)'
  BY <1>1 DEF Undoing
<1>4. ASSUME NEW y \in Rows, NEW t \in TxnIds, ~ins \/ y # h, InsertPending(t, y)
      PROVE  InsertPending(t, y)'
  BY <1>1, <1>4, StagesKept DEF NextStep
<1>5. ASSUME NEW y \in Rows, NEW t \in TxnIds, ins \/ y # h, DeletePending(t, y)
      PROVE  DeletePending(t, y)'
  BY <1>1, <1>5, StagesKept DEF NextStep
<1>6. ASSUME NEW y \in Rows, y # h PROVE Follows(y)'
  <2>1. store'[y[2]] = store[y[2]]
    BY <1>1, <1>6, RowFacts DEF NextStep
  <2>2. /\ \A t \in Inserted(y) : InsertPending(t, y) => InsertPending(t, y)'
        /\ \A t \in Deleters(y) : DeletePending(t, y) => DeletePending(t, y)'
    BY <1>4, <1>5, <1>6 DEF Inserted, Deleters
  <2> QED
    BY <1>1, <1>3, <2>1, <2>2, RowKept DEF NextStep, txnVars, SnapParts
<1> QED
  BY <1>1, <1>2, <1>3, <1>4, <1>5, <1>6

\* The head is a write of the transaction, and its metadata may only be missing of
\* a row deleted before it was registered.
LEMMA NextWrite ==
  ASSUME TypeOK, RunParts, SnapParts, NEW s \in Sessions, pc[s] \in Finishing, NEW h \in Rows
  PROVE  /\ current[s] \in TxnIds
         /\ state[current[s]] = IF pc[s] = "undo" THEN "running" ELSE "committed"
         /\ pc[s] = "undo" => commitTs[current[s]] = Invalid /\ Undoing(current[s])
         /\ pc[s] = "backfill" => commitTs[current[s]] # Invalid
         /\ Has(todo[s].ins, h) => Inserted(h) = {current[s]}
         /\ Has(todo[s].del, h) => current[s] \in Deleters(h)
         /\ Inserted(h) # {} => store[h[2]] \in Metas /\ store[h[2]] # NoMeta
         /\ h[2] \in Rids
<1>1. current[s] \in TxnIds /\ current[s] # NoTxn
  BY WorksOn DEF Finishing
<1>2. state[current[s]] = IF pc[s] = "undo" THEN "running" ELSE "committed"
  BY <1>1 DEF RunParts, Underway, Finishing, Committing
<1>3. /\ pc[s] = "undo" => commitTs[current[s]] = Invalid /\ Undoing(current[s])
      /\ pc[s] = "backfill" => commitTs[current[s]] # Invalid
  <2>1. nextCommitTs \in Int
    BY MvccAssumption DEF TypeOK
  <2>2. pc[s] = "backfill" => commitTs[current[s]] \in 1 .. nextCommitTs - 1
    BY <1>1, <1>2 DEF RunParts, Stamped
  <2>3. pc[s] = "backfill" => commitTs[current[s]] # Invalid
    BY <2>1, <2>2 DEF Invalid
  <2>4. pc[s] = "undo" => commitTs[current[s]] = Invalid /\ Undoing(current[s])
    BY <1>1, <1>2 DEF RunParts, Stamped, Undoing
  <2> QED
    BY <2>3, <2>4
<1>4. /\ Has(todo[s].ins, h) => Inserted(h) = {current[s]}
      /\ Has(todo[s].del, h) => current[s] \in Deleters(h)
  BY <1>1 DEF SnapParts, Shape, OwnWrites, OneInserter, Inserted, Deleters
<1>5. Inserted(h) # {} => store[h[2]] \in Metas /\ store[h[2]] # NoMeta
  BY KnownMeta DEF SnapParts, Follows
<1> QED
  BY <1>1, <1>2, <1>3, <1>4, <1>5, RowFacts

LEMMA BackfillSnap ==
  ASSUME OneTable, TypeOK, TypeOK', RunParts, SnapParts, NEW s \in Sessions, Backfill(s)
  PROVE  SnapParts'
<1>1. pc[s] = "backfill" /\ UNCHANGED <<txnVars, sets, rowCount, current, pc, target>>
  BY DEF Backfill, At
<1>2. PICK c \in TxnIds : c = current[s]
  BY <1>1, WorksOn
<1>3. inserts' = inserts /\ deletes' = deletes /\ state' = state /\ commitTs' = commitTs
      /\ readTs' = readTs
  BY <1>1 DEF sets, txnVars
<1>4. \A y \in Rows : Inserted(y)' = Inserted(y) /\ Deleters(y)' = Deleters(y)
  BY <1>3 DEF Inserted, Deleters
<1>5. ASSUME NEW y \in Rows PROVE Sound(y)' => Sound(y)
  BY <1>3, <1>4, SoundKept
<1>6. CASE NextInsert(s) /\ CommitInsert(Head(todo[s].ins)[2], commitTs[Txn(s)])
  <2>1. PICK h \in Rows : h = Head(todo[s].ins) /\ Has(todo[s].ins, h)
    BY <1>6, ListSteps
  <2>2. /\ Inserted(h) = {c} /\ state[c] = "committed" /\ commitTs[c] # Invalid
        /\ store[h[2]] \in Metas /\ store[h[2]] # NoMeta /\ h[2] \in Rids
    BY <1>1, <1>2, <2>1, NextWrite DEF Finishing
  <2>3. store' = [store EXCEPT ![h[2]] = [store[h[2]] EXCEPT !.bTs = commitTs[c]]]
    BY <1>2, <1>6, <2>1, <2>2 DEF CommitInsert, IfKnown, Txn
  <2>4. /\ store'[h[2]].bTxn = store[h[2]].bTxn /\ store'[h[2]].bTs = commitTs[c]
        /\ store'[h[2]].eTxn = store[h[2]].eTxn /\ store'[h[2]].eTs = store[h[2]].eTs
        /\ \A r \in Rids : r # h[2] => store'[r] = store[r]
    BY <2>2, <2>3 DEF TypeOK, Metas
  <2>5. NextStep(s, TRUE, h)
    BY <1>1, <1>6, <2>1, <2>4, ListSteps DEF NextStep, Finishing
  <2>6. Shape' /\ \A y \in Rows : y # h => Follows(y)'
    BY <2>5, NextKeeps
  <2>7. KnownOf(h)'
    <3>1. store'[h[2]] # NoMeta
      <4>1. [store[h[2]] EXCEPT !.bTs = commitTs[c]] \in Metas
        BY <2>2 DEF Metas, TypeOK
      <4> QED
        BY <2>2, <2>3, <4>1, Sentinels DEF TypeOK
    <3> QED
      BY <1>4, <2>2, <3>1 DEF KnownOf
  <2>8. BeginOf(h)'
    BY <1>3, <1>4, <2>2, <2>4 DEF SnapParts, Follows, BeginOf
  <2>9. EndOf(h)'
    <3>1. \A t \in Deleters(h) : t \in TxnIds
      BY DEF Deleters
    <3>2. \A t \in Deleters(h) : /\ Undoing(t) => Undoing(t)'
                                 /\ DeletePending(t, h) => DeletePending(t, h)'
      BY <2>5, <3>1, NextKeeps
    <3> QED
      BY <1>3, <1>4, <1>5, <2>4, <3>2, EndKept DEF SnapParts, Follows
  <2> QED
    BY <2>6, <2>7, <2>8, <2>9 DEF SnapParts, Follows
<1>7. CASE NextDelete(s) /\ CommitDelete(Head(todo[s].del)[2], commitTs[Txn(s)])
  <2>1. PICK h \in Rows : h = Head(todo[s].del) /\ Has(todo[s].del, h)
    BY <1>7, ListSteps
  <2>2. /\ c \in Deleters(h) /\ state[c] = "committed" /\ commitTs[c] # Invalid /\ h[2] \in Rids
        /\ Inserted(h) # {} => store[h[2]] \in Metas /\ store[h[2]] # NoMeta
    BY <1>1, <1>2, <2>1, NextWrite DEF Finishing
  <2>3. PICK m \in Metas \cup {NoMeta} : m = store[h[2]]
    BY <2>2 DEF TypeOK
  <2>4. store' = IF m = NoMeta THEN store ELSE [store EXCEPT ![h[2]] = [m EXCEPT !.eTs = commitTs[c]]]
    BY <1>2, <1>7, <2>1, <2>3 DEF CommitDelete, IfKnown, Txn
  <2>5. \A r \in Rids : r # h[2] => store'[r] = store[r]
    BY <2>2, <2>4 DEF TypeOK
  <2>6. m # NoMeta => /\ store'[h[2]].bTxn = m.bTxn /\ store'[h[2]].bTs = m.bTs
                      /\ store'[h[2]].eTxn = m.eTxn /\ store'[h[2]].eTs = commitTs[c]
                      /\ store'[h[2]] # NoMeta
    <3>1. ASSUME m # NoMeta PROVE store'[h[2]] = [m EXCEPT !.eTs = commitTs[c]]
      BY <2>2, <2>4, <3>1 DEF TypeOK
    <3>2. m # NoMeta => [m EXCEPT !.eTs = commitTs[c]] \in Metas
      BY <2>2 DEF Metas, TypeOK
    <3> QED
      BY <3>1, <3>2, Sentinels DEF Metas
  <2>7. m = NoMeta => store'[h[2]] = NoMeta
    BY <2>3, <2>4
  <2>8. NextStep(s, FALSE, h)
    BY <1>1, <1>7, <2>1, <2>5, ListSteps DEF NextStep, Finishing
  <2>9. Shape' /\ \A y \in Rows : y # h => Follows(y)'
    BY <2>8, NextKeeps
  <2>10. KnownOf(h) /\ BeginOf(h) /\ EndOf(h)
    BY DEF SnapParts, Follows
  <2>11. KnownOf(h)'
    BY <1>4, <2>3, <2>6, <2>7, <2>10 DEF KnownOf
  <2>12. BeginOf(h)'
    <3>1. CASE m = NoMeta
      BY <1>4, <2>3, <2>10, <3>1 DEF KnownOf, BeginOf
    <3>2. CASE m # NoMeta
      <4>1. \A t \in Inserted(h) : /\ Undoing(t) => Undoing(t)'
                                   /\ InsertPending(t, h) => InsertPending(t, h)'
        BY <2>8, NextKeeps DEF Inserted
      <4> QED
        BY <1>3, <1>4, <2>3, <2>6, <2>10, <3>2, <4>1, BeginKept
    <3> QED
      BY <3>1, <3>2
  <2>13. EndOf(h)'
    <3> SUFFICES ASSUME Inserted(h) # {}, Sound(h)
                 PROVE  EndOf(h)'
      BY <1>4, <1>5 DEF EndOf
    <3>1. Deleters(h) = {c} /\ m # NoMeta
      BY <2>2, <2>3 DEF Sound, Contested
    <3> QED
      BY <1>3, <1>4, <2>2, <2>3, <2>6, <2>10, <3>1 DEF EndOf
  <2> QED
    BY <2>9, <2>11, <2>12, <2>13 DEF SnapParts, Follows
<1> QED
  BY <1>6, <1>7 DEF Backfill

LEMMA UndoSnap ==
  ASSUME OneTable, TypeOK, TypeOK', RunParts, SnapParts, NEW s \in Sessions, Undo(s)
  PROVE  SnapParts'
<1>1. pc[s] = "undo" /\ UNCHANGED <<txnVars, sets, rowCount, current, pc, target>>
  BY DEF Undo, At
<1>2. PICK c \in TxnIds : c = current[s]
  BY <1>1, WorksOn
<1>3. inserts' = inserts /\ deletes' = deletes /\ state' = state /\ commitTs' = commitTs
      /\ readTs' = readTs
  BY <1>1 DEF sets, txnVars
<1>4. \A y \in Rows : Inserted(y)' = Inserted(y) /\ Deleters(y)' = Deleters(y)
  BY <1>3 DEF Inserted, Deleters
<1>5. ASSUME NEW y \in Rows PROVE Sound(y)' => Sound(y)
  BY <1>3, <1>4, SoundKept
<1>6. CASE NextInsert(s) /\ AbortInsert(Head(todo[s].ins)[2])
  <2>1. PICK h \in Rows : h = Head(todo[s].ins) /\ Has(todo[s].ins, h)
    BY <1>6, ListSteps
  <2>2. /\ Inserted(h) = {c} /\ state[c] = "running" /\ commitTs[c] = Invalid /\ Undoing(c)
        /\ h[2] \in Rids
    BY <1>1, <1>2, <2>1, NextWrite DEF Finishing
  <2>3. store' = [store EXCEPT ![h[2]] = FreshMeta(Invalid)]
    BY <1>6, <2>1 DEF AbortInsert
  <2>4. /\ store'[h[2]] = FreshMeta(Invalid) /\ FreshMeta(Invalid) # NoMeta
        /\ \A r \in Rids : r # h[2] => store'[r] = store[r]
    <3>1. FreshMeta(Invalid) \in Metas
      BY DEF FreshMeta, Metas, MaybeTxn, MaybeTs
    <3> QED
      BY <2>2, <2>3, <3>1, Sentinels DEF TypeOK
  <2>5. NextStep(s, TRUE, h)
    BY <1>1, <1>6, <2>1, <2>4, ListSteps DEF NextStep, Finishing
  <2>6. Shape' /\ (\A y \in Rows : y # h => Follows(y)') /\ Undoing(c)'
    BY <2>2, <2>5, NextKeeps
  <2>7. KnownOf(h)'
    BY <1>4, <2>2, <2>4 DEF KnownOf
  <2>8. BeginOf(h)'
    BY <1>3, <1>4, <2>2, <2>4, <2>6 DEF BeginOf, FreshMeta
  <2>9. EndOf(h)'
    <3>1. Sound(h) => \A t \in Deleters(h) : t = c
      BY <2>2 DEF Sound, Entitled
    <3> QED
      BY <1>3, <1>4, <1>5, <2>2, <2>4, <2>6, <3>1 DEF EndOf, FreshMeta
  <2> QED
    BY <2>6, <2>7, <2>8, <2>9 DEF SnapParts, Follows
<1>7. CASE NextDelete(s) /\ AbortDelete(Head(todo[s].del)[2])
  <2>1. PICK h \in Rows : h = Head(todo[s].del) /\ Has(todo[s].del, h)
    BY <1>7, ListSteps
  <2>2. /\ c \in Deleters(h) /\ state[c] = "running" /\ Undoing(c) /\ h[2] \in Rids
        /\ Inserted(h) # {} => store[h[2]] \in Metas /\ store[h[2]] # NoMeta
    BY <1>1, <1>2, <2>1, NextWrite DEF Finishing
  <2>3. PICK m \in Metas \cup {NoMeta} : m = store[h[2]]
    BY <2>2 DEF TypeOK
  <2>4. store' = IF m = NoMeta THEN store
                 ELSE [store EXCEPT ![h[2]] = [m EXCEPT !.eTxn = Invalid, !.eTs = Invalid]]
    BY <1>7, <2>1, <2>3 DEF AbortDelete, IfKnown
  <2>5. \A r \in Rids : r # h[2] => store'[r] = store[r]
    BY <2>2, <2>4 DEF TypeOK
  <2>6. m # NoMeta => /\ store'[h[2]].bTxn = m.bTxn /\ store'[h[2]].bTs = m.bTs
                      /\ store'[h[2]].eTxn = Invalid /\ store'[h[2]].eTs = Invalid
                      /\ store'[h[2]] # NoMeta
    <3>1. ASSUME m # NoMeta PROVE store'[h[2]] = [m EXCEPT !.eTxn = Invalid, !.eTs = Invalid]
      BY <2>2, <2>4, <3>1 DEF TypeOK
    <3>2. m # NoMeta => [m EXCEPT !.eTxn = Invalid, !.eTs = Invalid] \in Metas
      BY DEF Metas, MaybeTxn, MaybeTs
    <3> QED
      BY <3>1, <3>2, Sentinels DEF Metas
  <2>7. m = NoMeta => store'[h[2]] = NoMeta
    BY <2>3, <2>4
  <2>8. NextStep(s, FALSE, h)
    BY <1>1, <1>7, <2>1, <2>5, ListSteps DEF NextStep, Finishing
  <2>9. Shape' /\ (\A y \in Rows : y # h => Follows(y)') /\ Undoing(c)'
    BY <2>2, <2>8, NextKeeps
  <2>10. KnownOf(h) /\ BeginOf(h)
    BY DEF SnapParts, Follows
  <2>11. KnownOf(h)'
    BY <1>4, <2>3, <2>6, <2>7, <2>10 DEF KnownOf
  <2>12. BeginOf(h)'
    <3>1. CASE m = NoMeta
      BY <1>4, <2>3, <2>10, <3>1 DEF KnownOf, BeginOf
    <3>2. CASE m # NoMeta
      <4>1. \A t \in Inserted(h) : /\ Undoing(t) => Undoing(t)'
                                   /\ InsertPending(t, h) => InsertPending(t, h)'
        BY <2>8, NextKeeps DEF Inserted
      <4> QED
        BY <1>3, <1>4, <2>3, <2>6, <2>10, <3>2, <4>1, BeginKept
    <3> QED
      BY <3>1, <3>2
  <2>13. EndOf(h)'
    <3> SUFFICES ASSUME Inserted(h) # {}, Sound(h)
                 PROVE  EndOf(h)'
      BY <1>4, <1>5 DEF EndOf
    <3>1. Deleters(h) = {c} /\ m # NoMeta
      BY <2>2, <2>3 DEF Sound, Contested
    <3> QED
      BY <1>3, <1>4, <2>2, <2>3, <2>6, <2>9, <3>1 DEF EndOf
  <2> QED
    BY <2>9, <2>11, <2>12, <2>13 DEF SnapParts, Follows
<1> QED
  BY <1>6, <1>7 DEF Undo

-----------------------------------------------------------------------------
\* Steps that begin or end a transaction.

LEMMA EndCommitSnap ==
  ASSUME TypeOK, TypeOK', SnapParts, NEW s \in Sessions, EndCommit(s)
  PROVE  SnapParts'
<1>1. /\ pc[s] = "backfill" /\ pc' = [pc EXCEPT ![s] = "idle"]
      /\ todo[s].ins = <<>> /\ todo[s].del = <<>>
      /\ current' = [current EXCEPT ![s] = NoTxn]
      /\ UNCHANGED <<txnVars, sets, store, rowCount, target, todo>>
  BY DEF EndCommit, At, Goto, Done, EndTxn
<1>2. OthersRest(s) /\ pc'[s] = "idle" /\ target' = target
  BY <1>1 DEF OthersRest, TypeOK
<1>3. Shape'
  <2>1. \A t \in Tables : rowCount[t] <= rowCount'[t]
    <3>1. \A t \in Tables : rowCount[t] \in Nat
      BY MvccAssumption DEF TypeOK
    <3> QED
      BY <1>1, <3>1
  <2> QED
    BY <1>1, <1>2, <2>1, ShapeKept DEF SnapParts, Registering, Finishing
<1>4. \A t \in TxnIds : Undoing(t) => Undoing(t)'
  BY <1>1, <1>2 DEF Undoing, OthersRest
<1>5. ASSUME NEW x \in Rows PROVE Follows(x)'
  <2>1. \A t \in TxnIds : InsertPending(t, x) => InsertPending(t, x)'
    BY <1>1, <1>2, HasNothing DEF InsertPending, OthersRest
  <2>2. \A t \in TxnIds : DeletePending(t, x) => DeletePending(t, x)'
    BY <1>1, <1>2, HasNothing DEF DeletePending, OthersRest
  <2>3. Inserted(x) \subseteq TxnIds /\ Deleters(x) \subseteq TxnIds
    BY DEF Inserted, Deleters
  <2> QED
    BY <1>1, <1>4, <2>1, <2>2, <2>3, RowKept DEF SnapParts, txnVars, sets
<1> QED
  BY <1>3, <1>5 DEF SnapParts

LEMMA EndAbortSnap ==
  ASSUME TypeOK, TypeOK', RunParts, SnapParts, NEW s \in Sessions, EndAbort(s)
  PROVE  SnapParts'
<1>1. PICK c \in TxnIds : c = current[s] /\ c # NoTxn
  BY WorksOn DEF EndAbort, At
<1>2. /\ pc[s] = "undo" /\ pc' = [pc EXCEPT ![s] = "idle"]
      /\ current' = [current EXCEPT ![s] = NoTxn] /\ state' = [state EXCEPT ![c] = "aborted"]
      /\ UNCHANGED <<readTs, commitTs, sets, store, rowCount, target, todo>>
  BY <1>1 DEF EndAbort, At, Goto, EndTxn, Txn
<1>3. OthersRest(s) /\ pc'[s] = "idle" /\ target' = target /\ inserts' = inserts /\ deletes' = deletes
  BY <1>2 DEF OthersRest, TypeOK, sets
<1>4. Shape'
  <2>1. \A t \in Tables : rowCount[t] <= rowCount'[t]
    <3>1. \A t \in Tables : rowCount[t] \in Nat
      BY MvccAssumption DEF TypeOK
    <3> QED
      BY <1>2, <3>1
  <2> QED
    BY <1>2, <1>3, <2>1, ShapeKept DEF SnapParts, Registering, Finishing
<1>5. state[c] = "running" /\ state'[c] = "aborted" /\ \A t \in TxnIds : t # c => state'[t] = state[t]
  BY <1>1, <1>2 DEF RunParts, Underway, TypeOK, Committing
<1>6. \A t \in TxnIds : t # c /\ Undoing(t) => Undoing(t)'
  BY <1>1, <1>2, <1>3 DEF Undoing, OthersRest
<1>7. ASSUME NEW x \in Rows PROVE Follows(x)'
  <2>1. \A t \in TxnIds : /\ InsertPending(t, x) => InsertPending(t, x)'
                          /\ DeletePending(t, x) => DeletePending(t, x)'
    BY <1>2, <1>3 DEF InsertPending, DeletePending, OthersRest, Committing
  <2>2. /\ Inserted(x)' = Inserted(x) /\ Deleters(x)' = Deleters(x)
        /\ Inserted(x) \subseteq TxnIds /\ Deleters(x) \subseteq TxnIds
    BY <1>3 DEF Inserted, Deleters
  <2>3. KnownOf(x) /\ BeginOf(x) /\ EndOf(x)
    BY DEF SnapParts, Follows
  <2>4. KnownOf(x)'
    BY <1>2, <2>2, <2>3 DEF KnownOf
  <2>5. BeginOf(x)'
    BY <1>2, <1>5, <1>6, <2>1, <2>2, <2>3 DEF BeginOf
  <2>6. Sound(x)' => Sound(x)
    BY <1>2, <2>2, SoundKept
  <2>7. EndOf(x)'
    BY <1>2, <1>5, <1>6, <2>1, <2>2, <2>3, <2>6 DEF EndOf
  <2> QED
    BY <2>4, <2>5, <2>7 DEF Follows
<1> QED
  BY <1>4, <1>7 DEF SnapParts

LEMMA StampSnap ==
  ASSUME TypeOK, TypeOK', RunParts, SnapParts, NEW s \in Sessions, Stamp(s)
  PROVE  SnapParts'
<1>1. PICK c \in TxnIds : c = current[s] /\ c # NoTxn
  BY WorksOn DEF Stamp, At
<1>2. PICK n \in Int : n = nextCommitTs
  BY DEF TypeOK
<1>3. /\ pc[s] = "stamp" /\ pc' = [pc EXCEPT ![s] = "publish"]
      /\ state' = [state EXCEPT ![c] = "committed"] /\ commitTs' = [commitTs EXCEPT ![c] = n]
      /\ UNCHANGED <<readTs, sets, store, rowCount, current, target, todo>>
  BY <1>1, <1>2 DEF Stamp, At, Goto, Txn
<1>4. OthersRest(s) /\ pc'[s] = "publish" /\ inserts' = inserts /\ deletes' = deletes
  BY <1>3 DEF OthersRest, TypeOK, sets
<1>5. Shape'
  <2>1. \A t \in Tables : rowCount[t] <= rowCount'[t]
    <3>1. \A t \in Tables : rowCount[t] \in Nat
      BY MvccAssumption DEF TypeOK
    <3> QED
      BY <1>3, <3>1
  <2> QED
    BY <1>3, <1>4, <2>1, ShapeKept DEF SnapParts, Registering, Finishing
<1>6. /\ state[c] = "running" /\ state'[c] = "committed" /\ ~Undoing(c)
      /\ \A t \in TxnIds : t # c => state'[t] = state[t] /\ commitTs'[t] = commitTs[t]
      /\ commitTs'[c] = n
  <2>1. state[c] = "running" /\ ~Undoing(c)
    BY <1>1, <1>3 DEF RunParts, Underway, Apart, Undoing, Committing
  <2> QED
    BY <1>3, <2>1 DEF TypeOK
<1>7. /\ \A t \in TxnIds : Undoing(t) => Undoing(t)'
      /\ \A x \in Rows, t \in TxnIds : /\ InsertPending(t, x) => InsertPending(t, x)'
                                       /\ DeletePending(t, x) => DeletePending(t, x)'
  BY <1>3, <1>4, SameStage DEF Committing
<1>8. \A x \in Rows : InsertPending(c, x)' /\ DeletePending(c, x)'
  BY <1>1, <1>3, <1>4 DEF InsertPending, DeletePending, Committing
<1>9. ASSUME NEW x \in Rows PROVE Follows(x)'
  <2>1. /\ Inserted(x)' = Inserted(x) /\ Deleters(x)' = Deleters(x)
        /\ Inserted(x) \subseteq TxnIds /\ Deleters(x) \subseteq TxnIds
    BY <1>4 DEF Inserted, Deleters
  <2>2. KnownOf(x) /\ BeginOf(x) /\ EndOf(x)
    BY DEF SnapParts, Follows
  <2>3. KnownOf(x)'
    BY <1>3, <2>1, <2>2 DEF KnownOf
  <2>4. BeginOf(x)'
    <3> SUFFICES ASSUME NEW t \in Inserted(x)
                 PROVE  LET m == store'[x[2]]
                        IN  /\ m.bTxn = t \/ (m.bTxn = Invalid /\ state'[t] # "committed")
                            /\ state'[t] = "running" /\ ~Undoing(t)' => m.bTxn = t
                            /\ m.bTs # Invalid => state'[t] = "committed" /\ m.bTs = commitTs'[t]
                            /\ state'[t] = "committed" /\ m.bTs = Invalid => InsertPending(t, x)'
      BY <2>1 DEF BeginOf
    <3>1. CASE t = c
      BY <1>3, <1>6, <1>8, <2>2, <3>1 DEF BeginOf
    <3>2. CASE t # c
      BY <1>3, <1>6, <1>7, <2>1, <2>2, <3>2 DEF BeginOf
    <3> QED
      BY <3>1, <3>2
  <2>5. Sound(x)' => Sound(x)
    <3>1. ASSUME NEW t \in Deleters(x), Entitled(t, x)' PROVE Entitled(t, x)
      <4>1. PICK w \in Inserted(x) : w = t \/ (commitTs'[w] # Invalid /\ commitTs'[w] <= readTs[t])
        BY <1>3, <2>1, <3>1 DEF Entitled
      <4>2. CASE w = c /\ w # t
        <5>1. n <= readTs[t] /\ readTs[t] < n /\ readTs[t] \in Int /\ n \in Int
          BY <1>2, <1>6, <2>1, <4>1, <4>2, MvccAssumption DEF RunParts, Past, TypeOK
        <5> QED
          BY <5>1
      <4>3. CASE ~(w = c /\ w # t)
        BY <1>6, <2>1, <4>1, <4>3 DEF Entitled
      <4> QED
        BY <4>2, <4>3
    <3> QED
      BY <2>1, <3>1 DEF Sound, Contested
  <2>6. EndOf(x)'
    <3> SUFFICES ASSUME Inserted(x) # {}, Sound(x)
                 PROVE  LET m == store'[x[2]]
                        IN  /\ Deleters(x) = {} => m.eTxn = Invalid
                            /\ \A t \in Deleters(x) :
                                 /\ m.eTxn = t \/ (m.eTxn = Invalid /\ state'[t] # "committed")
                                 /\ state'[t] = "running" /\ ~Undoing(t)' => m.eTxn = t
                                 /\ m.eTs # Invalid => state'[t] = "committed" /\ m.eTs = commitTs'[t]
                                 /\ state'[t] = "committed" /\ m.eTs = Invalid => DeletePending(t, x)'
      BY <2>1, <2>5 DEF EndOf
    <3>1. Deleters(x) = {} => store'[x[2]].eTxn = Invalid
      BY <1>3, <2>2 DEF EndOf
    <3>2. ASSUME c \in Deleters(x)
          PROVE  store'[x[2]].eTxn = c /\ store'[x[2]].eTs = Invalid
      BY <1>3, <1>6, <2>2, <3>2 DEF EndOf
    <3>3. ASSUME NEW t \in Deleters(x), t # c
          PROVE  LET m == store'[x[2]]
                 IN  /\ m.eTxn = t \/ (m.eTxn = Invalid /\ state'[t] # "committed")
                     /\ state'[t] = "running" /\ ~Undoing(t)' => m.eTxn = t
                     /\ m.eTs # Invalid => state'[t] = "committed" /\ m.eTs = commitTs'[t]
                     /\ state'[t] = "committed" /\ m.eTs = Invalid => DeletePending(t, x)'
      BY <1>3, <1>6, <1>7, <2>1, <2>2, <3>3 DEF EndOf
    <3> QED
      BY <1>6, <1>8, <3>1, <3>2, <3>3
  <2> QED
    BY <2>3, <2>4, <2>6 DEF Follows
<1> QED
  BY <1>5, <1>9 DEF SnapParts

\* A transaction begins with nothing written.
LEMMA BeginTxnSnap ==
  ASSUME TypeOK, TypeOK', RunParts, SnapParts, NEW s \in Sessions, BeginTxn(s), pc[s] = "idle",
         UNCHANGED <<store, rowCount, todo>>, target'[s] \in {target[s], NoRow},
         \A u \in Sessions : u # s => pc'[u] = pc[u] /\ target'[u] = target[u],
         pc'[s] \notin Registering \cup Finishing
  PROVE  SnapParts'
<1>1. PICK c \in TxnIds : c = nextTxn
  BY DEF BeginTxn, TypeOK, TxnIds
<1>2. /\ current' = [current EXCEPT ![s] = c]
      /\ readTs' = [readTs EXCEPT ![c] = lastCommitTs] /\ state' = [state EXCEPT ![c] = "running"]
      /\ UNCHANGED <<commitTs, sets>>
  BY <1>1 DEF BeginTxn
<1>3. OthersRest(s) /\ inserts' = inserts /\ deletes' = deletes
  BY <1>2 DEF OthersRest, TypeOK, sets
<1>4. inserts[c] = <<>> /\ deletes[c] = <<>>
  <2>1. c \in Int
    BY DEF TxnIds
  <2> QED
    BY <1>1, <2>1 DEF RunParts, Unused
<1>5. Shape'
  <2>1. \A t \in Tables : rowCount[t] <= rowCount'[t]
    <3>1. \A t \in Tables : rowCount[t] \in Nat
      BY MvccAssumption DEF TypeOK
    <3> QED
      BY <3>1
  <2> QED
    BY <1>2, <1>3, <2>1, ShapeKept DEF SnapParts
<1>6. \A t \in TxnIds : Undoing(t) => Undoing(t)'
  BY <1>3 DEF Undoing, OthersRest
<1>7. ASSUME NEW x \in Rows PROVE Follows(x)'
  <2>1. \A t \in TxnIds : /\ InsertPending(t, x) => InsertPending(t, x)'
                          /\ DeletePending(t, x) => DeletePending(t, x)'
    BY <1>3 DEF InsertPending, DeletePending, OthersRest, Committing
  <2>2. \A t \in Inserted(x) \cup Deleters(x) : t \in TxnIds /\ t # c
    BY <1>4, HasNothing DEF Inserted, Deleters
  <2>3. \A t \in Inserted(x) \cup Deleters(x) :
          state'[t] = state[t] /\ commitTs'[t] = commitTs[t] /\ readTs'[t] = readTs[t]
    BY <1>2, <2>2 DEF TypeOK
  <2> QED
    BY <1>3, <1>6, <2>1, <2>2, <2>3, RowKept DEF SnapParts
<1> QED
  BY <1>5, <1>7 DEF SnapParts

LEMMA CommandSnap ==
  ASSUME TypeOK, TypeOK', RunParts, SnapParts, NEW s \in Sessions, Command(s)
  PROVE  SnapParts'
<1>1. CASE Begin(s)
  BY <1>1, BeginTxnSnap DEF Begin, At, Registering, Finishing
<1>2. CASE Commit(s) \/ Rollback(s)
  BY <1>2, CalmSteps
<1>3. CASE \E kind \in Kinds, t \in Tables : Start(s, kind, t)
  <2>1. PICK kind \in Kinds, t \in Tables : Start(s, kind, t)
    BY <1>3
  <2>2. /\ pc[s] = "idle" /\ pc'[s] \in {"page", "open"} /\ target'[s] = NoRow
        /\ \A u \in Sessions : u # s => pc'[u] = pc[u] /\ target'[u] = target[u]
        /\ UNCHANGED <<store, rowCount, todo>>
    BY <2>1 DEF Start, At, Goto, TypeOK
  <2>3. CASE current[s] = NoTxn
    <3>1. BeginTxn(s)
      BY <2>1, <2>3 DEF Start
    <3> QED
      BY <2>2, <3>1, BeginTxnSnap DEF Registering, Finishing
  <2>4. CASE current[s] # NoTxn
    <3>1. UNCHANGED <<txnVars, sets, current>>
      BY <2>1, <2>4 DEF Start
    <3>2. Calm(s)
      BY <2>2, <3>1 DEF Calm, OthersRest, txnVars, Committing, Finishing
    <3> QED
      BY <2>2, <3>2, CalmKeeps DEF Registering
  <2> QED
    BY <2>3, <2>4
<1> QED
  BY <1>1, <1>2, <1>3 DEF Command

LEMMA StepSnap ==
  ASSUME OneTable, TypeOK, TypeOK', RunParts, SnapParts, NEW s \in Sessions, Step(s)
  PROVE  SnapParts'
BY CalmSteps, WritePageSnap, ScanSnap, RegisterInsertSnap, RegisterDeleteSnap, BackfillSnap,
   UndoSnap, EndCommitSnap, EndAbortSnap, StampSnap DEF Step

-----------------------------------------------------------------------------
\* The invariant is inductive.

LEMMA InitSnap == ASSUME OneTable, Init PROVE SnapParts
<1>1. Preloaded \in Nat /\ Preloaded <= MaxTxns /\ Preloaded <= MaxRows /\ MaxTxns \in Nat /\ MaxRows \in Nat
  BY MvccAssumption
<1>2. PICK t0 \in Tables :
        /\ inserts = [t \in TxnIds |-> IF t \in 1 .. Preloaded THEN <<<<t0, t - 1>>>> ELSE <<>>]
        /\ rowCount = [t \in Tables |-> IF t = t0 THEN Preloaded ELSE 0]
  BY MvccAssumption DEF Init
<1>3. /\ commitTs = [t \in TxnIds |-> IF t \in 1 .. Preloaded THEN t ELSE Invalid]
      /\ state = [t \in TxnIds |-> IF t \in 1 .. Preloaded THEN "committed" ELSE "none"]
      /\ deletes = [t \in TxnIds |-> <<>>]
      /\ pc = [s \in Sessions |-> "idle"] /\ target = [s \in Sessions |-> NoRow]
      /\ store = [r \in Rids |-> IF r < Preloaded THEN [FreshMeta(r + 1) EXCEPT !.bTs = r + 1] ELSE NoMeta]
  BY DEF Init
<1>4. \A x, y : Has(<<y>>, x) <=> x = y
  BY DEF Has
<1>5. ASSUME NEW t \in TxnIds, NEW x \in Rows
      PROVE  ~Has(deletes[t], x) /\ (Has(inserts[t], x) <=> t = x[2] + 1 /\ x[2] < Preloaded)
  <2>1. ~Has(deletes[t], x)
    BY <1>3, HasNothing
  <2>2. x[1] = t0 /\ x[2] \in Nat /\ x = <<x[1], x[2]>> /\ t \in Nat /\ t >= 1
    BY RowFacts DEF OneTable, TxnIds
  <2>3. CASE t \in 1 .. Preloaded
    <3>1. Has(inserts[t], x) <=> x = <<t0, t - 1>>
      BY <1>2, <1>4, <2>3
    <3>2. x = <<t0, t - 1>> <=> x[2] = t - 1
      BY <2>2
    <3> QED
      BY <1>1, <2>1, <2>2, <2>3, <3>1, <3>2
  <2>4. CASE t \notin 1 .. Preloaded
    BY <1>1, <1>2, <2>1, <2>2, <2>4, HasNothing
  <2> QED
    BY <2>3, <2>4
<1>6. Placed
  <2>1. \A x \in Rows : x[2] < Preloaded => OnPage(x)
    <3>1. \A x \in Rows : x[1] = t0
      BY RowFacts DEF OneTable
    <3> QED
      BY <1>2, <3>1 DEF OnPage
  <2> QED
    BY <1>3, <1>5, <2>1 DEF Placed
<1>7. NewRows /\ OwnWrites
  BY <1>3 DEF NewRows, OwnWrites, Registering, Finishing
<1>8. OneInserter
  BY <1>5 DEF OneInserter, Inserted
<1>9. ASSUME NEW x \in Rows PROVE Follows(x)
  <2>1. PICK r \in Rids : r = x[2] /\ r \in Nat
    BY RowFacts
  <2>2. CASE r < Preloaded
    <3>1. PICK t : t = r + 1 /\ t \in 1 .. Preloaded /\ t \in TxnIds
      BY <1>1, <2>1, <2>2 DEF TxnIds
    <3>2. store[r] = [bTxn |-> t, bTs |-> t, eTxn |-> Invalid, eTs |-> Invalid]
      BY <1>3, <2>2, <3>1 DEF FreshMeta
    <3>3. store[r] # NoMeta
      <4>1. store[r] \in Metas
        BY <3>1, <3>2 DEF Metas, MaybeTxn, MaybeTs
      <4> QED
        BY <4>1, Sentinels
    <3>4. Inserted(x) = {t} /\ Deleters(x) = {}
      BY <1>5, <2>1, <2>2, <3>1 DEF Inserted, Deleters
    <3>5. state[t] = "committed" /\ commitTs[t] = t /\ t # Invalid
      BY <1>3, <3>1 DEF Invalid
    <3> QED
      BY <2>1, <3>2, <3>3, <3>4, <3>5 DEF Follows, KnownOf, BeginOf, EndOf
  <2>3. CASE ~(r < Preloaded)
    <3>1. Inserted(x) = {} /\ store[r] = NoMeta
      BY <1>3, <1>5, <2>1, <2>3 DEF Inserted
    <3> QED
      BY <2>1, <3>1 DEF Follows, KnownOf, BeginOf, EndOf
  <2> QED
    BY <2>2, <2>3
<1> QED
  BY <1>6, <1>7, <1>8, <1>9 DEF SnapParts, Shape

LEMMA StutterSnap == ASSUME SnapParts, UNCHANGED vars PROVE SnapParts'
BY DEF vars, txnVars, sets, sessionVars, SnapParts, Shape, Placed, OnPage, NewRows, OneInserter,
       OwnWrites, Follows, KnownOf, BeginOf, EndOf, Sound, Contested, Entitled, Inserted, Deleters,
       Undoing, InsertPending, DeletePending

\* While the process runs the metadata of every registered row follow the
\* transactions that wrote it.
THEOREM SnapshotInvariant == ASSUME OneTable PROVE Spec => []SnapInv
<1>1. Init => SnapInv
  BY InitSnap DEF SnapInv
<1>2. MvccInv /\ MvccInv' /\ SnapInv /\ [Next]_vars => SnapInv'
  <2> SUFFICES ASSUME MvccInv, MvccInv', SnapInv, [Next]_vars, up'
               PROVE  SnapParts'
    BY DEF SnapInv
  <2>1. TypeOK /\ TypeOK'
    BY DEF MvccInv
  <2>2. CASE \E s \in Sessions : Command(s) \/ Step(s)
    <3>1. PICK s \in Sessions : Command(s) \/ Step(s)
      BY <2>2
    <3>2. up
      BY <3>1 DEF Command, Begin, Commit, Rollback, Start, Step, Fail, EndScan, Scan, WritePage,
         LogInsert, RegisterInsert, FlushInsert, OpenScan, LogDelete, RegisterDelete, Stamp,
         Publish, LogCommit, FlushCommit, Backfill, EndCommit, FlushAbort, Undo, EndAbort, At
    <3>3. RunParts /\ SnapParts
      BY <3>2 DEF MvccInv, SnapInv
    <3> QED
      BY <2>1, <3>1, <3>3, CommandSnap, StepSnap
  <2>3. CASE Crash
    BY <2>3 DEF Crash
  <2>4. CASE Recover
    BY <2>4 DEF Recover
  <2>5. CASE Rest \/ UNCHANGED vars
    <3>1. UNCHANGED vars
      BY <2>5 DEF Rest
    <3>2. up
      BY <3>1 DEF vars
    <3> QED
      BY <3>1, <3>2, StutterSnap DEF SnapInv
  <2> QED
    BY <2>2, <2>3, <2>4, <2>5 DEF Next
<1> QED
  BY <1>1, <1>2, MvccInvariant, PTL DEF Spec

-----------------------------------------------------------------------------
\* What it implies.

\* Who reads is running: it neither commits nor undoes.
LEMMA ReaderRuns ==
  ASSUME MvccInv, NEW s \in Sessions, Reading(s)
  PROVE  /\ current[s] \in TxnIds /\ state[current[s]] = "running" /\ ~Undoing(current[s])
         /\ readTs[current[s]] \in Int
<1>1. TypeOK /\ RunParts /\ current[s] \in TxnIds /\ current[s] # NoTxn
  BY DEF MvccInv, Reading, TypeOK
<1>2. state[current[s]] = "running" /\ ~Undoing(current[s])
  BY <1>1 DEF RunParts, Underway, Apart, Undoing, Reading, Committing
<1>3. readTs[current[s]] \in Int
  BY <1>1, MvccAssumption DEF TypeOK
<1> QED
  BY <1>1, <1>2, <1>3

\* A write of w counts for the reader exactly if its timestamp is there and within
\* the snapshot, when the timestamp is missing only while w is brought to its end.
LEMMA CountsByStamp ==
  ASSUME MvccInv, NEW s \in Sessions, Reading(s), Settled(s), NEW w \in TxnIds, w # current[s],
         NEW ts, ts # Invalid => state[w] = "committed" /\ ts = commitTs[w],
         state[w] = "committed" /\ ts = Invalid => Ending(w)
  PROVE  Counts(w, current[s]) <=> ts # Invalid /\ ts <= readTs[current[s]]
<1>1. readTs[current[s]] \in Int /\ commitTs[w] \in Int
  <2>1. commitTs[w] \in MaybeTs
    BY DEF MvccInv, TypeOK
  <2>2. MaybeTs \subseteq Int
    BY MvccAssumption DEF MaybeTs, TxnIds, Invalid
  <2> QED
    BY <2>1, <2>2, ReaderRuns
<1>2. ASSUME Counts(w, current[s]) PROVE ts # Invalid /\ ts <= readTs[current[s]]
  BY <1>2 DEF Counts, Finished
<1>3. ASSUME ts # Invalid, ts <= readTs[current[s]] PROVE Counts(w, current[s])
  <2>1. ~Ending(w)
    BY <1>1, <1>3 DEF Settled
  <2> QED
    BY <1>3, <2>1 DEF Counts, Finished
<1> QED
  BY <1>2, <1>3

\* Every session sees exactly the rows snapshot isolation promises it
\* (VersionStore::IsVisible), of those SnapshotExact is about.
THEOREM SnapshotsAreExact == ASSUME OneTable PROVE Spec => []SnapshotExact
<1>1. ASSUME MvccInv, SnapInv PROVE SnapshotExact
  <2> SUFFICES ASSUME NEW s \in Sessions, Reading(s), Settled(s), NEW x \in Rows,
                      Inserted(x) # {}, ~Contested(x), \A w \in Deleters(x) : Entitled(w, x)
               PROVE  Sees(current[s], x) <=> Promised(current[s], x)
    BY DEF SnapshotExact
  <2>1. PICK c \in TxnIds : c = current[s] /\ state[c] = "running" /\ ~Undoing(c)
    BY <1>1, ReaderRuns
  <2>2. TypeOK /\ RunParts /\ SnapParts
    BY <1>1 DEF MvccInv, SnapInv, Reading
  <2>3. KnownOf(x) /\ BeginOf(x) /\ EndOf(x) /\ Sound(x)
    BY <2>2 DEF SnapParts, Follows, Sound
  <2>4. PICK m \in Metas : m = store[x[2]] /\ m # NoMeta
    BY <2>2, <2>3, KnownMeta
  <2>5. PICK w \in TxnIds : Inserted(x) = {w}
    BY <2>2 DEF SnapParts, Shape, OneInserter, Inserted
  <2>6. Invalid \notin TxnIds
    BY DEF TxnIds, Invalid
  <2>7. \A t \in TxnIds : /\ InsertPending(t, x) => Ending(t)
                          /\ DeletePending(t, x) => Ending(t)
    BY DEF InsertPending, DeletePending, Ending, Committing
  <2>8. BeginVisible(m, c, readTs[c]) <=> Counts(w, c)
    <3>1. CASE w = c
      BY <2>1, <2>3, <2>4, <2>5, <3>1 DEF BeginOf, BeginVisible, Counts
    <3>2. CASE w # c
      <4>1. m.bTxn # c
        BY <2>3, <2>4, <2>5, <2>6, <3>2 DEF BeginOf
      <4>2. /\ m.bTs # Invalid => state[w] = "committed" /\ m.bTs = commitTs[w]
            /\ state[w] = "committed" /\ m.bTs = Invalid => Ending(w)
        BY <2>3, <2>4, <2>5, <2>7 DEF BeginOf
      <4>3. Counts(w, c) <=> m.bTs # Invalid /\ m.bTs <= readTs[c]
        BY <1>1, <2>1, <3>2, <4>2, CountsByStamp
      <4> QED
        BY <4>1, <4>3 DEF BeginVisible
    <3> QED
      BY <3>1, <3>2
  <2>9. EndEffective(m, c, readTs[c]) <=> \E d \in Deleters(x) : Counts(d, c)
    <3>1. CASE Deleters(x) = {}
      BY <2>3, <2>4, <3>1 DEF EndOf, EndEffective
    <3>2. CASE Deleters(x) # {}
      <4>1. PICK d \in TxnIds : Deleters(x) = {d}
        BY <3>2 DEF Contested, Deleters
      <4>2. /\ m.eTxn = d \/ (m.eTxn = Invalid /\ state[d] # "committed")
            /\ state[d] = "running" /\ ~Undoing(d) => m.eTxn = d
            /\ m.eTs # Invalid => state[d] = "committed" /\ m.eTs = commitTs[d]
            /\ state[d] = "committed" /\ m.eTs = Invalid => DeletePending(d, x)
        BY <2>3, <2>4, <4>1 DEF EndOf
      <4>3. CASE d = c
        BY <2>1, <2>6, <4>1, <4>2, <4>3 DEF EndEffective, Counts
      <4>4. CASE d # c
        <5>1. Counts(d, c) <=> m.eTs # Invalid /\ m.eTs <= readTs[c]
          BY <1>1, <2>1, <2>7, <4>2, <4>4, CountsByStamp
        <5> QED
          BY <2>6, <4>1, <4>2, <4>4, <5>1 DEF EndEffective
      <4> QED
        BY <4>3, <4>4
    <3> QED
      BY <3>1, <3>2
  <2>10. OnPage(x)
    BY <2>2, <2>5 DEF SnapParts, Shape, Placed, Inserted
  <2> QED
    BY <2>1, <2>4, <2>5, <2>8, <2>9, <2>10 DEF Sees, IsVisible, OnPage, Promised
<1> QED
  BY <1>1, MvccInvariant, SnapshotInvariant, PTL
=============================================================================
