CONSTANTS
  Sessions = {s1, s2}
  Tables = {t1}
  MaxTxns = 3
  MaxDeletes = 1
  Preloaded = 1
  MaxRows = 3
  NoMeta = NoMeta
  NoTxn = NoTxn
  NoRow = NoRow
  NoStmt = NoStmt
SPECIFICATION Spec
INVARIANTS TypeOK SnapshotExact LatestSnapshot CommittedIsLogged RecoveryExact
SYMMETRY Symm
