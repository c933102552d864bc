CONSTANTS
  Sessions = {s1, s2}
  Tables = {t1}
  MaxTxns = 3
  MaxDeletes = 1
  Preloaded = 1
  MaxRows = 2
  NoMeta = NoMeta
  NoTxn = NoTxn
  NoRow = NoRow
  NoStmt = NoStmt
SPECIFICATION Spec
INVARIANTS DeleteSticks
SYMMETRY Symm
