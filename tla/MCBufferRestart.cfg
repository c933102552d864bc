CONSTANTS
  NumFrames = 2
  MaxUsage = 2
  Tables = {t1}
  MaxPages = 3
  MaxVersions = 1
  Refs = {r1, r2}
  RestoredTables = {}
  Deletable = {}
  FetchedEmpty = {}
  Unwritable = {}
  NoPage = NoPage
  NoFrame = NoFrame
  NoRef = NoRef
  Absent = Absent
  Unset = Unset
SPECIFICATION Spec
INVARIANT NoLostPage
SYMMETRY Symm
