CONSTANTS
  NumFrames = 2
  MaxUsage = 1
  Tables = {t1}
  MaxPages = 2
  MaxVersions = 1
  Refs = {r1, r2}
  RestoredTables = {t1}
  Deletable <- LastPages
  FetchedEmpty = {t1}
  Unwritable <- LastPages
  NoPage = NoPage
  NoFrame = NoFrame
  NoRef = NoRef
  Absent = Absent
  Unset = Unset
SPECIFICATION Spec
INVARIANTS TypeOK HeldPageStays HandedOutOnce NoLostWrite CleanMeansSaved DirtyCountExact
PROPERTIES StoreSpec DirtyIsFlushed
