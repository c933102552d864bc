CONSTANTS
  Tables = {t1, t2, t3, t4}
  Capacity = 3
  Users = {u1, u2, u3}
  OpenFails = TRUE
  NoTable = NoTable
  NoFrame = NoFrame
  NoFile = NoFile
SPECIFICATION Spec
INVARIANTS TypeOK RightFile PinsExact FramesAccounted
SYMMETRY Symm
