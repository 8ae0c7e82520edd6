CONSTANTS
  CdId = {d1, d2}
  Key = {k1, k2, k3}
  Desc = {x, y}
  Types = {"name"}
  NoDoc = NoDoc
SPECIFICATION Spec
SYMMETRY Symmetry
INVARIANTS CrashSafe WholeUnlessTorn
PROPERTY DeletedStaysDeleted
