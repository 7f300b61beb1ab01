SPECIFICATION Spec
CONSTANTS
  Proc <- MCProc
  Writer <- MCWriter
  Row = {r1, r2}
  Inode = {i1, i2, i3}
  None = None
  Garbled = Garbled
  MaxFaults = 2
SYMMETRY MCSymmetry
INVARIANTS
  AlwaysWhole
PROPERTIES
  RefinesLedger
CHECK_DEADLOCK FALSE
