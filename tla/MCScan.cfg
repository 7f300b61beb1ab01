SPECIFICATION FairSpec
CONSTANTS
  Proc <- MCProc
  Daemon <- MCDaemon
  KindsOf <- MCKindsOf
  File <- MCFile
  Order <- MCOrder
  Owner <- MCOwner
  MaxTime = 2
  MaxLines = 1
  MaxRuns = 1
  MaxFaults = 1
INVARIANTS
  TypeOK
  HonestCheckpoint
PROPERTIES
  FullScanCovers
  Converges
CHECK_DEADLOCK FALSE
