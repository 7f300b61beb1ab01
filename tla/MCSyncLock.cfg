SPECIFICATION FairSpec
CONSTANTS
  Proc <- MCProc
  Daemon <- MCDaemon
  NoLock = NoLock
  TTL = 1
  MayOverrun = TRUE
  MaxRuns = 2
  MaxFaults = 2
INVARIANTS
  ExclusiveWhileFresh
PROPERTY
  SelfHeals
CHECK_DEADLOCK FALSE
