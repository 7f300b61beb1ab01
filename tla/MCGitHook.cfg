SPECIFICATION Spec
CONSTANTS
  MaxTouches = 3
  MaxFaults = 1
INVARIANTS
  SparesOthers
  RefusalIsAtomic
  InstallFires
  UninstallSilences
CHECK_DEADLOCK FALSE
