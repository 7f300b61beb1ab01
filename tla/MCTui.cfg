SPECIFICATION FairSpec
CONSTANTS
  NWindow = 2
  MaxRows = 2
  Opening <- MCOpening
  Slot <- MCSlot
  Flag = {cost}
  MaxChanges = 2
  MaxFaults = 1
INVARIANTS
  OneCadence
  GuardMeansReload
  SingleFlightOnceSettled
  ListIsCoherent
PROPERTY
  ScreenConverges
CHECK_DEADLOCK FALSE
