SPECIFICATION Spec
CONSTANTS
  Event <- MCEvent
  Branch <- MCBranch
  Provider <- MCProvider
  TS <- MCTS
  BranchOf <- MCBranchOf
  Detached <- MCDetached
  ProviderOf <- MCProviderOf
  Rated <- MCRated
  NoBranch = "none"
  NoMark = NoMark
  Torn = Torn
  NoAttempt = NoAttempt
  MaxAttempts = 3
INVARIANTS
  TypeOK
  AtMostOnce
  StagedCoversMessage
PROPERTIES
  NoSilentSkip
  WatermarkForward
CHECK_DEADLOCK FALSE
