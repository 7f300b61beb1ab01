SPECIFICATION Spec
CONSTANTS
  m1 = m1
  m2 = m2
  Msg <- MCMsg
  ClaudeFile = {c1, c2}
  CodexFile = {x1, x2}
  MaxTokens = 2
  Model <- MCModel
  ModelOf <- MCModelOf
  DefaultModel = "known"
  Embedded = {"known"}
  Live <- MCLive
  Usage = "usage"
  NoModel = "none"
  Nowhere = Nowhere
  NoRow = NoRow
  Unpriced = Unpriced
  MaxLines = 4
  MaxTables = 2
INVARIANTS
  WholeCopiesCountedAtTrueSize
  OnePriceList
  CodexModelIsItsOwn
PROPERTIES
  PriceLastsWithItsTable
CHECK_DEADLOCK FALSE
SYMMETRY Transcripts
