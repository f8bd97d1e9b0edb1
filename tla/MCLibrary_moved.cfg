SPECIFICATION Spec
CONSTANTS
  e1 = e1
  e2 = e2
  NoFile = NoFile
  NoRow = NoRow
  Ebooks = {e1, e2}
  Audios = {}
  WalkOrder <- TwoEbooks
  Similar <- AllSimilar
  MaxContents = 1
  MaxMoves = 1
  MaxOutages = 0
  MaxInterruptions = 0
  MaxRequests = 0
  MaxDecisions = 0
  Slots = 1
PROPERTIES AppliedScanFindsBooks
CHECK_DEADLOCK FALSE
