SPECIFICATION Spec
CONSTANTS
  u1 = u1
  u2 = u2
  b1 = b1
  p1 = p1
  p2 = p2
  p3 = p3
  Users = {u1, u2}
  Browsers = {b1}
  Pages = {p1, p2}
  Home <- OneBrowser
  Skew <- ClocksRight
  MaxCorrection = 1
  FutureSkew = 1
  NoOne = NoOne
  NoRow = NoRow
  MaxSeq <- Checkpoints
  MaxClock = 0
  MaxResets = 0
  MaxSignIns = 2
  MaxSignOuts = 1
  MaxLosses = 0
  MaxDeaths = 0
  MaxReturns = 0
  MaxMessages = 1
INVARIANT ReadingIsOwn
SYMMETRY AccountsAlike
CHECK_DEADLOCK FALSE
