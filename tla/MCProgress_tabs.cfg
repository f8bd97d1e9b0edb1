SPECIFICATION MCSpec
CONSTANTS
  u1 = u1
  u2 = u2
  b1 = b1
  p1 = p1
  p2 = p2
  p3 = p3
  Users = {u1}
  Browsers = {b1}
  Pages = {p1, p2, p3}
  Home <- OneBrowser
  Skew <- ClocksSlow
  MaxCorrection = 1
  FutureSkew = 1
  NoOne = NoOne
  NoRow = NoRow
  MaxSeq <- Checkpoints
  MaxClock = 1
  MaxResets = 1
  MaxSignIns = 1
  MaxSignOuts = 1
  MaxLosses = 1
  MaxDeaths = 1
  MaxReturns = 1
  MaxMessages = 2
INVARIANTS ErasedStaysErased CausalityIsReal
PROPERTY SessionsMoveForward
CHECK_DEADLOCK FALSE
