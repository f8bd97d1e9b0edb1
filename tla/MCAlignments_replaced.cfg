SPECIFICATION Spec
CONSTANTS
  w1 = w1
  w2 = w2
  Processes = {w1}
  NoOne = NoOne
  NoSync = NoSync
  NoCache = NoCache
  MaxAttempts = 2
  Stages = 2
  MaxReplacements = 1
  MaxDecisions = 0
  MaxRefusals = 0
  MaxMishaps = 0
  MaxEvents = 4
  MaxStalls = 0
INVARIANT SyncIsOfTheseBooks
CHECK_DEADLOCK FALSE
