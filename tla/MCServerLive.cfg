SPECIFICATION MCSpec
CONSTANTS
  e1 = e1
  a1 = a1
  NoFile = NoFile
  NoRow = NoRow
  Ebooks = {e1}
  Audios = {a1}
  WalkOrder <- OneEach
  Similar <- AllSimilar
  MaxContents = 2
  MaxMoves = 0
  MaxOutages = 1
  MaxInterruptions = 1
  MaxRequests = 0
  MaxDecisions = 1
  Slots = 1
  j1 = j1
  j2 = j2
  w1 = w1
  k1 = k1
  QueuedJobs = {j1, j2}
  Workers = {w1}
  NoWorker = NoWorker
  Keys = {k1}
  NoKey = NoKey
  Lanes = {"heavy"}
  Lease = 1
  MaxStall = 1
  MaxAttempts = 2
  MaxRetries = 0
  MaxFaults = 2
INVARIANTS UnfinishedBooksAreScheduled
PROPERTIES AppliedScanFindsBooks LibraryConverges EveryJobSettles
CHECK_DEADLOCK FALSE
