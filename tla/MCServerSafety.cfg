SPECIFICATION MCSpec
CONSTANTS
  j1 = j1
  j2 = j2
  w1 = w1
  w2 = w2
  k1 = k1
  Jobs = {j1, j2}
  Workers = {w1, w2}
  NoWorker = NoWorker
  Keys = {k1}
  NoKey = NoKey
  KeyOf <- SharedKey
  Lanes = {"heavy"}
  LaneOf <- HeavyPair
  Capacity <- OneSlot
  Priority <- UrgentSecond
  Lease = 1
  MaxStall = 1
  MaxAttempts = 2
  MaxRetries = 1
  MaxFaults = 1
  e1 = e1
  e2 = e2
  a1 = a1
  NoFile = NoFile
  NoRow = NoRow
  Ebooks = {e1, e2}
  Audios = {a1}
  MaxContents = 2
  MaxMoves = 1
  MaxOutages = 1
  MaxInterruptions = 0
  MaxRequests = 1
  MaxDecisions = 1
  Slots = 2
SYMMETRY WorkerSymmetry
PROPERTIES LeaseIsRespected ImplementsLedger DecisionsSurvive
CHECK_DEADLOCK FALSE
