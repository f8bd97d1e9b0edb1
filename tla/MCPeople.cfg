SPECIFICATION MCSpec
CONSTANTS
  u1 = u1
  u2 = u2
  b1 = b1
  p1 = p1
  p2 = p2
  Users = {u1, u2}
  Browsers = {b1}
  Pages = {p1, p2}
  Home <- OneBrowser
  Skew <- ClocksRight
  MaxCorrection = 1
  FutureSkew = 1
  NoOne = NoOne
  NoRow = NoRow
  MaxSeq <- OneEach
  MaxClock = 1
  MaxResets = 0
  MaxSignIns = 2
  MaxSignOuts = 1
  MaxLosses = 1
  MaxDeaths = 1
  MaxReturns = 0
  MaxMessages = 1
  Spots = {0, 1, 4, 7, 12}
  Ahead = 4
  Back = 2
  Rejoin = 1
  SettledAfter = 1
  LongestStep = 2
  LeftAfter = 3
  StaleAfter = 3
  MaxThreads = 2
  MaxSpotClock = 4
  MaxSteps = 5
  MaxForgets = 1
  Names = {n1, n2, n3}
  Residents = {n1, n2}
  Proxied = {n3}
  ProxyAdmins = {}
  Emails = {m1}
  Links = {l1}
  NoAccount = NoAccount
  NoLink = NoLink
  MaxInvites = 2
  MaxAsks = 2
  MaxHashing = 2
  MaxActs = 5
  People = {n1, n2}
  Nobody = Nobody
  Ttl = 3
  Grace = 1
  MaxCodes = 1
  MaxKeys = 3
  MaxCodeTime = 3
  MaxAnswers = 3
  MaxBans = 2
  Gap = 2
  StepCap = 1
  Pace = 1
  Floor = 1
  Jitter = 0
  MaxBack = 1
  Lead = 0
  Keep = 1
  Recent = 1
  Positions = {0, 1, 3}
  Start = 1
  Unmeasured = Unmeasured
  Today = 3
  MaxTime = 5
  MaxEvents = 3
  MaxDiaryResets = 1
  MaxStarts = 1
  MaxClears = 1
INVARIANTS RowsAreOwn QueuedIsKept DiaryIsTheHistory ReadingIsMeasured LastAdminIsKept DoorsOpenOnce CodesEnd FriendsAgreed
PROPERTY GlancesTakeNoPlace
SYMMETRY Alike
CHECK_DEADLOCK FALSE
