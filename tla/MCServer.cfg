SPECIFICATION MCSpec
CONSTANTS
  w1 = w1
  w2 = w2
  j1 = j1
  Processes = {w1, w2}
  NoOne = NoOne
  NoSync = NoSync
  NoCache = NoCache
  MaxAttempts = 2
  Stages = 2
  MaxReplacements = 1
  MaxDecisions = 2
  MaxRefusals = 1
  MaxMishaps = 1
  MaxEvents = 4
  MaxStalls = 1
  MaxTries = 3
  Waiting = {j1}
  Size = 3
  Enough = 2
  NoFile = NoFile
  MaxRequests = 2
  MaxRemovals = 1
  MaxFailures = 1
  MaxCrashes = 1
  Ebooks = {1, 3, 4}
  Audios = {2}
  Unknown = Unknown
  MaxLinks = 3
  MaxChoices = 3
INVARIANTS SyncIsOfQuietBooks CacheIsTrue HalfIsNoModel OneGroupPerTitle
PROPERTIES DecisionsStand ReadersAreNotSetBack ConfirmedIsSynced WaitersGoAgain WorksStayTogether
CHECK_DEADLOCK FALSE
