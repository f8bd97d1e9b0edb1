SPECIFICATION MCSpec
CONSTANTS
  k1 = k1
  Readers = {k1}
  MaxRevs = 4
  Grace = 2
  MaxRequest = 1
  MaxExtraction = 1
  MaxFaults = 2
  MaxCuts = 1
  t1 = t1
  t2 = t2
  ada = ada
  grace = grace
  Tabs = {t1, t2}
  Users = {ada, grace}
  First = ada
  Nobody = Nobody
  NoRecord = NoRecord
  Chunks = 3
  MaxEditions = 2
  MaxStarts = 2
  MaxAccounts = 3
  MaxMishaps = 2
  MaxActs = 1
  MaxChecks = 2
  MaxEvents = 4
INVARIANTS DirectoriesStay ClaimsAreTrue StoredIsListed NothingOutlivesSignOut
PROPERTIES OldVersionsGo PurgeEnds
