SPECIFICATION Spec
CONSTANTS
  t1 = t1
  t2 = t2
  ada = ada
  grace = grace
  Tabs = {t1}
  Users = {ada, grace}
  First = ada
  Nobody = Nobody
  NoRecord = NoRecord
  Chunks = 1
  MaxEditions = 1
  MaxStarts = 1
  MaxAccounts = 1
  MaxMishaps = 0
  MaxActs = 1
  MaxChecks = 1
  MaxEvents = 4
PROPERTY OwnDownloadsAreKept
CHECK_DEADLOCK FALSE
