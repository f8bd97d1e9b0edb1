SPECIFICATION MCSpec
CONSTANTS
  u1 = u1
  u2 = u2
  t1 = t1
  t2 = t2
  m1 = m1
  Users = {u1, u2}
  Tabs = {t1, t2}
  Marks = {m1}
  HasLocks = TRUE
  NoOne = NoOne
  NoTab = NoTab
  MaxChanges = 2
  MaxSignIns = 2
  MaxLoads = 1
  MaxEvents = 1
INVARIANTS NothingIsLost RefusedIsGone MadeOnce ViewIsWhole
PROPERTIES NeverBackward QueueDrains
CHECK_DEADLOCK FALSE
