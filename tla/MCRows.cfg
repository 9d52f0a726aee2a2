CONSTANTS
  m1 = m1
  m2 = m2
  m3 = m3
  m4 = m4
  h = h
  i = i
  Magnets = {m1, m2, m3, m4}
  HashOf <- Proxies
  NoHash = nohash
  Sweepers = {s1, s2}
  MaxSweeps = 3
  MaxCrashes = 1
  Users = {u1, u2}
  First = u1
  UserRequests = {r1, r2}
  NoUser = nouser
  ListIds = {l1}
  Shows = {t1, t2}
  Edits = {x1, x2, x3}
  MaxPosition = 3
  Nowhere = nowhere
  Episodes = {e1, e2}
  Marks = {k1, k2}
SPECIFICATION RowsSpec
INVARIANT NoDuplicates
INVARIANT FeedFollows
INVARIANT RowsTypeOK
INVARIANT AdminRemains
INVARIANT NothingLeft
PROPERTY FinishedStays
INVARIANT OwnPosition
INVARIANT OrderStays
INVARIANT SeriesFollows
SYMMETRY SweeperSymmetry
CHECK_DEADLOCK FALSE
