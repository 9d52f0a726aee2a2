CONSTANTS
  f1 = f1
  f2 = f2
  e1 = e1
  e2 = e2
  Entries = {e1}
  Files = {f1, f2}
  EntryOf <- OneFolder
  Sweepers = {s1, s2}
  Watchers = {w1}
  Nobody = nobody
  MaxChanges = 2
  MaxSweeps = 2
  r1 = r1
  r2 = r2
  SeriesTitle = st
  MovieTitle = mt
  Titles = {st, mt, other}
  Series = {st, other}
  Twin <- Twins
  NoTitle = notitle
  Torrents = {r1, r2}
  MediaFiles = {}
  Number <- Numbering
  Long = {r1, r2}
  Matchers = {j1, j2}
  Requests = {j1}
  MaxLives = 2
SPECIFICATION FilesSpec
INVARIANT FilesTypeOK
INVARIANT ShownWhenCounted
INVARIANT TrackedWhenQuiet
INVARIANT OneFullSweep
INVARIANT LinksFit
SYMMETRY FilesSymmetry
CHECK_DEADLOCK FALSE
CONSTRAINT ThreeThings
