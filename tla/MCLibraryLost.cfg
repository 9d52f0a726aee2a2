CONSTANTS
  f1 = f1
  f2 = f2
  e1 = e1
  e2 = e2
  Entries = {e1}
  Files = {f1}
  EntryOf <- JustOne
  Sweepers = {s1}
  Watchers = {w1}
  Nobody = nobody
  MaxChanges = 2
  MaxSweeps = 1
SPECIFICATION Spec
INVARIANT FilesTracked
CHECK_DEADLOCK FALSE
