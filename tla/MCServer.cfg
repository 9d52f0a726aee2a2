CONSTANTS
  Promises = {p1, p2}
  MaxParts = 2
  MaxSockets = 2
  Conns = {c1, c2}
  Handlers = {h1, h2}
  Sweeps = {w1}
  MaxWrites = 1
  NoOne = noone
  MaxTitle = 2
  Pollers = {q1}
  Askers = {b1}
  MaxAsked = 1
  MaxFailures = 1
SPECIFICATION ServerSpec
INVARIANT ServerTypeOK
INVARIANT EntryUntilSettled
INVARIANT WholeResult
PROPERTY KeepsPromises
INVARIANT OneWriter
INVARIANT LockGone
PROPERTY ConnectionCloses
PROPERTY EndsComplete
CHECK_DEADLOCK FALSE
