CONSTANTS
  Torrents = {t1}
  FileCount = 2
  Callers = {c1}
  Loop = loop
  MaxAdds = 1
  MaxRefusals = 0
  MaxQueue = 1
SPECIFICATION Spec
INVARIANT DataRechecked
CHECK_DEADLOCK FALSE
