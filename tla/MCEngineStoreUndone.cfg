CONSTANTS
  Torrents = {t1}
  Callers = {c1}
  Loop = loop
  MaxRequests = 2
  MaxEnds = 0
  MaxFailures = 0
SPECIFICATION Spec
INVARIANT LimitsCountFromResume
CHECK_DEADLOCK FALSE
