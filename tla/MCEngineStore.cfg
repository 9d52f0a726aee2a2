CONSTANTS
  Torrents = {t1}
  Callers = {c1}
  Loop = loop
  MaxRequests = 3
  MaxEnds = 2
  MaxFailures = 1
SPECIFICATION Spec
INVARIANT TypeOK
INVARIANT UploadIsPreparing
INVARIANT DirtyTells
INVARIANT Restartable
INVARIANT OwnResume
INVARIANT PendingCounts
PROPERTY StopKeeps
CONSTRAINT OneOddity
CONSTRAINT TwoAlerts
CHECK_DEADLOCK FALSE
