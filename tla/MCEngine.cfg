CONSTANTS
  Torrents = {t1}
  FileCount = 2
  Callers = {c1, c2}
  Loop = loop
  MaxAdds = 2
  MaxRefusals = 1
  MaxQueue = 1
SPECIFICATION Spec
INVARIANT TypeOK
INVARIANT PreparingHolds
INVARIANT DataOnDiskKnown
INVARIANT EntriesMatchClient
PROPERTY HiddenUntilFinished
SYMMETRY CallerSymmetry
CONSTRAINT FirstLife
CHECK_DEADLOCK FALSE
