CONSTANTS
  Torrents = {t1}
  FileCount = 1
  Callers = {c1}
  Loop = loop
  MaxAdds = 1
  MaxRefusals = 1
  MaxQueue = 1
  Readers = {r1, r2, r3}
  Addresses = {a1, a2, a3, a4}
  Null = null
  MaxAdded = 2
  MaxReplies = 2
SPECIFICATION LiveSpec
PROPERTY PreparationEnds
PROPERTY FinishedFilesShown
INVARIANT ReadersShare
INVARIANT AnswerOwed
PROPERTY PieceComes
CHECK_DEADLOCK FALSE
