CONSTANTS
  Promises = {p1}
  MaxParts = 2
  MaxSockets = 1
SPECIFICATION RequestsSpec
PROPERTY StreamingGoesOn
CHECK_DEADLOCK FALSE
