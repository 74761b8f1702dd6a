CONSTANTS
  connA = connA  connB = connB
  Conns = {connA}
  Listener = Listener
  Last = 1
  MaxTimeouts = 1
  MaxResends = 0
  MaxCopies = 0
SPECIFICATION Spec
INVARIANTS
  AckedIsWritten
CHECK_DEADLOCK FALSE
