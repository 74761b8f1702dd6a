CONSTANTS
  a = a  b = b
  NoData = NoData
  Data = {a, b}
  Size = 3
  Program <- MCProgram
SPECIFICATION PosixSpec
INVARIANTS
  BarrierHolds
CHECK_DEADLOCK FALSE
