CONSTANTS
  a = a  b = b
  NoData = NoData
  Data = {a, b}
  Size = 3
  Program <- MCProgram
SPECIFICATION FairSpec
PROPERTIES
  BarrierReturns
CHECK_DEADLOCK FALSE
