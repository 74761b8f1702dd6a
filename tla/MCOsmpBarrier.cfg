CONSTANTS
  a = a  b = b
  NoData = NoData
  Data = {a, b}
  Size = 3
  Program <- MCProgram
SPECIFICATION FairSpec
INVARIANTS
  BInv
  BarrierHolds
  BcastDelivered
PROPERTIES
  FirstBarrierReturns
  OrderlyBarrierReturns
CHECK_DEADLOCK FALSE
