SPECIFICATION Spec
CONSTANTS
  Size = 2
  Capacity = 1
  MaxSlots = 3
  MaxPayload = 2
  a1 = a1
  a2 = a2
  a3 = a3
  b1 = b1
  Requests <- MCRequests
  Owner <- MCOwner
  Polled <- MCPolled
  Program <- MCProgram
INVARIANT TestTruthful
