CONSTANTS
  t0 = t0  t1 = t1  t2 = t2
  m1 = m1  m2 = m2  m3 = m3  m4 = m4
  NoData = NoData
  Data = {m1, m2, m3, m4}
  Threads = {t0, t1, t2}
  Size = 3
  MaxSlots = 3
  MaxMessagesProc = 2
  MaxPayload = 2
  RankOf <- MCRankOf
  Program <- MCProgram
SPECIFICATION FairSpec
INVARIANTS
  IInv
  PermitsSuffice
  SlotExclusive
  NoSlotLost
  PermitsConserved
  DeliveryExact
PROPERTIES
  ImplementsMailbox
  AllReturn
