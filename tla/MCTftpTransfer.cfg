CONSTANTS
  connA = connA  connB = connB
  Conns = {connA, connB}
  Listener = Listener
  Last = 2
  MaxTimeouts = 1
  MaxResends = 1
  MaxCopies = 1
SPECIFICATION FairSpec
INVARIANTS
  TftpTypeOK
  DownloadFaithful
  UploadAcknowledged
PROPERTIES
  ConnectionsEnd
CHECK_DEADLOCK FALSE
