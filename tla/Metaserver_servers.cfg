SPECIFICATION ObservedSpec
CONSTANTS
  EndPoint <- MCSharedHost
  Addr <- MCAddr
  Host <- MCSharedHostHost
  HandshakeValue = {1}
  Datagrams <- MCListingDatagrams
  NoReply = NoReply
  NotListed = NotListed
  REAP_INTERVAL = 1
  Slack = 1
  mMax = 1
  MaxPackets = 5
  MaxTime = 4
  QueueLimit = 1
  DEBUG = TRUE
  ExecuteSet = TRUE
INVARIANTS
  TypeOK
  UniqueActive
  BoundedStaleness
  PeakCoversLists
PROPERTIES
  ServersImplemented
  RegistrationOrder
  HookOnListChange
CHECK_DEADLOCK FALSE
