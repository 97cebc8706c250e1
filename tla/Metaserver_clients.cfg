SPECIFICATION ObservedSpec
CONSTANTS
  EndPoint <- MCSharedHost
  Addr <- MCAddr
  Host <- MCSharedHostHost
  HandshakeValue = {1, 2}
  Datagrams <- MCClientDatagrams
  NoReply = NoReply
  NotListed = NotListed
  REAP_INTERVAL = 1
  Slack = 0
  mMax = 1
  MaxPackets = 4
  MaxTime = 3
  QueueLimit = 1
  DEBUG = FALSE
  ExecuteSet = TRUE
PROPERTIES
  ClientsImplemented
CHECK_DEADLOCK FALSE
