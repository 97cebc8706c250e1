SPECIFICATION ObservedSpec
CONSTANTS
  EndPoint <- MCOnePortEach
  Addr <- MCAddr
  Host <- MCOnePortEachHost
  HandshakeValue = {1}
  Datagrams <- MCServerDatagrams
  NoReply = NoReply
  NotListed = NotListed
  REAP_INTERVAL = 1
  Slack = 0
  mMax = 1
  MaxPackets = 2
  MaxTime = 4
  QueueLimit = 1
  DEBUG = FALSE
  ExecuteSet = FALSE
INVARIANTS
  ReapedWithinTwoIntervals
CHECK_DEADLOCK FALSE
