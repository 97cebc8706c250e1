SPECIFICATION SysSafety
CONSTANTS
  EndPoint <- MCOne
  Addr <- MCOneAddr
  Host <- MCOneHost
  HandshakeValue = {1}
  Datagrams <- MCDatagrams
  NoReply = NoReply
  NotListed = NotListed
  REAP_INTERVAL = 7
  Slack = 0
  mMax = 1
  MaxPackets = 99
  MaxTime = 60
  QueueLimit = 1
  DEBUG = FALSE
  ExecuteSet = FALSE
  Rounds = 5
  Pause = 5
  Wait = 10
  RoundTime = 2
  Ordered = FALSE
  Interruptible = FALSE
  MaxRepeats = 0
  MaxLosses = 0
  MaxFailures = 0
INVARIANTS
  UnlistedAtLastTerminate
CHECK_DEADLOCK FALSE
