SPECIFICATION SysSafety
CONSTANTS
  EndPoint <- MCTwo
  Addr <- MCTwoAddr
  Host <- MCTwoHost
  HandshakeValue = {1}
  Datagrams <- MCDatagrams
  NoReply = NoReply
  NotListed = NotListed
  REAP_INTERVAL = 3
  Slack = 1
  mMax = 1
  MaxPackets = 99
  MaxTime = 21
  QueueLimit = 1
  DEBUG = FALSE
  ExecuteSet = FALSE
  Rounds = 3
  Pause = 2
  Wait = 8
  RoundTime = 1
  Ordered = TRUE
  Interruptible = TRUE
  MaxRepeats = 0
  MaxLosses = 0
  MaxFailures = 1
INVARIANTS
  SilentAreGone
PROPERTIES
  StaysListed
CHECK_DEADLOCK FALSE
