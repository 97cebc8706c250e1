SPECIFICATION SysSpec
CONSTANTS
  EndPoint <- MCOne
  Addr <- MCOneAddr
  Host <- MCOneHost
  HandshakeValue = {1}
  Datagrams <- MCDatagrams
  NoReply = NoReply
  NotListed = NotListed
  REAP_INTERVAL = 1
  Slack = 1
  mMax = 1
  MaxPackets = 99
  MaxTime = 3
  QueueLimit = 1
  DEBUG = FALSE
  ExecuteSet = FALSE
  Rounds = 1
  Pause = 1
  Wait = 2
  RoundTime = 8
  Ordered = FALSE
  Interruptible = FALSE
  MaxRepeats = 1
  MaxLosses = 1
  MaxFailures = 1
INVARIANTS
  SysTypeOK BogusExplained UnlistedUnlessDisturbed
PROPERTIES
  ScriptsEnd
CHECK_DEADLOCK FALSE
