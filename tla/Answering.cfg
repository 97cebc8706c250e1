CONSTANTS
  MAX_MSG_LENGTH = 26
  MAXLINE = 26
  Sendable <- MCSendable
  Garbage <- MCGarbage
  DEBUG = FALSE
  Address = {16909060, 100}
  MaxServers = 4
SPECIFICATION AnsweringSpec
INVARIANTS ActsOnOwnType ArgumentIsOwn ResponseFits ClientUnpacksAnswer AnswersItsRequest
