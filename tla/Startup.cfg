SPECIFICATION Spec
CONSTANTS
  CommandLines <- MCCommandLines
  Address <- MCAddress
  INADDR_ANY = INADDR_ANY
  Ephemeral = Ephemeral
  Unparsable = Unparsable
  NoArgument = NoArgument
  None = None
  DEBUG = TRUE
INVARIANTS
  ListensOnValidPort
  PoliteDaemon
  FailureReported
  MessagesReadable
CHECK_DEADLOCK FALSE
