SPECIFICATION Spec
CONSTANTS
  CommandLines <- MCSpecified
  Address <- MCAddress
  INADDR_ANY = INADDR_ANY
  Ephemeral = Ephemeral
  Unparsable = Unparsable
  NoArgument = NoArgument
  None = None
  DEBUG = FALSE
INVARIANTS
  BindsAsSpecified
CHECK_DEADLOCK FALSE
