CONSTANTS
  TIMEOUT = 3
  Usage = {"chain", "handler", "handler_cus", "halt", "halt_fails"}
SPECIFICATION FairSpec
INVARIANTS
  FreeAgain
PROPERTIES
  ImplementsTransfer
  ChainedWriteFails
  CallReturns
