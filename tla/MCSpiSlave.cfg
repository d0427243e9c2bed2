CONSTANTS
  WRITE_TIMEOUT = 6
  Usage = {"halt", "halt_fails"}
SPECIFICATION FairSpec
INVARIANTS
  PinLow
  FreeAgain
PROPERTIES
  ImplementsTransfer
  WriteReturns
