CONSTANTS
  WRITE_TIMEOUT = 2
  Usage = {"halt_fails"}
SPECIFICATION FairAppSpec
INVARIANTS
  QuietReset
  ResultOfImage
PROPERTIES
  DataKept
  CommandHandled
