CONSTANTS
  Handles = {h1, h2}
  DMA_ALL_CHANNEL_NUM = 2
  NULL = NULL
  Usage = {}
SPECIFICATION FairSpec
INVARIANTS
  OwnsChannel
  HandlerHasHandle
  BusyMeansTransfer
  StatusTellsOutcome
PROPERTIES
  WaitReturns
