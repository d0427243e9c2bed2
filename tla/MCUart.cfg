CONSTANTS
  Task = {t1, t2, t3}
  UART_PACKET_SIZE = 2
  TIMEOUT = 2
  Sizes = {0, 1, 2, 3, 5}
  OS = "FREERTOS"
  NoTask = NoTask
  Top = t1
SPECIFICATION FairSpec
INVARIANTS
  InOnePiece
  SuccessMeansSent
PROPERTIES
  SendReturns
