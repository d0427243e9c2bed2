CONSTANTS
  ESP8266_SEND_MAX = 7
  PKT_MAX = 9
  JpgSizes = {5, 7, 9}
  META_SIZE = 3
  PayloadBytes = {0, 1}
  WINDOW = 10
  FrameIds = 4
  WriteFails = "one"
SPECIFICATION FairSpec
INVARIANTS
  TypeOK
  ShowsNextFrame
PROPERTIES
  KeepsShowing
