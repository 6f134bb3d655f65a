SPECIFICATION CLSpec
CONSTANTS
  Byte <- MCByte
  FRAGMENT_SIZE = 2
  NoMessage = NoMessage
  Messages <- MCMessages
  MaxMessages = 3
INVARIANT NetchanInv
PROPERTY CLChannelSpec
CHECK_DEADLOCK FALSE
