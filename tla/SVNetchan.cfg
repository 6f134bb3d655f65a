SPECIFICATION FairSpec
CONSTANTS
  Byte <- MCByte
  FRAGMENT_SIZE = 2
  NoMessage = NoMessage
  Messages <- MCMessages
  MaxMessages = 3
INVARIANTS
  IInv
  Fifo
  Intact
  SentComplete
PROPERTIES
  ChannelSpec
  EventuallySent
CHECK_DEADLOCK FALSE
