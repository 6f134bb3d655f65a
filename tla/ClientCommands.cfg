SPECIFICATION Spec
CONSTANTS
  MAX_RELIABLE_COMMANDS = 2
  Disconnect = Disconnect
  MaxCommands = 5
  MaxServerMessages = 4
  MaxClientMessages = 4
INVARIANTS IInv NeverLost DecodableBelowLimit
PROPERTY StreamSpec
CHECK_DEADLOCK FALSE
