SPECIFICATION Spec
CONSTANTS
  MAX_RELIABLE_COMMANDS = 4
  MaxCommands = 6
  MaxServerMessages = 3
  MaxClientMessages = 2
INVARIANTS
  IInv
PROPERTIES
  StreamSpec
  CommandsBeforeSnapshot
  KeysAgreeBelowLimit
CHECK_DEADLOCK FALSE
