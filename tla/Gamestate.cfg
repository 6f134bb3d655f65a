SPECIFICATION Spec
CONSTANTS
  MaxSpawns = 1
  MaxRestarts = 1
  MaxChanges = 1
  MaxServerMessages = 5
  MaxClientMessages = 4
INVARIANTS
  Inv
PROPERTY ResendOnlyIfDropped
CHECK_DEADLOCK FALSE
