SPECIFICATION Spec
CONSTANTS
  MaxSpawns = 1
  MaxRestarts = 1
  MaxChanges = 1
  MaxServerMessages = 5
  MaxClientMessages = 4
INVARIANT IdOfCurrentMap
CHECK_DEADLOCK FALSE
