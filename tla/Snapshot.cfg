SPECIFICATION Spec
CONSTANTS
  PACKET_BACKUP = 5
  numSnapshotEntities = 8
  MAX_PARSE_ENTITIES = 4
  ParseMargin = 2
  MaxEntities = 3
  Sizes <- SizesByNumber
  OthersEntities = 6
  Busy = {6}
  MaxSpawns = 1
  MaxRestarts = 1
  MaxServerMessages = 8
  InFlight = 1
INVARIANTS
  Inv
  SnapshotIntact
CHECK_DEADLOCK FALSE
