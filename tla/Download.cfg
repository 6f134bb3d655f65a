SPECIFICATION FairSpec
CONSTANTS
  Blocks <- MCBlocks
  Refused = {3}
  MAX_DOWNLOAD_WINDOW = 3
  MAX_RELIABLE_COMMANDS = 4
  BlockModulus = 4
  InFlight = 4
INVARIANTS
  IInv
  InStep
  FileIntact
  WindowFits
PROPERTY Finishes
CHECK_DEADLOCK FALSE
