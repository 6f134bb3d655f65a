CONSTANTS
  Level = {1, 2}
  a = a
  b = b
  Item = {a, b}
  MadeOn <- MCMadeOn
  Nothing = Nothing
  MaxRuns = 3
SPECIFICATION Spec
INVARIANTS IInv AllThere Durable
PROPERTIES RestoreExact LostOnlyIf
CHECK_DEADLOCK FALSE
