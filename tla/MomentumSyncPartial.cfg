CONSTANTS
  Nodes = {n1}
  Primary = n1
  MaxHeight = 3
  TxHeights = {2}
  BatchSize = 2
  MaxLinks = 2
  MaxFaults = 0
  MaxCrashes = 0
  MaxTools = 0
SPECIFICATION Spec
INVARIANT StoredMomentumsComplete
CHECK_DEADLOCK FALSE
