CONSTANTS
  Nodes = {n1, n2}
  Primary = n1
  MaxHeight = 3
  TxHeights = {2}
  BatchSize = 2
  MaxLinks = 2
  MaxFaults = 0
  MaxCrashes = 0
  MaxTools = 1
SPECIFICATION Spec
INVARIANT CountersAddedOnce
CHECK_DEADLOCK FALSE
