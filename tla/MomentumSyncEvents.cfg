CONSTANTS
  Nodes = {n1}
  Primary = n1
  MaxHeight = 3
  TxHeights = {2}
  BatchSize = 2
  MaxLinks = 1
  MaxFaults = 0
  MaxCrashes = 1
  MaxTools = 0
SPECIFICATION Spec
INVARIANT EventsAtLeastOnce
CHECK_DEADLOCK FALSE
