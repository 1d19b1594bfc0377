CONSTANTS
  Nodes = {n1, n2}
  Primary = n1
  MaxHeight = 2
  TxHeights = {2}
  BatchSize = 2
  MaxLinks = 3
  MaxFaults = 1
  MaxCrashes = 1
  MaxTools = 0
SPECIFICATION FairSpec
PROPERTIES
  StaleSessionEnds
  CatchUpReaches
CHECK_DEADLOCK FALSE
