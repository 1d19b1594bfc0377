CONSTANTS
  Nodes = {n1, n2}
  Primary = n1
  MaxHeight = 3
  TxHeights = {2}
  BatchSize = 2
  MaxLinks = 2
  MaxFaults = 1
  MaxCrashes = 1
  MaxTools = 1
SPECIFICATION Spec
INVARIANTS
  TypeOK
  StaleSessionSignalled
  PrimedBeforeProcessing
  NoOtherLoss
  StartupBackfillRepairs
PROPERTIES
  CatchUpAppends
CHECK_DEADLOCK FALSE
