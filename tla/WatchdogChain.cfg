CONSTANTS
  NumNodes = 3
  Genesis <- MCGenesis
  NoChain = "none"
  UnhealthyStreak = 2
  UnhealthyStreakForReady = 2
  FailbackStreak = 2
  MaxStreak = 2
  MaxErrors = 0
SPECIFICATION FairSpec
PROPERTY NoCrossChain
CHECK_DEADLOCK FALSE
