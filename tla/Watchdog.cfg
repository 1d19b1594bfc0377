CONSTANTS
  NumNodes = 3
  Genesis <- MCGenesis
  NoChain = "none"
  UnhealthyStreak = 2
  UnhealthyStreakForReady = 2
  FailbackStreak = 2
  MaxStreak = 2
  MaxErrors = 1
SPECIFICATION FairSpec
INVARIANTS
  TypeOK
  StaysOnChain
  FailbackEarned
PROPERTIES
  FailsOver
  FailsBack
  ReadyzFollows
