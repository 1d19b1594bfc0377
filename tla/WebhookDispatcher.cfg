CONSTANTS
  Types = {"momentum", "account_block"}
  NumEndpoints = 3
  Filter <- MCFilter
  BadUrls = {3}
  MaxRetries = 1
  QueueSize = 2
  MaxEvents = 3
  Stoppers = {s1, s2}
SPECIFICATION FairSpec
INVARIANTS
  TypeOK
  DeliveredOrExhausted
PROPERTIES
  QuietAfterStop
  FeedSpec
  StopReturns
CHECK_DEADLOCK FALSE
