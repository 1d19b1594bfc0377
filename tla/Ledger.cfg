CONSTANTS
  MaxInt64 = 10
  Worlds <- MCWorlds
  BalanceLimit = 6
  PageSize = 1
  DayLength = 2
  DefaultPageSize = 1
  MaxPageSize = 2
SPECIFICATION Spec
INVARIANTS
  TypeOK
  InOrderExact
  BooksBalance
  PairedSymmetric
  DelegationHistory
  BalancesCurrent
  ReportMatchesHistory
  PagesComplete
PROPERTY ClosedStaysClosed
CHECK_DEADLOCK FALSE
