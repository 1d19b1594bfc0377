CONSTANTS
  MaxInt64 = 10
  DefaultPageSize = 1
  MaxPageSize = 2
  Budgets <- MCBudgets
  RecipientOf <- MCRecipientOf
  Confs = 1
  Config <- MCConfig
  PageLen = 2
  NetPageLen = 1
SPECIFICATION Spec
INVARIANTS
  TypeOK
  NoHoles
PROPERTIES
  CleanPartRefreshes
  Converges
