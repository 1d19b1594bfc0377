CONSTANTS
  Clients = {c1, c2}
  Subjects = {"alice"}
  SubjectOf <- MCSubjectOf
  NoClient = none
  MaxHeight = 5
  FromHeights = {0, 2}
  BufSize = 1
  PerSubjectMax = 1
  ReplayMax = 2
  MaxTransit = 1
  Txs <- MCTxs
  Involves <- MCInvolves
  TxFilters = {"", "a"}
  TxFrom = {0, 1, 2, 3}
  TxBufSize = 2
  TxReplayMax = 2
  TxMaxTransit = 2
SPECIFICATION MCSpec
INVARIANTS
  TypeOK
  ChannelsCloseOnce
  CapExact
  NoOrphans
  GapFree
  LaggedNoticed
  TxExact
  TxPanicsOnlyAhead
SYMMETRY MCSymmetry
CHECK_DEADLOCK FALSE
