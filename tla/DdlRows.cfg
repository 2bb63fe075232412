\* Every sequence of three operations, cut into three snapshots in every way.
CONSTANTS
  SchemaNames = {"s"}
  Names = {"t", "u"}
  ColumnNames = {"a", "b"}
  Start <- SmallCatalog
  MaxSnapshot = 3
  MaxOps = 2
  MaxTotal = 3
  MaxColumn = 4
  Null = Null
  Scopes = {"schema", "table"}
SPECIFICATION Spec
INVARIANTS
  RowsReplay
  FollowersCanRebuild
  TicksWhereChanged
  StatusFollowsRows
  DiffsReplay
CHECK_DEADLOCK FALSE
