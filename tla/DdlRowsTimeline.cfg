\* One name, several tables: their columns run together.
CONSTANTS
  SchemaNames = {"s"}
  Names = {"t", "u"}
  ColumnNames = {"a", "b"}
  Start <- SmallCatalog
  MaxSnapshot = 2
  MaxOps = 2
  MaxTotal = 3
  MaxColumn = 4
  Null = Null
  Scopes = {"schema", "table"}
SPECIFICATION Spec
INVARIANTS
  OneTimeline
CHECK_DEADLOCK FALSE
