SPECIFICATION Spec
CONSTANTS
  TableNames = {t, u}
  IndexNames = {i, j}
  PageCapacity = 1
  ColumnCounts = {2}
  MaxTables = 2
  MaxRows = 2
  MaxRestarts = 2
INVARIANTS TypeOK DirectoryExact ReloadExact PagesDisjoint ColumnsUnique IndexExact
SYMMETRY Names2
CHECK_DEADLOCK FALSE
