SPECIFICATION MCSpec
CHECK_DEADLOCK FALSE
SYMMETRY Symmetry
CONSTANTS
  first = first
  second = second
  file = file
  remote = remote
  table1 = table1
  table2 = table2
  notJson = notJson
  Programs = {first, second}
  Blocks = 2
  MaxInodes = 2
  Locations = {file}
  Identifiers = {table1, table2}
  Broken = notJson
  RemoteLists <- Lists
  Period = 1
  Day = 2
  MaxClock = 3
INVARIANTS
  PartsForCause
  LockHeldForCause
PROPERTIES
  RowsRight
