SPECIFICATION MCSpec
CHECK_DEADLOCK FALSE
CONSTANTS
  head = head
  null = null
  root = root
  x = x
  y = y
  l = l
  m = m
  other = other
  BufferSize = 12
  Lengths = {0, 1, 2}
  MaxRecords <- MaxRecordsOf
  DescCount = 4
  IdSpace = 8
  Entries <- MCEntries
  ListHead = head
  NoEntry = null
  Cells <- MCCells
  RootCell = root
  BlockLength = 2
  StackLimit = 9
INVARIANTS
  LogComplete
  HivesListed
  HiveWalked

