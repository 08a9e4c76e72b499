SPECIFICATION MCSpec
CONSTANTS
  NewRow <- MCNewRow
  Sources <- MCSources
  Renderings <- MCRenderings
  Yields <- MCYields
  Columns = 4
  Pattern = 7
  Plugins = 2
  Types = {1, 2}
  Absent = 9
  MaxCalls = 2
  MaxInserts = 1
  MaxNesting = 2
  MaxRows = 3
  Programs = {1, 2}
  JobLists <- MCJobLists
  FilesBefore <- MCFilesBefore
  ChunkSize = 2
INVARIANTS
  NodesAtTheirPaths
  YieldOrderKept
  PopulatedIsComplete
  WantedRowsInOrder
  PluginsHeard
CHECK_DEADLOCK FALSE
