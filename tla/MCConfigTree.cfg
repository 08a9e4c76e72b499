CONSTANTS
  table = table
  plugin = plugin
  Keys = {"a", "b"}
  Values = {"v"}
  Holders = {table, plugin}
  HolderPath <- MCHolderPath
  SetPaths <- MCSetPaths
  Sections <- MCSections
  MaxDepth = 3
  MaxCalls = 4
SPECIFICATION ConfigSpec
INVARIANTS
  TreeShaped
  LiveUnlessShadowed
PROPERTIES
  MergeKeepsValues
CHECK_DEADLOCK FALSE
