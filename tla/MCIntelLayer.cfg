SPECIFICATION Spec
CONSTANTS
  Structure <- MCStructure
  PageBits = 2
  Layers <- MCLayers
  Calls <- MCCalls
  Dumps <- MCDumps
  Writes <- MCWrites
  MaxCalls = 2
INVARIANTS
  MapsByteByByte
  DumpMarksHoles
PROPERTY MappingReturns
CHECK_DEADLOCK FALSE
