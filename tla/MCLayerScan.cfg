CONSTANTS
  Images <- MCImages
  Requests <- MCRequests
  ChunkSize = 3
  Overlap = 2
  Width = 2
  MaxPdbPages = 3
  MaxInvalid = 1
  OptimizedStart = 8
  FixedBase = 8
  LowStubSpan = 4
  LowStubChunk = 2
  PdbsAvailable = {"nt"}
  FirstIndex = 4
  Primitives <- MCPrimitives
SPECIFICATION MCSpec
INVARIANTS
  NothingOverlooked
  ReportedRightAndOnce
PROPERTIES
  CoalesceReturns
CHECK_DEADLOCK FALSE
