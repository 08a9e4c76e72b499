CONSTANTS
  Segments <- MCSegments
  Contents <- MCContents
  Reads <- MCReads
  WriteSpots <- MCWriteSpots
  CacheSize = 2
  MaxWrites = 2
SPECIFICATION Spec
INVARIANTS
  BytesWereThere
  FailureIsCurrent
  WriteReachesFirstHole
CHECK_DEADLOCK FALSE
