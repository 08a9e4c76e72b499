SPECIFICATION MCSpec
CHECK_DEADLOCK FALSE
CONSTANTS
  Addresses = {0, 1, 2, 3, 4, 5, 6, 7, 8, 9, 10, 11}
  WordBits = 3
  Holes <- MCHoles
  AreaMin = 4
  AreaMax = 30
  LastSize = 3
  EhdrSize = 2
INVARIANTS
  FilesDescribed
PROPERTIES
  FilesReturn
