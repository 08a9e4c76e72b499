SPECIFICATION MCSpec
CHECK_DEADLOCK FALSE
CONSTANTS
  head = head
  a = a
  b = b
  c = c
  null = null
  Elements <- MCElements
  Anchor = head
  Null = null
  Limit = 3
  MaxYields = 6
  MaxDepth = 2
  Token <- TokenTable
  Big = 4
  PerMarker = 2
  Sections <- SmallSections
  RelativeBase = 10
  Mask = 63
  MaxLookups = 2
  KernelText <- TextOf
  AreaOfModules <- ModulesArea
  PointerSize = 4
  MinimumSize = 3
  MaximumSize = 8
  MaxMembers = 2
  Askable <- Asked
INVARIANTS
  EachElementOnce
  WalkedToTheEnd
  TreesRead
  LookupsAnswered
