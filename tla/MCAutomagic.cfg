CONSTANTS
  pslist = pslist
  modules_ = modules_
  banners = banners
  Plugins = {pslist, modules_, banners}
  ModulePlugins = {pslist, modules_}
  Accepts <- MCAccepts
  Provided <- MCProvided
  Stackers <- MCStackers
  FileLayer = "file"
  Banners = {"intel", "custom"}
  KernelOffsets = {"intel"}
  MaxRuns = 4
SPECIFICATION Spec
INVARIANTS
  ModuleOfOnePiece
  StackIsMaximal
  OneStack
  UnmetForCause
PROPERTIES
  RunEnds
CHECK_DEADLOCK FALSE
