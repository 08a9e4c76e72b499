SPECIFICATION MCSpec
CHECK_DEADLOCK FALSE
CONSTANTS
  Names = {"A", "B"}
  Parts = {"x", "y"}
  Contents <- MCContents
  MaxCalls = 6
  ModuleNames <- MCModuleNames
  RequirementPaths <- MCRequirementPaths
  Places <- MCPlaces
  ModuleTables <- MCModuleTables
  AskedAt = {2, 3, 4, 5, 6}
  MaxModules = 3
INVARIANTS
  OnlyCurrentTypes
  AnswersRight
