\* Two prefixes with one numbered name each, and at most two layers below a layer, which
\* is what the code's layers have (a base and a metadata layer, or memory and swap)
CONSTANTS
  NamePrefixes = {p, q}
  MaxIndex = 1
  MaxLayers = 3
  MaxDeps = 2
SPECIFICATION Spec
INVARIANTS
  RegistryUsable
  Acyclic
PROPERTIES
  UsedBindingStable
  FootprintsFixed
CHECK_DEADLOCK FALSE
