CONSTANTS
  Node <- Names
  Specs <- MCSpecs
  Shapes <- MCShapes
  ManifestSets <- MCManifestSets
  Pools <- MCPools
  Dials <- MCDials
  Gates <- AllGates
  MaxNodes = 3
  MaxDepth = 3
  MaxFanout = 2
  MaxRevisions = 2
  MaxRebinds = 3
  Redeclares = FALSE
  Redeclarations = FALSE
SPECIFICATION Spec
CHECK_DEADLOCK FALSE
INVARIANT ExhaustedOnlyIfNoneAligns
