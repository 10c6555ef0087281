SPECIFICATION Spec
CONSTANTS
  Importers = {i1, i2}
  Commands <- MCCommands
  Contents <- MCContents
  Parent <- MCParent
  Conversions <- MCConversions
  Policies <- MCPolicies
  Dates = {1, 2}
  MaxImports = 3
  MaxEdits = 1
SYMMETRY Symmetry
INVARIANTS
  ActiveBounded
  ActivatedStaysResolved
  RunsAgree
CHECK_DEADLOCK FALSE
