SPECIFICATION Spec
CONSTANTS
  Sources = {"SAP_FUEL", "UTILITY_ELECTRICITY", "CORP_TRAVEL"}
  Rows <- MCRows
  MaxRows = 3
  ValueLimit = 100000000
  Mappings <- MCMappings
  Factors <- MCFactors
INVARIANTS
  BadRowIsolated
  OutliersAreFew
  RowsAccountedFor
CHECK_DEADLOCK FALSE
