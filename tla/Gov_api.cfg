SPECIFICATION Spec
CONSTANTS
  Requests = {q1, q2, q3, q4}
  Records = {r1, r2}
  Users = {u1}
  Values = {v1}
  MaxFactor = 2
  Ops = {"submit", "approve", "reject", "delete", "restore", "recalculate", "activate_factor"}
  Ingested = {"DRAFT"}
  NoUser = NoUser
SYMMETRY Symmetry
INVARIANTS
  VersionsContiguous
  OneCurrentCalculation
  AuditReplaysRecord
  AuditNamesVersions
  ChainVerifies
  ChainLinked
  HeldReadingsCurrent
PROPERTIES
  ChainIsALedger
  RecordsFollowLifecycle
CHECK_DEADLOCK FALSE
