SPECIFICATION Spec
CONSTANTS
  Requests = {q1, q2, q3}
  Records = {r1}
  Users = {u1}
  Values = {v1}
  MaxFactor = 2
  Ops = {"submit", "approve", "recalculate", "activate_factor"}
  Ingested = {"DRAFT", "SUSPICIOUS", "FAILED"}
  NoUser = NoUser
PROPERTIES
  ApprovedCalculationFrozen
CHECK_DEADLOCK FALSE
