SPECIFICATION Spec
CONSTANTS
  Requests = {q1, q2}
  Records = {r1}
  Users = {u1}
  Values = {v1}
  MaxFactor = 1
  Ops = {"submit", "recalculate"}
  Ingested = {"DRAFT", "SUSPICIOUS", "FAILED"}
  NoUser = NoUser
INVARIANTS
  LatestVersionIsRecord
CHECK_DEADLOCK FALSE
