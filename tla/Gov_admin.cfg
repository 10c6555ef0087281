SPECIFICATION Spec
CONSTANTS
  Requests = {q1, q2, q3}
  Records = {r1}
  Users = {u1}
  Values = {v1, v2}
  MaxFactor = 1
  Ops = {"approve", "admin_edit", "delete_user"}
  Ingested = {"DRAFT"}
  NoUser = NoUser
SYMMETRY Symmetry
INVARIANTS
  TypeOK
  NoDeadlock
  LatestVersionIsRecord
PROPERTIES
  WorkflowRespected
CHECK_DEADLOCK FALSE
