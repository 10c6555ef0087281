SPECIFICATION Spec
CONSTANTS
  Requests = {q1, q2, q3}
  Records = {r1}
  Users = {u1, u2}
  Values = {v1}
  MaxFactor = 1
  Ops = {"submit", "recalculate", "delete_user"}
  Ingested = {"DRAFT"}
  NoUser = NoUser
INVARIANTS
  AlteredOnlyByUserDeletion
PROPERTIES
  EveryRequestAnswered
CHECK_DEADLOCK FALSE
