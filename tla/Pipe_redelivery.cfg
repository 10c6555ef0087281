SPECIFICATION Spec
CONSTANTS
  Workers = {w1, w2}
  Files = {"clean"}
  Faults = {"storage", "broker", "database", "crash"}
  MaxFaults = 1
  MaxRetries = 1
  MaxRedeliveries = 1
  MaxReplays = 1
SYMMETRY Symmetry
INVARIANTS
  TypeOK
  SuccessHasRows
PROPERTIES
  PromiseKept
CHECK_DEADLOCK FALSE
