SPECIFICATION FairSpec
CONSTANTS
  Workers = {w1}
  Files = {"partial", "broken", "overflow"}
  Faults = {"storage", "broker", "database", "cache", "crash", "slow", "mail"}
  MaxFaults = 2
  MaxRetries = 1
  MaxRedeliveries = 0
  MaxReplays = 0
INVARIANTS
  CalculatedMeansCalculated
PROPERTIES
  SuccessStands
  BatchSettles
CHECK_DEADLOCK FALSE
