SPECIFICATION FairSpec
CONSTANTS
  Tabs = {t1, t2}
  DataCalls = {c1, c2}
  MaxCalls = 2
  MaxFaults = 1
  MaxLogins = 1
  MaxExpiries = 2
INVARIANTS
  SessionKept
PROPERTIES
  EveryCallSettles
CHECK_DEADLOCK FALSE
