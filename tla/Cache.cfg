SPECIFICATION FairSpec
CONSTANTS
  Readers = {d1, d2}
  MaxWrites = 2
  MaxApprovals = 1
  MaxFaults = 1
INVARIANTS
  FreshWhileWarm
PROPERTIES
  StalenessEnds
CHECK_DEADLOCK FALSE
