SPECIFICATION FairSpec
CONSTANTS
  Workers = {w1, w2}
  Subjects = {record, report}
  Periods = {report}
  Budget = 2
  MaxCost = 2
  MaxEvents = 2
INVARIANTS
  TypeOK
  BackstopUnused
  BudgetHeld
  SpendBooked
  LateCallsBounded
  OutputOnce
  AnswersOwnPrompt
PROPERTIES
  OutputRecovered
  CallsEnd
CHECK_DEADLOCK FALSE
