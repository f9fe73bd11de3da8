SPECIFICATION Spec
CONSTANTS
  WordMax = 3
  MaxItems = 3
INVARIANTS
  VerdictIsExact
  PeriodsCompose
CHECK_DEADLOCK FALSE
