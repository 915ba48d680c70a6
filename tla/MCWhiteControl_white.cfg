CONSTANTS
  Controllers = {c1, c2}
  Requests = {r1, r2}
  MaxInstant = 1
  Severities = {"advisory", "mandatory"}
  MaxRecords = 5
SYMMETRY Interchangeable
CONSTRAINT ShortRaces
CHECK_DEADLOCK FALSE
SPECIFICATION Spec
INVARIANTS
  ForkDetected
  StopHoldsUntilAdvisory
  CleanScoreIsClean
