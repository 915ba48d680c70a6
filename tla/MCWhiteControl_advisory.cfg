CONSTANTS
  Controllers = {c1}
  Requests = {r1, r2}
  MaxInstant = 0
  Severities = {"advisory", "mandatory"}
  MaxRecords = 4
SYMMETRY Interchangeable
CONSTRAINT ShortRaces
CHECK_DEADLOCK FALSE
SPECIFICATION Spec
INVARIANTS
  MandatoryStopHolds
