CONSTANTS
  x1 = x1
  t1 = t1
  ann = ann
  bob = bob
  eve = eve
  wim = wim
  i1 = i1
  i2 = i2
  p1 = p1
  p2 = p2
  None = None
  Exercises = {x1}
  Tests = {t1}
  Actors = {ann, bob, eve, wim}
  Stages = {"prevented", "logged"}
  EvidenceIds = {i1, i2}
  Commands <- Lifecycle
  Procs = {p1, p2}
  Owner <- MCOwner
  Cases <- MCCases
SPECIFICATION Spec
SYMMETRY Symmetry
CONSTRAINT OwnPlans
CHECK_DEADLOCK FALSE
INVARIANTS
  CommandAppliedOnce
  HistoryIsPath
  VerifiedIndependently
  VerifiedIsComplete
