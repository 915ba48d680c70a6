CONSTANTS
  r1 = r1
  r2 = r2
  s1 = s1
  s2 = s2
  t1 = t1
  t2 = t2
  d1 = d1
  d2 = d2
  d3 = d3
  d4 = d4
  h1 = h1
  h2 = h2
  p1 = p1
  p2 = p2
  c1 = c1
  v1 = v1
  g1 = g1
  g2 = g2
  ta = ta
  tt = tt
  tu = tu
  gone = gone
  doc = doc
  code = code
  prose = prose
  m1 = m1
  m2 = m2
  f1 = f1
  f2 = f2
  l1 = l1
  x1 = x1
  x2 = x2
  None = None
  RunIds = {r1, r2}
  Scopes = {s1, s2}
  Tasks = {t1, t2}
  Requests <- RedRequests
  Plan <- RedPlan
  MaxRequests = 2
  Events = {d1, d2, d3, d4}
  Time <- BlueTime
  Second = 2
  Named = 1
  Host <- BlueHost
  RuleFiles <- BlueRules
  MaxTime = 1
  Clients = {c1}
  Viewers = {v1}
  Gates = {g1}
  Assurance = {g2}
  Limit = 1
  MaxRuns = 2
  MaxRestarts = 1
  Kind <- ClaimKind
  Negative = {ta, prose}
  Home <- ClaimHome
  Spawner = tu
  Registers <- ClaimRegisters
  ReadinessGates = {g1}
  MaxEdits = 1
  Defects <- TwoDefects
  Place <- SamePlace
  Severity <- OneCritical
  Criteria <- WithCriteria
  MaxReports = 2
  MaxLedger = 3
  Teams = {x1, x2}
  Cards <- TeamCards
  Unit = 4
  Documents <- TeamDocuments
  MaxHistory = 2
  Procs = {p1, p2}
SPECIFICATION Spec
CHECK_DEADLOCK FALSE
CONSTRAINT SecondLife
INVARIANTS
  RunsWhatWasSigned
  RequestsBounded
  AlertJustified
  OrderedBurstSeen
  SnapshotIsTrue
  GreenIsEarned
  NeverInsideItself
  PassIsClean
  ImprovementIsReal
