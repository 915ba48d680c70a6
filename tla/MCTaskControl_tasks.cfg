CONSTANTS
  t1 = t1
  t2 = t2
  u1 = u1
  u2 = u2
  c1 = c1
  block = block
  observe = observe
  None = None
  Tasks = {t1, t2}
  Users = {u1, u2}
  Creators = {u1, u2}
  Approvers = {u1, u2}
  Connectors = {c1}
  Actions = {block, observe}
  Requests = {1, 2}
  Risk <- MCRisk
  LeaseTime = 1
  ApprovalTime = 1
  MaxTime = 3
  MaxLeases = 2
SPECIFICATION MCSpec
SYMMETRY Symmetry
INVARIANTS
  CriticalAuthority
  SafetyStopsWork
  LeasedWithinProvision
  ResultFromLatestLease
CONSTRAINT InPart
