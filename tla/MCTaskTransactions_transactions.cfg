CONSTANTS
  t1 = t1
  u1 = u1
  c1 = c1
  observe = observe
  gate = gate
  h1 = h1
  h2 = h2
  r1 = r1
  r2 = r2
  None = None
  Tasks = {t1}
  Users = {u1}
  Creators = {u1}
  Approvers = {u1}
  Connectors = {c1}
  Actions = {observe, gate}
  Sessions = {h1, h2}
  Requests = {r1, r2}
  Ops = {"connect", "create", "decide", "safety", "revoke"}
  Levels = {"normal", "halted"}
  DryRuns = {FALSE}
  Risk <- MCRisk
  LeaseTime = 1
  ApprovalTime = 1
  MaxTime = 3
  MaxLeases = 2
  MaxAudit = 4
SPECIFICATION TSpec
SYMMETRY Symmetry
CHECK_DEADLOCK FALSE
CONSTRAINT Within
INVARIANTS
  AuditChain
  AnswerStillTrue
PROPERTIES
  ImplementsTaskControl
