CONSTANTS
  e1 = e1
  k1 = k1
  a1 = a1
  dom = dom
  sub = sub
  i1 = i1
  i2 = i2
  ann = ann
  bob = bob
  p1 = p1
  p2 = p2
  None = None
  Ids = {e1}
  Scanner = "clamav"
  Days = {0, 1}
  Keys = {k1}
  Assets = {a1}
  Domains = {dom, sub}
  Parent <- ParentDomain
  Policies <- Rules
  Invitations = {i1, i2}
  Emails = {ann, bob}
  Founder = ann
  Hours = {1}
  Procs = {p1, p2}
  MaxTime = 2
SPECIFICATION FairSpec
CHECK_DEADLOCK FALSE
PROPERTY InvitedBecomesMember
