CONSTANTS
  p1 = p1
  p2 = p2
  ta = ta
  tg = tg
  w1 = w1
  w2 = w2
  None = None
  Procs = {p1, p2}
  MaxTime = 2
  Targets <- TargetLists
  Lifetimes = {1}
  LeaseTime = 1
  MaxRuns = 2
  Tasks = {ta, tg}
  Action <- Actions
  SevenTeams = TRUE
  Duration <- Durations
  LeaseTicks = 3
  RenewTicks = 1
  CallTicks = 3
  MaxFaults = 2
  Workers = {w1, w2}
  Scopes = {{"website", "repository"}}
SPECIFICATION Spec
CHECK_DEADLOCK FALSE
PROPERTY WorkEnds
