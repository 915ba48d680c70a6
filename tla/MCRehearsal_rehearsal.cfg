CONSTANTS
  r1 = r1
  r2 = r2
  n1 = n1
  n2 = n2
  None = None
  Runners = {r1, r2}
  Nonces = {n1, n2}
  TTL = 1
  Retention = 3
  MaxEntries = 2
  MaxPause = 2
  AuthEnd = 6
  Records <- MCRecords
  MaxTime = 6
SPECIFICATION Spec
SYMMETRY Symmetry
INVARIANTS
  NonceAcceptedOnce
  RevocationStopsRun
