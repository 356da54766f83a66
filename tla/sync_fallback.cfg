SPECIFICATION Spec
CONSTANTS
  None = None
  Tenants = {t1}
  Keys = {k1, k2}
  KeptKeys = {k1, k2}
  Requests = {r1, r2}
  Workers = {w1}
  t1 = t1
  k1 = k1
  k2 = k2
  r1 = r1
  r2 = r2
  w1 = w1
  SyncMode = FALSE
  MigrationUrl = TRUE
  FaultKinds = {"build", "write", "redis", "web_crash"}
  MaxFaults = 2
  Attempts = 2
  MaxStalled = 1
SYMMETRY Symmetry
INVARIANT CompletedJobWasBuilt
