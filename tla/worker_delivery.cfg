SPECIFICATION Spec
CONSTANTS
  None = None
  Tenants = {t1}
  Keys = {k1, k2}
  KeptKeys = {k1}
  Requests = {r1}
  Workers = {w1, w2}
  t1 = t1
  k1 = k1
  k2 = k2
  r1 = r1
  w1 = w1
  w2 = w2
  SyncMode = FALSE
  MigrationUrl = FALSE
  FaultKinds = {"build", "ambiguous", "redis", "stall", "worker_crash", "web_crash"}
  MaxFaults = 3
  Attempts = 2
  MaxStalled = 1
SYMMETRY Symmetry
INVARIANT TypeOK
INVARIANT ActiveTenantIsBuilt
INVARIANT AttemptsAreDeliveries
INVARIANT DispatchedJobIsDurable
PROPERTY ActiveLostOnlyToFailingRun
