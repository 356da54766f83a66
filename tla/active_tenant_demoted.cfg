SPECIFICATION Spec
CONSTANTS
  None = None
  Tenants = {t1}
  Keys = {k1}
  KeptKeys = {k1}
  Requests = {r1}
  Workers = {w1}
  t1 = t1
  k1 = k1
  r1 = r1
  w1 = w1
  SyncMode = FALSE
  MigrationUrl = FALSE
  FaultKinds = {"build", "worker_crash"}
  MaxFaults = 2
  Attempts = 3
  MaxStalled = 1
PROPERTY ActiveTenantStaysActive
