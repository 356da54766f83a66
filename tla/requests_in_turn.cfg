SPECIFICATION FairSpec
CONSTANTS
  None = None
  Tenants = {t1}
  Keys = {k1, k2, k3}
  KeptKeys = {k1, k2}
  Requests = {r1}
  Workers = {w1, w2}
  t1 = t1
  k1 = k1
  k2 = k2
  k3 = k3
  r1 = r1
  w1 = w1
  w2 = w2
  SyncMode = FALSE
  MigrationUrl = FALSE
  FaultKinds = {"build", "web_crash"}
  MaxFaults = 3
  Attempts = 2
  MaxStalled = 1
INVARIANT OneBuildAtATime
INVARIANT StrandedOnlyBeforeDispatch
PROPERTY LifecycleKept
PROPERTY ProvisioningSettles
