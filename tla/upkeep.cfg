SPECIFICATION UpkeepSpec
CONSTANTS
  Tenants = {n1, n2}
  Procs = {p1, p2}
  MaxFile = 2
  MaxDeploys = 1
  MaxRollbacks = 1
  MaxDeaths = 1
SYMMETRY Symmetry
INVARIANT UpkeepTypeOK
INVARIANT LedgersNameTheTables
INVARIANT EveryTableIsPoliced
INVARIANT ActiveTenantIsWhole
CHECK_DEADLOCK FALSE
