SPECIFICATION Spec
CONSTANTS
  Tenants = {n1}
  Slots = {s1, s2}
  Clicks = {k1}
  NoTenant = NoTenant
  PageSize = 1
  MaxJobs = 2
  MaxMoves = 2
  MaxFailures = 1
  Parts = {structure, units}
  Saves = {a1, a2}
  Mount = Mount
  MaxStored = 3
  MaxLosses = 1
INVARIANT TypeOK
INVARIANT OnePoller
INVARIANT SpinnersEnd
INVARIANT WholeOrWaiting
PROPERTY TimeNeverGoesBack
PROPERTY SetupEndsOnScreen
PROPERTY SavedIsOnScreen
CHECK_DEADLOCK FALSE
