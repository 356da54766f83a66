SPECIFICATION Spec
CONSTANTS
  Requests = {r1, r2}
  Overlap = TRUE
  MaxDeaths = 1
  Users = {ann}
  Roles = {engineer}
  MaxSessions = 2
  MaxResets = 0
  MaxPasswords = 1
  Channels <- Three
  Secrets = {x1}
  Bodies <- PageBodies
SYMMETRY Symmetry
INVARIANT LockedOut
INVARIANT RolelessHasCause
PROPERTY ClearingLosesNothing
CHECK_DEADLOCK FALSE
