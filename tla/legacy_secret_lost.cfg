SPECIFICATION Spec
CONSTANTS
  Requests = {r1}
  Overlap = FALSE
  MaxDeaths = 0
  Users = {ann}
  Roles = {engineer}
  MaxSessions = 0
  MaxResets = 0
  MaxPasswords = 0
  Channels <- Three
  Secrets = {x1}
  Bodies <- AnyBodies
PROPERTY ClearingLosesNothing
CHECK_DEADLOCK FALSE
