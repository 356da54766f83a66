SPECIFICATION Spec
CONSTANTS
  Requests = {r1, r2}
  Overlap = FALSE
  MaxDeaths = 0
  Units = {u1, u2}
  MaxMoves = 2
  t1 = t1
  t2 = t2
  t3 = t3
  p1 = p1
  p2 = p2
  Tasks = {t1, t2, t3}
  Projects = {p1, p2}
  ProjectOf <- SplitTasks
  MayPrecede <- AnyOrder
  Spellings = {"stored", "otherwise"}
  Users = {ann}
  Roles = {engineer}
  MaxSessions = 3
  MaxResets = 2
  MaxPasswords = 2
  Channels <- Three
  Secrets = {x1, x2}
  Bodies <- PageBodies
  Sites = {a, b}
  NoSite = NoSite
  EditedRoles = {"Auditor", "Own"}
SYMMETRY Symmetry
INVARIANT TypeOK
INVARIANT RevocationReachesAll
INVARIANT OneHeir
INVARIANT PermissionStaysInItsProject
INVARIANT OpenableIsListed
PROPERTY OnlyOtherSpellingsCloseCycles
PROPERTY LedgerKept
PROPERTY SecretsChangeOnRequest
CHECK_DEADLOCK FALSE
