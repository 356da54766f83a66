SPECIFICATION Spec
CONSTANTS
  Requests = {r1, r2, r3}
  Overlap = TRUE
  MaxDeaths = 1
  Units = {u1}
  MaxMoves = 1
  Towers = {w1}
  Prefixes = {a, b}
  MaxFloor = 2
  PerFloor = {0, 1, 2, 3, NaN}
  NaN = NaN
  Limit = 2
  Projects = {p1, p2}
  Codes = {c1, c2}
  NoId = NoId
  Drawings = {d1, d2}
  Ids = {i1, i2, i3, i4, i5}
  Tasks = {t1, t2, t3}
SYMMETRY Symmetry
INVARIANT TypeOK
INVARIANT VerdictIsReachability
INVARIANT OneChain
INVARIANT StatusIsAccountedFor
INVARIANT EveryUnitHasOneMaker
INVARIANT LeavesABeginning
INVARIANT SomeBatchWins
INVARIANT UnplacedTowerHasCause
CHECK_DEADLOCK FALSE
