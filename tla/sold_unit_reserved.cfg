SPECIFICATION UnitSpec
CONSTANTS
  Units = {u1}
  Requests = {r1, r2}
  Overlap = TRUE
  MaxMoves = 2
  MaxDeaths = 0
PROPERTY SoldIsNotReserved
CHECK_DEADLOCK FALSE
