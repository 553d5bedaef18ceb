SPECIFICATION UnitsSpec
CONSTANTS
  c1 = c1
  c2 = c2
  c3 = c3
  c4 = c4
  Calls = {c1, c2, c3, c4}
  Scalings = {"up", "down"}
  MaxInitial = 6
SYMMETRY CallSymmetry
INVARIANTS
  UnitsAreAccountedFor
  OnlyRacesLose
CHECK_DEADLOCK FALSE
