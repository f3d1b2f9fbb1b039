SPECIFICATION Spec
CONSTANTS
  p1 = p1
  p2 = p2
  Programs <- MCPrograms
  Drivers <- MCDrivers
  MaxCalls = 4
  MaxFaults = 1
SYMMETRY Symmetry
INVARIANTS  Alone GivenBack
CHECK_DEADLOCK FALSE
