CONSTANTS
  c1 = c1
  c2 = c2
  Clients = {c1, c2}
  P = 2
  MaxSignals = 0
SPECIFICATION Spec
INVARIANTS ClientsTogether
SYMMETRY Symmetry
CHECK_DEADLOCK FALSE
