CONSTANTS
  w1 = w1
  w2 = w2
  main = main
  none = none
  Workers = {w1, w2}
  Main = main
  NoThread = none
  EventIds = {1}
  Dims = {1, 2}
  SeatLists <- MCSeatLists
  MaxEvents = 1
  MaxRequests = 3
  MaxPrints = 0
SYMMETRY WorkerSymmetry
SPECIFICATION Spec
INVARIANTS TypeOK NumbersAreSeated ShowIsSnapshot
PROPERTIES SeatNeverReassigned TakesEffectAtOnce
