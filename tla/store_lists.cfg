CONSTANTS
  w1 = w1
  w2 = w2
  main = main
  none = none
  Workers = {w1, w2}
  Main = main
  NoThread = none
  EventIds = {1, 2}
  Dims = {1}
  SeatLists <- MCOneSeat
  MaxEvents = 2
  MaxRequests = 2
  MaxPrints = 1
SYMMETRY WorkerSymmetry
SPECIFICATION Spec
INVARIANTS Inv NoDuplicateIds PrintStaysOnList
PROPERTIES TakesEffectAtOnce
