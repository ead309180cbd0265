CONSTANTS
  w1 = w1
  w2 = w2
  main = main
  none = none
  Workers = {w1, w2}
  Main = main
  NoThread = none
  EventIds = {1}
  Dims = {1}
  SeatLists <- MCOneSeat
  MaxEvents = 1
  MaxRequests = 1
  MaxPrints = 1
SPECIFICATION Spec
PROPERTIES PrintsAllEvents
