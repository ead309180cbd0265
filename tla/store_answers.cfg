CONSTANTS
  w1 = w1
  w2 = w2
  main = main
  none = none
  Workers = {w1, w2}
  Main = main
  NoThread = none
  EventIds = {1, 2, 3}
  Dims = {1}
  SeatLists <- MCOneSeat
  MaxEvents = 3
  MaxRequests = 1
  MaxPrints = 1
  Capacity = 3
  Created <- MCCreated
SPECIFICATION SlowSpec
INVARIANTS LocksComeFree
PROPERTIES AnsweredIfRead StallIsLocal
CHECK_DEADLOCK FALSE
