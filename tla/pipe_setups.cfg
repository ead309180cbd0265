CONSTANTS
  c1 = c1
  c2 = c2
  Clients = {c1, c2}
  P = 2
  MaxSignals = 3
SPECIFICATION FairSpec
INVARIANTS TypeOK EachSettledInTurn
PROPERTIES SignalPrinted SpacedSignalsSurvive SetupsSettled
CHECK_DEADLOCK FALSE
