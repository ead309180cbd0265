CONSTANTS
  w1 = w1
  w2 = w2
  c1 = c1
  c2 = c2
  c3 = c3
  c4 = c4
  noclient = noclient
  Workers = {w1, w2}
  Clients = {c1, c2, c3, c4}
  NoClient = noclient
  N = 2
  MaxFds = 9
SPECIFICATION FairSpec
PROPERTIES HostInserts
CHECK_DEADLOCK FALSE
