CONSTANTS
  Capacity = 2
  MaxRequests = 1
  Descriptors = 3
SPECIFICATION Spec
INVARIANTS ServerSurvives
CHECK_DEADLOCK FALSE
