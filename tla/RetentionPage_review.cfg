CONSTANTS
  None = None
  N = 2
  Durations = {1, 2, 3}
  LookBack = 1
  MaxRequests = 2
  MaxOthers = 0
  MaxAge = 3
SPECIFICATION Spec
INVARIANT DeletesAsReviewed
CHECK_DEADLOCK FALSE
