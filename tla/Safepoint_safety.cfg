SPECIFICATION Spec
CONSTANTS
  gc = gc
  Requesters = {gc}
  MaxMutators = 3
  Initial = 2
  Timeouts = TRUE
  Pace = "answered"
  MayReturn = TRUE
INVARIANT TypeOK
INVARIANT CountedStayStopped
CHECK_DEADLOCK FALSE
