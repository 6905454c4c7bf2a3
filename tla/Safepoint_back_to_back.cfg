SPECIFICATION FairSpec
CONSTANTS
  gc = gc
  Requesters = {gc}
  MaxMutators = 2
  Initial = 2
  Timeouts = FALSE
  Pace = "none"
  MayReturn = FALSE
PROPERTY RequestIsGranted
CHECK_DEADLOCK FALSE
