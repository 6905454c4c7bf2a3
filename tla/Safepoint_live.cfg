SPECIFICATION FairSpec
CONSTANTS
  gc = gc
  Requesters = {gc}
  MaxMutators = 3
  Initial = 3
  Timeouts = FALSE
  Pace = "left"
  MayReturn = FALSE
PROPERTY RequestIsGranted
PROPERTY MutatorsResume
