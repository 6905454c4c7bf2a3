SPECIFICATION Spec
CONSTANTS
  o = o
  r1 = r1
  r2 = r2
  n1 = n1
  n2 = n2
  Threads = {o, r1, r2}
  Owner = o
  Nodes = {n1, n2}
  KMaxThreads = 3
  MaxEpoch = 3
  StampPolicy = "entered"
  LateStores = {}
  EmptySweeps = TRUE
SYMMETRY Symmetry
INVARIANT NoUseAfterFree
CHECK_DEADLOCK FALSE
