SPECIFICATION FairSpec
CONSTANTS
  o = o
  r1 = r1
  r2 = r2
  n1 = n1
  Threads = {o, r1, r2}
  Owner = o
  Nodes = {n1}
  KMaxThreads = 3
  MaxEpoch = 4
  StampPolicy = "entered"
  LateStores = {r2}
  EmptySweeps = FALSE
PROPERTY RetiredIsFreed
 
CHECK_DEADLOCK FALSE
