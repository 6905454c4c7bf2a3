SPECIFICATION Spec
CONSTANTS
  IntBits = 4
  LongBits = 8
  DoubleBits = 6
  KMaxJvmStack = 3
  DebugBuild = TRUE
  Methods <- TwoLocals
  HotMethods <- NoMethods
  Graphs <- NoGraphs
  Arguments <- MCArguments
  Environments <- MCEnvironments
  Fuel = 20
INVARIANT OptimizedMeansTheSame
CHECK_DEADLOCK FALSE
