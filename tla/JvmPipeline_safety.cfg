SPECIFICATION Spec
CONSTANTS
  IntBits = 4
  LongBits = 8
  DoubleBits = 6
  KMaxJvmStack = 3
  DebugBuild = TRUE
  Methods <- MCMethods
  HotMethods <- MCHotMethods
  Graphs <- MCGraphs
  Arguments <- MCArguments
  Environments <- MCEnvironments
  Fuel = 70
INVARIANTS
  TypeOK
  CompiledAgrees
  BaselineAgrees
  LoweringIsVerified
  OptimizedMeansTheSame
  FoldedValuesAreRight
  PassesAreIdempotent
  AcceptedGraphsVerify
  FallThroughIsAdjacent
  OperandsComeFirst
  PeakMeansTheSame
  PeakKeepsControl
  PacksAreComputable
CHECK_DEADLOCK FALSE
