SPECIFICATION Spec
CONSTANTS
  Graphs <- SafeGraphs
  Gprs <- MixedRegs
  Xmms <- OneXmm
INVARIANT TypeOK
INVARIANT NoSharedRegister
INVARIANT EveryValueHasAHome
INVARIANT SlotsAreDistinct
INVARIANT UndisturbedCodeIsRight
