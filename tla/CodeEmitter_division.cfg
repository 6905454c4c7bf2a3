SPECIFICATION Spec
CONSTANTS
  Graphs <- DivisionGraphs
  Gprs <- ThreeRegs
  Xmms <- OneXmm
INVARIANT CodeIsRight
