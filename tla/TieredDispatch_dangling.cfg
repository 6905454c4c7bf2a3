SPECIFICATION Spec
CONSTANTS
  m1 = m1
  Methods = {m1}
  ThresholdChoices <- Policies
  CountModulus = 8
  HaveAsmjit = TRUE
  ShortOfMemory = FALSE
INVARIANT EntriesAreCompiled
