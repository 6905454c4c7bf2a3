SPECIFICATION FairSpec
CONSTANTS
  m1 = m1
  m2 = m2
  Methods = {m1, m2}
  ThresholdChoices <- Policies
  CountModulus = 8
  HaveAsmjit = TRUE
  ShortOfMemory = TRUE
INVARIANT TypeOK
INVARIANT EntryIsLive
INVARIANT TierFollowsCount
INVARIANT CompiledOncePerTier
PROPERTY HotMethodsSettle
