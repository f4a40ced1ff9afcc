SPECIFICATION FairSpec
CONSTANTS
  Fallbacks <- MC_Fallbacks
  Asked <- MC_Asked
  Limits <- MC_Limits
  StreamAbove <- MC_StreamAbove
INVARIANTS
  LargestCeiling
  KnobsAreAdapted
PROPERTIES
  NegotiationEnds
CHECK_DEADLOCK FALSE
