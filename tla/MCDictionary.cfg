CONSTANTS
  Sources <- MCSources
  Costs = {5}
  MaxDictionaries = 3
  MaxFiles = 3
  BuildsOnMerged = FALSE
  MaxPosIds = 6
  MaxArrayLen = 3
  MaxDicStringLen = 9
  PointerBits = 12
  BaseBits = 3
  MaxVariableBits = 2

SPECIFICATION Spec

INVARIANTS
  LoadedReadsSource
