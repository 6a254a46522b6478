SPECIFICATION Spec
CONSTANTS
  Data = {0, 1, 2}
  Depth = 2
  PointerWidth = 2
  gray <- GrayOf
  bin <- BinOf
  Threshold = 1
  Stages = 2
  MergeReset = TRUE
  ResetSyncStages = 2
  Resets = TRUE
  None = None
INVARIANTS TypeOK OutputReady FlagsInTime StableRead
PROPERTIES IsFifo DataArrive SpaceReturns

