CONSTANTS
  Mshrs = 3
  FewMshrs = 2
  CpiScaled = 1
  FractionOne = 4
  WordSize = 1024
  Outcomes <- EveryKind
  ComputeCounts = {0, 3}
  MaxInstructions = 6
SPECIFICATION BothSpec
INVARIANTS StallPartition IssueExact HeapOrder OverlapOnlyHelps DependentChainSerial BandwidthIsQueueing MoreMshrsNeverSlower
PROPERTIES ImplementsMshrFile
CHECK_DEADLOCK FALSE
