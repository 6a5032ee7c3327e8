CONSTANTS
  Mshrs = 2
  CpiScaled = 2
  FractionOne = 4
  WordSize = 1024
  L1LineSize = 4
  L1SetCount = 1
  L1Associativity = 1
  L1Latency = 1
  L2Options = {TRUE, FALSE}
  L2LineSize = 4
  L2SetCount = 1
  L2Associativity = 2
  L2Latency = 2
  AddressSpace = 16
  MemoryLatency = 3
  SubCycle = 2
  TransferTicks = 9
  Records <- AllKinds
  MaxInstructions = 5
  MaxQueue = 45
  MaxGap = 40
SPECIFICATION Spec
CHECK_DEADLOCK FALSE
INVARIANTS LatencyAccounted ReadsWithinBandwidth VerdictHasCause
PROPERTIES ImplementsCpu ImplementsHierarchy
