CONSTANTS
  L1LineSize = 4
  L1SetCount = 1
  L1Associativity = 2
  L1Latency = 1
  L2Options = {TRUE, FALSE}
  L2LineSize = 8
  L2SetCount = 1
  L2Associativity = 2
  L2Latency = 2
  AddressSpace = 32
  MemoryLatency = 3
  SubCycle = 2
  TransferTicks = 5
  Addresses <- HalfLines
  Gaps = {0, 5}
  MaxAccesses = 5
SPECIFICATION Spec
INVARIANTS TrafficConserved BusSerialised
PROPERTY NoStoreLost
CHECK_DEADLOCK FALSE
