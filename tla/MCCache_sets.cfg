CONSTANTS
  LineSize = 4
  SetCount = 2
  Associativity = 3
  FewWays = 2
  AddressSpace = 64
  Addresses <- FourInOneSet
  MaxTick = 5
SPECIFICATION BothSpec
INVARIANTS TypeOK UniqueResidency TimestampOrder StatsAccount Inclusion
PROPERTIES DirtyLeavesByWriteback ImplementsLru
CHECK_DEADLOCK FALSE
