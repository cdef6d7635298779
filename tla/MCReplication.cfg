SPECIFICATION Spec
CONSTANTS
  Node = {1, 2}
  Worker <- TwoWriters
  Key = {"k1"}
  MaxWrites = 3
  MaxDels = 1
  MaxConns = 2
  NoObject = NoObject
CHECK_DEADLOCK FALSE
INVARIANTS ClockCovers  CarriesOwnVersion
PROPERTIES NewWriteIsNewest  
