SPECIFICATION FairSpec
CONSTANTS
  p = p
  s1 = s1
  s2 = s2
  b = b
  Requests <- Four
  Kind <- KindOfFour
  IdOf <- OwnIds
  Limit = 2
  Faults = {}
INVARIANTS
  EveryRequestAccounted
  GaugeExact
PROPERTIES
  
  ImplementsContract
