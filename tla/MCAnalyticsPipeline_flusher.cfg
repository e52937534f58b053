SPECIFICATION FairSpec
CONSTANTS
  u1 = u1
  u2 = u2
  i1 = i1
  i2 = i2
  Events <- MCEvents
  KindOf <- MCKindOf
  Critical <- MCCritical
  MaxSize = 2
  BatchSize = 2
  MaxRetries = 2
  MaxOutages = 2
  SameCollector = TRUE
  Faults <- AllFaults
INVARIANTS
  EventsAccounted
  DuplicatesNeedAFailure
  OrderUntilRequeue
PROPERTIES
  ImplementsFate
  EveryEventSettles
