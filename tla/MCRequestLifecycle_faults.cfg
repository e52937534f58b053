SPECIFICATION Spec
CONSTANTS
  p = p
  s1 = s1
  s2 = s2
  b = b
  Requests <- Three
  Kind <- KindOfThree
  IdOf <- SharedId
  Limit = 2
  Faults = {"lost", "noreply", "redis", "close", "cancel", "crash"}
INVARIANTS
  SlotCoversUpstream
  RecordedIsCharged
  EventMatchesRow
PROPERTIES
  FinallyReleases
