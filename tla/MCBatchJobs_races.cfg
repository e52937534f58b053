SPECIFICATION FairSpec
CONSTANTS
  j1 = j1
  j2 = j2
  w1 = w1
  NoJob = NoJob
  Jobs <- MCJobs
  Workers <- MCWorkers
  Cancellable <- OneJob
  ScanLimit = 1
  Faults <- AllFaults
  MaxFaults = 2
INVARIANTS
  ClaimedAtMostOnce
  OutcomeRecorded
PROPERTIES
  QueuedIsTaken
  ImplementsLifecycle
  CancelHolds
