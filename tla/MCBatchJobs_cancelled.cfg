SPECIFICATION Spec
CONSTANTS
  j1 = j1
  j2 = j2
  w1 = w1
  NoJob = NoJob
  Jobs <- OneJob
  Workers <- MCWorkers
  Cancellable <- OneJob
  ScanLimit = 2
  Faults <- NoFaults
  MaxFaults = 0
PROPERTY CancelledNeverRuns
