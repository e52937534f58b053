SPECIFICATION FairSpec
CONSTANTS
  r1 = r1
  r2 = r2
  r3 = r3
  k1 = k1
  api = api
  worker = worker
  Requests <- MCRequests
  Keys <- MCKeys
  Processes <- MCProcesses
  KeyOf <- MCKeyOf
  Home <- MCHome
  Est <- MCEst
  RpmLimit = 2
  ConcLimit = 2
  TpmLimit = 4
  Faults <- NoFault
INVARIANTS
  RpmWindowArmed
PROPERTIES
  WindowsEnd
