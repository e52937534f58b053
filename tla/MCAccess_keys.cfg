SPECIFICATION Spec
CONSTANTS
  s1 = s1
  s2 = s2
  s3 = s3
  r1 = r1
  r2 = r2
  m1 = m1
  m2 = m2
  Scripts = {s1, s2, s3}
  ByIds = {s3}
  Asked <- MCAsked
  Requests = {r1, r2}
  Models = {m1, m2}
  Allowed <- MCAllowed
  Ending = {s2}
  Missing = Missing
  Unknown = Unknown
CONSTRAINT Explored
SYMMETRY MCRequestSymmetry
INVARIANTS
  TwinsAreRaces
  ResourcesKept
  LetInOnlyWhileValid
  CallsAreAllowed
PROPERTIES
  JobsAreTheirs
