SPECIFICATION FairSpec
CONSTANTS
  v1 = v1
  v2 = v2
  Releases = {v1, v2}
  Nothing = Nothing
  MaxEvents = 2
  Refs = {main, dev}
  Schema <- MCSchema
  Keep = 1
INVARIANTS
  SchemaServed
PROPERTIES
  HealthVouches
  TunnelFollows
  ServedSurvivesCleanup
