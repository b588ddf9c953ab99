CONSTANTS
  s1 = s1
  s2 = s2
  s3 = s3
  Names <- MCNames
  MaxServers = 2
  MaxRevision = 1
SPECIFICATION Spec
INVARIANTS TypeOK ListSaved
PROPERTIES ExitRestored Refines
CHECK_DEADLOCK FALSE
