SPECIFICATION FairSpec
CONSTANTS
  MaxEvents = 2
INVARIANTS
  TypeOK
  ServersDoNotOverlap
  OneCmd
PROPERTIES
  ServerFollows
CHECK_DEADLOCK FALSE
